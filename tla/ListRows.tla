------------------------------ MODULE ListRows ------------------------------
(***************************************************************************)
(* One tab's sidebar: the cached list of conversations, the optimistic     *)
(* edits of its rows (rename, pin, unpin, each with a rollback of the one  *)
(* field it changed), branching, and the batch delete of the manage        *)
(* dialog, over the stored rows that other tabs change too.                *)
(*                                                                         *)
(* A pin or a delete that succeeds refetches the list.  A rename that      *)
(* succeeds does not: the patched row is taken to be right already.  So a  *)
(* refetch that was answered before the rename, or an earlier rename of    *)
(* the row that arrives late, leaves a title that nothing corrects; and a  *)
(* branch or a batch delete whose answer is lost refetches nothing.        *)
(* `overtaken' and `unanswered' are history: this may have happened.       *)
(***************************************************************************)
EXTENDS Naturals, Sequences, FiniteSetsExt

CONSTANTS
  SidebarRows,     \* conversation ids
  RowTitles,       \* titles a user types
  MaxRowEdits,     \* bound: edits made in this tab
  MaxElsewhere     \* bound: changes made in other tabs

ASSUME ListRowsAssumption == RowTitles # {} /\ MaxRowEdits \in Nat /\ MaxElsewhere \in Nat

VARIABLES
  storedRows,   \* id -> row, for the rows there are
  listCache,    \* the same, as this tab has it
  listFetch,    \* its refetch: [at, answer, clean]
  rowEdits,     \* the edits made here, in order
  selection,    \* the ids ticked in the manage dialog
  elsewhere,    \* how often other tabs changed something
  untoldChanges,     \* broadcast events not yet handled
  overtaken,
  unanswered

rowVars == <<storedRows, listCache, listFetch, rowEdits, selection, elsewhere, untoldChanges, overtaken, unanswered>>

(* ConversationSummary.  `pin' orders the pinned section, 0 is unpinned. *)
SidebarRow == [title: RowTitles, pin: Nat]

IsRowMap(rows) == DOMAIN rows \subseteq SidebarRows /\ rows \in [DOMAIN rows -> SidebarRow]

(* `source' is what a branch is made from; of other edits, a row they edit. *)
RowEdit == [kind: {"rename", "pin", "delete", "branch"}, ids: SUBSET SidebarRows, source: SidebarRows,
            title: RowTitles, pin: Nat, before: SidebarRow, at: {"sent", "stored", "done"}]

EditNumbers == 1 .. Len(rowEdits)

Renaming(edits) == \E i \in 1 .. Len(edits) : edits[i].kind = "rename" /\ edits[i].at # "done"

RefetchedBy(fetch, edits) == [at |-> "asked", answer |-> <<>>, clean |-> ~Renaming(edits)]

-----------------------------------------------------------------------------
(* patchConversationRow: one row, and nothing when it is not cached. *)
PatchedRow(cache, id, row) == IF id \in DOMAIN cache THEN [cache EXCEPT ![id] = row] ELSE cache

TopPin(rows) == Max({rows[i].pin : i \in DOMAIN rows} \cup {0}) + 1

(* pinnedConversationsByRecency: the pinned section, most recent first. *)
PinnedAbove(rows) ==
  {p \in (DOMAIN rows) \X (DOMAIN rows) : rows[p[2]].pin > 0 /\ rows[p[1]].pin > rows[p[2]].pin}

PinnedIds(rows) == {i \in DOMAIN rows : rows[i].pin > 0}

SendEdit(kind, ids, source, title, pin, before) ==
  /\ Len(rowEdits) < MaxRowEdits
  /\ rowEdits' = Append(rowEdits, [kind |-> kind, ids |-> ids, source |-> source, title |-> title, pin |-> pin,
                                   before |-> before, at |-> "sent"])

(* useRenameConversation: the row shows the title before the server has it. *)
RenameRow(id, title) ==
  /\ id \in DOMAIN listCache
  /\ LET row == listCache[id]
     IN  /\ SendEdit("rename", {id}, id, title, row.pin, row)
         /\ listCache' = PatchedRow(listCache, id, [row EXCEPT !.title = title])
  /\ overtaken' = (overtaken \/ Renaming(rowEdits))
  /\ listFetch' = [listFetch EXCEPT !.clean = FALSE]
  /\ UNCHANGED <<storedRows, selection, elsewhere, untoldChanges, unanswered>>

(* usePinConversation: above all pins this tab knows of, or unpinned. *)
PinRow(id) ==
  /\ id \in DOMAIN listCache
  /\ LET row == listCache[id]
         pin == IF row.pin = 0 THEN TopPin(listCache) ELSE 0
     IN  /\ SendEdit("pin", {id}, id, row.title, pin, row)
         /\ listCache' = PatchedRow(listCache, id, [row EXCEPT !.pin = pin])
  /\ UNCHANGED <<storedRows, listFetch, selection, elsewhere, untoldChanges, overtaken, unanswered>>

(* useBranchConversation: a new id that is not in the list.  The server    *)
(* makes the title, from that of the source or from its first message, and *)
(* sets no pin.  Nothing is shown before it is stored.                     *)
BranchOffRow(source, id) ==
  /\ source \in DOMAIN listCache /\ id \notin DOMAIN listCache
  /\ \E title \in RowTitles : SendEdit("branch", {id}, source, title, 0, listCache[source])
  /\ UNCHANGED <<storedRows, listCache, listFetch, selection, elsewhere, untoldChanges, overtaken, unanswered>>

(* ManageConversationsList: ticks outlive the rows they were set on. *)
ToggleRow(id) ==
  /\ id \in DOMAIN listCache
  /\ selection' = IF id \in selection THEN selection \ {id} ELSE selection \cup {id}
  /\ UNCHANGED <<storedRows, listCache, listFetch, rowEdits, elsewhere, untoldChanges, overtaken, unanswered>>

LiveSelection == selection \cap DOMAIN listCache

(* The confirmed batch: what is ticked and still listed at that moment. *)
DeleteSelection ==
  /\ LiveSelection # {}
  /\ LET some == CHOOSE id \in LiveSelection : TRUE
     IN  SendEdit("delete", LiveSelection, some, listCache[some].title, 0, listCache[some])
  /\ UNCHANGED <<storedRows, listCache, listFetch, selection, elsewhere, untoldChanges, overtaken, unanswered>>

-----------------------------------------------------------------------------
(* What the server makes of an edit; renames and pins of a row that is     *)
(* gone are answered 404, as is a branch of one; a branch onto an id there *)
(* is, or of a row with another revision than this tab has, is answered    *)
(* 409.  Revisions are not counted here, EditFails has that answer at any  *)
(* time.                                                                   *)
Accepted(edit) ==
  CASE edit.kind = "branch" -> edit.source \in DOMAIN storedRows /\ edit.ids \cap DOMAIN storedRows = {}
    [] edit.kind = "delete" -> TRUE
    [] OTHER                -> edit.ids \subseteq DOMAIN storedRows

AfterEdit(edit) ==
  CASE edit.kind = "delete" -> [i \in DOMAIN storedRows \ edit.ids |-> storedRows[i]]
    [] edit.kind = "branch" -> [i \in DOMAIN storedRows \cup edit.ids |->
                                  IF i \in edit.ids THEN [title |-> edit.title, pin |-> 0] ELSE storedRows[i]]
    [] edit.kind = "rename" -> [i \in DOMAIN storedRows |->
                                  IF i \in edit.ids THEN [storedRows[i] EXCEPT !.title = edit.title] ELSE storedRows[i]]
    [] OTHER                -> [i \in DOMAIN storedRows |->
                                  IF i \notin edit.ids THEN storedRows[i]
                                  ELSE [storedRows[i] EXCEPT !.pin = IF edit.pin = 0 THEN 0 ELSE TopPin(storedRows)]]

StoreEdit(n) ==
  /\ rowEdits[n].at = "sent" /\ Accepted(rowEdits[n])
  /\ storedRows' = AfterEdit(rowEdits[n])
  /\ rowEdits' = [rowEdits EXCEPT ![n].at = "stored"]
  /\ UNCHANGED <<listCache, listFetch, selection, elsewhere, untoldChanges, overtaken, unanswered>>

Finished(n) == rowEdits' = [rowEdits EXCEPT ![n].at = "done"]

(* Mutant: a pin, like a rename, trusts the row it patched. *)
EditSucceedsUnrefreshed(n) ==
  /\ rowEdits[n].at = "stored"
  /\ Finished(n)
  /\ listFetch' = IF rowEdits[n].kind \in {"rename", "pin"} THEN listFetch ELSE RefetchedBy(listFetch, rowEdits')
  /\ selection' = IF rowEdits[n].kind = "delete" THEN {} ELSE selection
  /\ UNCHANGED <<storedRows, listCache, elsewhere, untoldChanges, overtaken, unanswered>>

(* The answer to an edit arrives: all but a rename refetch the list, a     *)
(* batch delete clears the ticks.                                          *)
EditSucceeds(n) ==
  /\ rowEdits[n].at = "stored"
  /\ Finished(n)
  /\ listFetch' = IF rowEdits[n].kind = "rename" THEN listFetch ELSE RefetchedBy(listFetch, rowEdits')
  /\ selection' = IF rowEdits[n].kind = "delete" THEN {} ELSE selection
  /\ UNCHANGED <<storedRows, listCache, elsewhere, untoldChanges, overtaken, unanswered>>

RolledBack(edit) ==
  LET id == CHOOSE i \in edit.ids : TRUE
  IN  CASE id \notin DOMAIN listCache -> listCache
        [] edit.kind = "rename"       -> PatchedRow(listCache, id, [listCache[id] EXCEPT !.title = edit.before.title])
        [] edit.kind = "pin"          -> PatchedRow(listCache, id, [listCache[id] EXCEPT !.pin = edit.before.pin])
        [] OTHER                      -> listCache

(* The answer is lost or an error, whether or not the edit was stored: the *)
(* field goes back to what it was and the list is refetched.  A failed     *)
(* batch delete or branch is announced and refreshes nothing, but for a    *)
(* branch that was a conflict.                                             *)
EditFails(n) ==
  /\ rowEdits[n].at # "done"
  /\ Finished(n)
  /\ listCache' = RolledBack(rowEdits[n])
  /\ LET edit == rowEdits[n]
     IN  /\ \/ /\ edit.kind \in {"rename", "pin"} \/ (edit.kind = "branch" /\ edit.at = "sent")
               /\ listFetch' = RefetchedBy(listFetch, rowEdits')
            \/ edit.kind \in {"branch", "delete"} /\ UNCHANGED listFetch
         /\ unanswered' = (unanswered \/ (edit.kind \in {"branch", "delete"} /\ edit.at = "stored"))
  /\ UNCHANGED <<storedRows, selection, elsewhere, untoldChanges, overtaken>>

-----------------------------------------------------------------------------
(* Another tab renames, pins or deletes, and its event reaches this one. *)
ChangeElsewhere(id) ==
  /\ elsewhere < MaxElsewhere /\ id \in DOMAIN storedRows
  /\ \/ \E title \in RowTitles : storedRows' = [storedRows EXCEPT ![id].title = title]
     \/ storedRows' = [storedRows EXCEPT ![id].pin = IF @ = 0 THEN TopPin(storedRows) ELSE 0]
     \/ storedRows' = [i \in DOMAIN storedRows \ {id} |-> storedRows[i]]
  /\ elsewhere' = elsewhere + 1 /\ untoldChanges' = untoldChanges + 1
  /\ UNCHANGED <<listCache, listFetch, rowEdits, selection, overtaken, unanswered>>

HearListChanged ==
  /\ untoldChanges > 0 /\ untoldChanges' = untoldChanges - 1
  /\ listFetch' = RefetchedBy(listFetch, rowEdits)
  /\ UNCHANGED <<storedRows, listCache, rowEdits, selection, elsewhere, overtaken, unanswered>>

AnswerRows ==
  /\ listFetch.at = "asked"
  /\ listFetch' = [listFetch EXCEPT !.at = "answered", !.answer = storedRows]
  /\ UNCHANGED <<storedRows, listCache, rowEdits, selection, elsewhere, untoldChanges, overtaken, unanswered>>

LoadRows ==
  /\ listFetch.at = "answered"
  /\ listCache' = listFetch.answer
  /\ overtaken' = ~listFetch.clean
  /\ listFetch' = [listFetch EXCEPT !.at = "idle", !.answer = <<>>]
  /\ UNCHANGED <<storedRows, rowEdits, selection, elsewhere, untoldChanges, unanswered>>

ListRowsInit ==
  /\ \E ids \in SUBSET SidebarRows \ {{}} :
       storedRows = [i \in ids |-> [title |-> CHOOSE title \in RowTitles : TRUE, pin |-> 0]]
  /\ listCache = storedRows
  /\ listFetch = [at |-> "idle", answer |-> <<>>, clean |-> TRUE]
  /\ rowEdits = <<>> /\ selection = {} /\ elsewhere = 0 /\ untoldChanges = 0
  /\ overtaken = FALSE /\ unanswered = FALSE

ListRowsNext ==
  \/ \E id \in SidebarRows :
       \/ \E title \in RowTitles : RenameRow(id, title)
       \/ PinRow(id) \/ ToggleRow(id) \/ ChangeElsewhere(id)
       \/ \E source \in SidebarRows : BranchOffRow(source, id)
  \/ DeleteSelection
  \/ \E n \in EditNumbers : StoreEdit(n) \/ EditSucceeds(n) \/ EditFails(n)
  \/ HearListChanged \/ AnswerRows \/ LoadRows

ListRowsSpec == ListRowsInit /\ [][ListRowsNext]_rowVars

-----------------------------------------------------------------------------
ListRowsTypeOK ==
  /\ IsRowMap(storedRows) /\ IsRowMap(listCache)
  /\ listFetch.at \in {"idle", "asked", "answered"} /\ IsRowMap(listFetch.answer) /\ listFetch.clean \in BOOLEAN
  /\ \A n \in EditNumbers : rowEdits[n] \in RowEdit
  /\ selection \subseteq SidebarRows /\ elsewhere \in Nat /\ untoldChanges \in Nat /\ {overtaken, unanswered} \subseteq BOOLEAN

SidebarQuiet == /\ \A n \in EditNumbers : rowEdits[n].at = "done"
                /\ listFetch.at = "idle" /\ untoldChanges = 0 /\ ~unanswered

(* Once every edit is answered, every event heard and the list refetched,  *)
(* the sidebar lists the stored conversations, its pinned section is the   *)
(* stored one in the stored order, however edits, their rollbacks, stale   *)
(* refetches and other tabs overlapped; and the titles are the stored ones *)
(* unless a rename was overtaken (useRenameConversation, usePinConversation). *)
QuietSidebarAgrees ==
  SidebarQuiet =>
    /\ DOMAIN listCache = DOMAIN storedRows
    /\ PinnedIds(listCache) = PinnedIds(storedRows)
    /\ PinnedAbove(listCache) = PinnedAbove(storedRows)
    /\ ~overtaken => listCache = storedRows
=============================================================================
