------------------------- MODULE ConversationStore -------------------------
(***************************************************************************)
(* The id-keyed conversation table, its last-active pointer and every      *)
(* statement the server runs against them (persistence/drizzle).           *)
(*                                                                         *)
(* Each operation below is one SQL statement or one synchronous            *)
(* transaction, so it is one atomic step.  The operations are actions over *)
(* `rows' and `activeId' and are shared: StoreNext lets any caller invoke  *)
(* any of them at any time, and module ChatServer calls them from the      *)
(* route handlers.                                                         *)
(*                                                                         *)
(* A message keeps only what the properties tell apart: the chat turn that *)
(* produced it, its role, the mark an incomplete assistant turn carries,   *)
(* whether its id is blank (rows written by older builds), and whether it  *)
(* passes the UIMessage schema.  A title keeps its provenance.             *)
(***************************************************************************)
EXTENDS Naturals, Sequences

CONSTANTS
  Ids,          \* conversation ids of the one local owner
  Transcripts,  \* message lists an arbitrary caller may save (StoreNext only)
  Efforts,      \* reasoning-effort override values
  Models,       \* model-id override values
  UserTitles,   \* titles a rename request or the titling model can set
  None,         \* SQL NULL / undefined / no such row
  MaxRevision,  \* bound: StoreNext saves only below this revision
  MaxClock      \* bound: last value of the seconds clock

Message == [turn: Nat, role: {"user", "assistant"},
            mark: {"complete", "aborted", "error"},
            blank: BOOLEAN, sound: BOOLEAN]

EmptyTitle  == ""
Placeholder == "New conversation"
Titles      == UserTitles \cup {EmptyTitle, Placeholder, "derived", "branch"}

Row == [title: Titles, messages: Seq(Message),
        reasoning: Efforts \cup {None}, model: Models \cup {None},
        pinned: BOOLEAN, forkedFrom: Ids \cup {None},
        revision: Nat, updatedAt: Nat]

ASSUME StoreAssumption ==
  /\ Transcripts \subseteq Seq(Message)
  /\ None \notin Ids /\ None \notin Nat
  /\ None \notin Row
  /\ MaxRevision \in Nat /\ MaxClock \in Nat

VARIABLES
  rows,      \* the conversation table: Ids -> Row, None where absent
  activeId,  \* app_state.last_active_conversation_id
  clock      \* unix time in seconds

storeVars == <<rows, activeId, clock>>

Exists(id) == rows[id] # None
Live       == {id \in Ids : Exists(id)}

(* The ids `list' can return first: it orders by updated_at only, so rows  *)
(* of the same second come in any order.                                   *)
MostRecent == {id \in Live : \A o \in Live : rows[o].updatedAt <= rows[id].updatedAt}

-----------------------------------------------------------------------------
(***************************************************************************)
(* saveTurn                                                                *)
(***************************************************************************)
(* Mutant: a list without user text derives no title instead of the        *)
(* placeholder.                                                            *)
DeriveTitleOrNull(msgs) ==
  IF \E i \in DOMAIN msgs : msgs[i].role = "user" THEN "derived" ELSE None

DeriveTitle(msgs) ==
  IF \E i \in DOMAIN msgs : msgs[i].role = "user" THEN "derived" ELSE Placeholder

NewRow(msgs) ==
  [title |-> DeriveTitle(msgs), messages |-> msgs,
   reasoning |-> None, model |-> None, pinned |-> FALSE, forkedFrom |-> None,
   revision |-> 1, updatedAt |-> clock]

(* Mutant: the replacement does not bump the revision. *)
TurnRowSpendsNothing(row, msgs) ==
  [row EXCEPT !.messages  = msgs,
              !.title     = IF @ \in {EmptyTitle, Placeholder} THEN DeriveTitle(msgs) ELSE @,
              !.updatedAt = clock]

TurnRow(row, msgs) ==
  [row EXCEPT !.messages  = msgs,
              !.title     = IF @ \in {EmptyTitle, Placeholder} THEN DeriveTitle(msgs) ELSE @,
              !.revision  = @ + 1,
              !.updatedAt = clock]

(* Mutant: the base revision is not compared with the stored one. *)
SaveOutcomeBlind(id, msgs, base) ==
  CASE ~Exists(id)               -> "created"
    [] Exists(id) /\ msgs = <<>> -> "probed"
    [] OTHER                     -> "replaced"

(* The branch saveTurn takes, in the order of its tests: an absent row is  *)
(* created whatever the base; an empty list on an existing row is the      *)
(* override routes' probe; a base that is given must equal the stored one. *)
SaveOutcome(id, msgs, base) ==
  CASE ~Exists(id)                           -> "created"
    [] Exists(id) /\ msgs = <<>>             -> "probed"
    [] Exists(id) /\ msgs # <<>>
         /\ base \notin {None, rows[id].revision} -> "conflict"
    [] OTHER                                 -> "replaced"

SaveTurn(id, msgs, base) ==
  \/ /\ SaveOutcome(id, msgs, base) = "created"
     /\ rows' = [rows EXCEPT ![id] = NewRow(msgs)]
  \/ /\ SaveOutcome(id, msgs, base) = "replaced"
     /\ rows' = [rows EXCEPT ![id] = TurnRow(rows[id], msgs)]
  \/ /\ SaveOutcome(id, msgs, base) \in {"probed", "conflict"}
     /\ rows' = rows

-----------------------------------------------------------------------------
(***************************************************************************)
(* branch: one transaction that validates in this order and inserts.       *)
(***************************************************************************)
BranchOutcome(source, newId, through, base) ==
  CASE ~Exists(source)                    -> "not-found"
    [] Exists(source) /\ base # rows[source].revision -> "conflict"
    [] Exists(source) /\ base = rows[source].revision
         /\ through # None /\ through >= Len(rows[source].messages) -> "bad-index"
    [] Exists(source) /\ base = rows[source].revision
         /\ (through = None \/ through < Len(rows[source].messages))
         /\ Exists(newId)                 -> "collision"
    [] OTHER                              -> "ok"

(* `through' is the 0-based inclusive last index.  The reasoning override  *)
(* is copied, the model override is not.                                   *)
BranchRow(source, through) ==
  LET row    == rows[source]
      prefix == IF through = None THEN row.messages
                ELSE SubSeq(row.messages, 1, through + 1)
  IN  [NewRow(prefix) EXCEPT !.title      = IF through = None THEN "branch" ELSE @,
                             !.reasoning  = row.reasoning,
                             !.forkedFrom = source]

Branch(source, newId, through, base) ==
  rows' = IF BranchOutcome(source, newId, through, base) = "ok"
          THEN [rows EXCEPT ![newId] = BranchRow(source, through)]
          ELSE rows

-----------------------------------------------------------------------------
(***************************************************************************)
(* Single-column updates.  Each is an UPDATE ... WHERE id = ?, which       *)
(* affects no row when the conversation is absent.                         *)
(***************************************************************************)
Rename(id, title) ==
  rows' = IF Exists(id) THEN [rows EXCEPT ![id].title = title] ELSE rows

SetPinned(id, pinned) ==
  rows' = IF Exists(id) THEN [rows EXCEPT ![id].pinned = pinned] ELSE rows

HealMessages(id, msgs) ==
  rows' = IF Exists(id) THEN [rows EXCEPT ![id].messages = msgs] ELSE rows

(* Mutant: an override spends a revision. *)
SetReasoningOverrideSpends(id, effort) ==
  rows' = IF Exists(id) THEN [rows EXCEPT ![id].reasoning = effort, ![id].revision = @ + 1] ELSE rows

SetReasoningOverride(id, effort) ==
  rows' = IF Exists(id) THEN [rows EXCEPT ![id].reasoning = effort] ELSE rows

SetModelOverride(id, model) ==
  rows' = IF Exists(id) THEN [rows EXCEPT ![id].model = model] ELSE rows

(* delete and deleteMany; the empty list is a no-op. *)
Delete(ids) ==
  rows' = [id \in Ids |-> IF id \in ids THEN None ELSE rows[id]]

SetActiveId(id) == activeId' = id

-----------------------------------------------------------------------------
(***************************************************************************)
(* The store with arbitrary callers.                                       *)
(***************************************************************************)
StoreInit ==
  /\ rows = [id \in Ids |-> None]
  /\ activeId = None
  /\ clock = 0

CallSaveTurn ==
  /\ \E id \in Ids, msgs \in Transcripts, base \in (0 .. MaxRevision) \cup {None} :
       /\ Exists(id) => rows[id].revision < MaxRevision
       /\ SaveTurn(id, msgs, base)
  /\ UNCHANGED <<activeId, clock>>

CallBranch ==
  /\ \E source, newId \in Ids, base \in 0 .. MaxRevision :
       \E through \in {None} \cup {0, 1} : Branch(source, newId, through, base)
  /\ UNCHANGED <<activeId, clock>>

CallColumnUpdate ==
  /\ \E id \in Ids :
       \/ \E title \in UserTitles : Rename(id, title)
       \/ \E pinned \in BOOLEAN : SetPinned(id, pinned)
       \/ \E msgs \in Transcripts : HealMessages(id, msgs)
       \/ \E effort \in Efforts \cup {None} : SetReasoningOverride(id, effort)
       \/ \E model \in Models \cup {None} : SetModelOverride(id, model)
  /\ UNCHANGED <<activeId, clock>>

CallDelete ==
  /\ \E ids \in SUBSET Ids : Delete(ids)
  /\ UNCHANGED <<activeId, clock>>

CallSetActive ==
  /\ \E id \in Ids \cup {None} : SetActiveId(id)
  /\ UNCHANGED <<rows, clock>>

Tick ==
  /\ clock < MaxClock
  /\ clock' = clock + 1
  /\ UNCHANGED <<rows, activeId>>

StoreNext ==
  CallSaveTurn \/ CallBranch \/ CallColumnUpdate \/ CallDelete \/ CallSetActive \/ Tick

StoreSpec == StoreInit /\ [][StoreNext]_storeVars

-----------------------------------------------------------------------------
(* Types of the table, the pointer and the clock. *)
StoreTypeOK ==
  /\ rows \in [Ids -> Row \cup {None}]
  /\ activeId \in Ids \cup {None}
  /\ clock \in 0 .. MaxClock

Contract == INSTANCE TurnContract

(* The table implements the port contract of TurnContract: revision and    *)
(* recency advance together and only by a saved turn, overrides, pins and  *)
(* chosen titles survive turns, column updates spend no token, and a       *)
(* branch is born at revision 1 without its source's model or pin          *)
(* (drizzle-conversation-write.ts, drizzle-conversation-branch.ts).        *)
PortContract == Contract!Spec
=============================================================================
