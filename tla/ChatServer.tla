----------------------------- MODULE ChatServer -----------------------------
(***************************************************************************)
(* The server's conversation API: the chat turn and the handlers that      *)
(* list, read, delete, activate, override, title, pin and branch           *)
(* conversations, running concurrently over the ConversationStore for      *)
(* several browser tabs.                                                   *)
(*                                                                         *)
(* A handler is a sequence of steps, one per awaited call.  The server is  *)
(* one JavaScript event loop.  A handler that awaits the network, a        *)
(* provider or a file hands the loop over; one that awaits a bun:sqlite    *)
(* call is resumed from the microtask queue before another request is      *)
(* looked at, because that driver runs each statement synchronously.       *)
(* `running' names the handler that still holds the loop.  In an adverse   *)
(* execution every await hands the loop over, which is all that the        *)
(* Promise-returning port itself guarantees, store calls may throw and the *)
(* process may crash.                                                      *)
(*                                                                         *)
(* Each tab has one request at a time; what one page overlaps with its own *)
(* request, another tab does here.  A tab sends a turn from the detail     *)
(* response it loaded last: transcript and base revision together.         *)
(***************************************************************************)
EXTENDS ConversationStore

CONSTANTS
  Tabs,     \* browser tabs
  Scenes    \* the executions considered

OperationNames == {"chat", "list", "detail", "delete", "activate", "override", "title", "pin", "branch"}

(* What an execution is limited to: the operations its tabs perform, the   *)
(* rows an older build may have left in the table, and as bounds the chat  *)
(* turns started and how often an id is created that may be deleted again. *)
(* Legacy rows were saved before the clock of the execution starts.        *)
Scene == [operations: SUBSET OperationNames, adverse: BOOLEAN, legacy: SUBSET Row, turns: Nat, births: Nat]

ASSUME ServerAssumption ==
  /\ Scenes \subseteq Scene
  /\ \A s \in Scenes : \A row \in s.legacy : row.updatedAt = 0
  /\ None \notin Tabs

VARIABLES
  scene,    \* the limits of this execution; never changes
  req,      \* per tab: the handler serving its request, Idle when none
  running,  \* the tab whose handler holds the event loop, or None
  view,     \* per tab: the detail response it shows, or NoView
  entry,    \* per tab: the activeId of the last list response
  turns,    \* chat turns started so far; stamps the messages
  born      \* history: how often a row was created under each id

vars == <<rows, activeId, clock, scene, req, running, view, entry, turns, born>>

adverse == scene.adverse

View == [id: Ids \cup {None}, revision: Nat, messages: Seq(Message), born: Nat]

NoView == [id |-> None, revision |-> 0, messages |-> <<>>, born |-> 0]

(* A handler's locals.  `seen' is history: the view a chat turn was built  *)
(* from.                                                                   *)
Request == [at: {"idle", "preflight", "resolve", "stream", "mark", "validate",
                 "pointer", "survivors", "write", "activate", "override",
                 "rename", "title", "listed"},
            id: Ids \cup {None}, ids: SUBSET Ids, base: Nat \cup {None},
            messages: Seq(Message), turn: Nat, revision: Nat,
            effort: Efforts \cup {None}, seen: View]

Idle == [at |-> "idle", id |-> None, ids |-> {}, base |-> None, messages |-> <<>>,
         turn |-> 0, revision |-> 0, effort |-> None, seen |-> NoView]

-----------------------------------------------------------------------------
(***************************************************************************)
(* Transcripts                                                             *)
(***************************************************************************)
Said(turn, role, mark) ==
  [turn |-> turn, role |-> role, mark |-> mark, blank |-> FALSE, sound |-> TRUE]

UserSays(turn) == Said(turn, "user", "complete")

(* safeValidateUIMessages accepts the list. *)
Parseable(msgs) == \A i \in DOMAIN msgs : msgs[i].sound

(* ensureMessageIds: fill every blank id. *)
WithIds(msgs)  == [i \in DOMAIN msgs |-> [msgs[i] EXCEPT !.blank = FALSE]]
HasBlank(msgs) == \E i \in DOMAIN msgs : msgs[i].blank

(* The save policy for a finished turn: what onFinish stores of an         *)
(* incoming list, by the stream's outcome and by whether the assistant     *)
(* produced content; None when it stores nothing.                          *)
TurnMessages(incoming, turn, status, content) ==
  CASE status = "complete"                 -> Append(WithIds(incoming), Said(turn, "assistant", "complete"))
    [] status # "complete" /\ content      -> Append(WithIds(incoming), Said(turn, "assistant", status))
    [] status = "error" /\ ~content        -> WithIds(incoming)
    [] OTHER                               -> None

-----------------------------------------------------------------------------
(***************************************************************************)
(* The event loop                                                          *)
(***************************************************************************)
CanRun(t)   == running \in {None, t}
Starts(t)   == running = None /\ req[t] = Idle
At(t, pc)   == req[t].at = pc /\ CanRun(t)

(* The handler goes on after a store call: it keeps the loop unless the    *)
(* execution is adverse.                                                   *)
AfterStore(t, r) ==
  /\ req' = [req EXCEPT ![t] = r]
  /\ running' = IF adverse THEN None ELSE t

(* The handler waits for a file, a provider or the network. *)
AfterYield(t, r) ==
  /\ req' = [req EXCEPT ![t] = r]
  /\ running' = None

Respond(t) == AfterYield(t, Idle)

Goto(t, pc) == [req[t] EXCEPT !.at = pc]

TableUnchanged   == UNCHANGED <<rows, activeId>>
BrowserUnchanged == UNCHANGED <<view, entry, turns>>

-----------------------------------------------------------------------------
(***************************************************************************)
(* POST /chat                                                              *)
(***************************************************************************)
(* What a tab showing `shown' may send: a new user message after any       *)
(* prefix of the transcript (a plain send, or an edit), or a prefix ending *)
(* in a user message already there (a regenerate).                         *)
Sendable(shown, turn) ==
  LET prefixes == {SubSeq(shown, 1, keep) : keep \in 0 .. Len(shown)}
  IN  {Append(prefix, UserSays(turn)) : prefix \in prefixes}
        \cup {prefix \in prefixes : prefix # <<>> /\ prefix[Len(prefix)].role = "user"}

(* The turn carries the revision of the view it was built from; on an id   *)
(* the tab shows nothing for it is a first message and carries none.       *)
SendTurn(t) ==
  /\ "chat" \in scene.operations
  /\ Starts(t)
  /\ turns < scene.turns
  /\ turns' = turns + 1
  /\ \E id \in Ids :
       LET seen == IF view[t].id = id THEN view[t] ELSE NoView
       IN  \E msgs \in Sendable(seen.messages, turns') :
             AfterYield(t, [Idle EXCEPT
               !.at       = "preflight",
               !.id       = id,
               !.base     = IF seen = NoView THEN None ELSE seen.revision,
               !.messages = msgs,
               !.turn     = turns',
               !.seen     = seen])
  /\ TableUnchanged
  /\ UNCHANGED <<view, entry>>

PreflightConflict(t) ==
  req[t].base # None /\ Exists(req[t].id) /\ rows[req[t].id].revision # req[t].base

(* resolveChatPersistenceTarget: a base that the stored row no longer      *)
(* carries is a 409 before any model is resolved.                          *)
RejectStale(t) ==
  /\ At(t, "preflight")
  /\ PreflightConflict(t)
  /\ Respond(t)
  /\ TableUnchanged
  /\ BrowserUnchanged

(* Mutant: only the save checks the base. *)
PassPreflightUnchecked(t) ==
  /\ At(t, "preflight")
  /\ AfterYield(t, Goto(t, "resolve"))
  /\ TableUnchanged
  /\ BrowserUnchanged

(* Otherwise the model override is read and the model resolved from the    *)
(* settings files.                                                         *)
PassPreflight(t) ==
  /\ At(t, "preflight")
  /\ ~PreflightConflict(t)
  /\ AfterYield(t, Goto(t, "resolve"))
  /\ TableUnchanged
  /\ BrowserUnchanged

(* An unconfigured or failing provider answers 503 or 502 and stores       *)
(* nothing.                                                                *)
FailResolve(t) ==
  /\ At(t, "resolve")
  /\ Respond(t)
  /\ TableUnchanged
  /\ BrowserUnchanged

StartStream(t) ==
  /\ At(t, "resolve")
  /\ AfterYield(t, Goto(t, "stream"))
  /\ TableUnchanged
  /\ BrowserUnchanged

(* streamChat's onFinish: the outcome is mapped, the save policy applied   *)
(* and the turn saved with the base of its own request.  A conflict here   *)
(* is only logged, and the pointer is marked all the same.                 *)
FinishTurn(t) ==
  /\ At(t, "stream")
  /\ \E status \in {"complete", "aborted", "error"}, content \in BOOLEAN :
       LET r    == req[t]
           msgs == TurnMessages(r.messages, r.turn, status, content)
       IN  \/ /\ msgs = None
              /\ Respond(t)
              /\ UNCHANGED rows
           \/ /\ msgs # None
              /\ SaveTurn(r.id, msgs, r.base)
              /\ AfterStore(t, Goto(t, "mark"))
  /\ UNCHANGED activeId
  /\ BrowserUnchanged

MarkActive(t) ==
  /\ At(t, "mark")
  /\ SetActiveId(req[t].id)
  /\ Respond(t)
  /\ UNCHANGED rows
  /\ BrowserUnchanged

-----------------------------------------------------------------------------
(***************************************************************************)
(* GET /conversations and GET /conversations/:id                           *)
(***************************************************************************)
ListRows(t) ==
  /\ "list" \in scene.operations
  /\ Starts(t)
  /\ \E first \in (IF Live = {} THEN {None} ELSE MostRecent) :
       AfterStore(t, [Idle EXCEPT !.at = "listed", !.ids = Live, !.id = first])
  /\ TableUnchanged
  /\ BrowserUnchanged

(* Mutant: a stored pointer is served as it is. *)
ResolveActiveIdUnchecked(stored, listed, first) == IF stored # None THEN stored ELSE first

ResolveActiveId(stored, listed, first) == IF stored \in listed THEN stored ELSE first

RespondList(t) ==
  /\ At(t, "listed")
  /\ entry' = [entry EXCEPT ![t] = ResolveActiveId(activeId, req[t].ids, req[t].id)]
  /\ Respond(t)
  /\ TableUnchanged
  /\ UNCHANGED <<view, turns>>

LoadDetail(t) ==
  /\ "detail" \in scene.operations
  /\ Starts(t)
  /\ \E id \in Live :
       AfterStore(t, [Idle EXCEPT !.at       = "validate",
                                  !.id       = id,
                                  !.messages = rows[id].messages,
                                  !.revision = rows[id].revision,
                                  !.seen     = [NoView EXCEPT !.born = born[id]]])
  /\ TableUnchanged
  /\ BrowserUnchanged

(* The loaded transcript is validated; one that does not parse is served   *)
(* empty, blank ids are filled and written back without a revision, and    *)
(* the write may fail without failing the read.  The response carries the  *)
(* revision of the load.                                                   *)
RespondDetail(t) ==
  LET r      == req[t]
      served == IF Parseable(r.messages) THEN WithIds(r.messages) ELSE <<>>
      heals  == Parseable(r.messages) /\ HasBlank(r.messages)
  IN  /\ At(t, "validate")
      /\ \/ heals /\ HealMessages(r.id, served)
         \/ (heals => adverse) /\ UNCHANGED rows
      /\ view' = [view EXCEPT ![t] = [id |-> r.id, revision |-> r.revision,
                                      messages |-> served, born |-> r.seen.born]]
      /\ Respond(t)
      /\ UNCHANGED <<activeId, entry, turns>>

-----------------------------------------------------------------------------
(***************************************************************************)
(* DELETE /conversations/:id and POST /conversations/delete-batch          *)
(***************************************************************************)
DeleteConversations(t) ==
  /\ "delete" \in scene.operations
  /\ Starts(t)
  /\ \E ids \in SUBSET {id \in Ids : born[id] < scene.births} \ {{}} :
       /\ Delete(ids)
       /\ AfterStore(t, [Idle EXCEPT !.at = "pointer", !.ids = ids])
  /\ UNCHANGED activeId
  /\ BrowserUnchanged

(* Mutant: a delete leaves the pointer alone. *)
CheckPointerNever(t) ==
  /\ At(t, "pointer")
  /\ Respond(t)
  /\ TableUnchanged
  /\ BrowserUnchanged

(* recomputeActiveAfterDelete: only a pointer to a removed id is replaced, *)
(* by the first of the survivors or by null.                               *)
CheckPointer(t) ==
  /\ At(t, "pointer")
  /\ \/ activeId \in req[t].ids /\ AfterStore(t, Goto(t, "survivors"))
     \/ activeId \notin req[t].ids /\ Respond(t)
  /\ TableUnchanged
  /\ BrowserUnchanged

ListSurvivors(t) ==
  /\ At(t, "survivors")
  /\ \E next \in (IF Live = {} THEN {None} ELSE MostRecent) :
       AfterStore(t, [Goto(t, "write") EXCEPT !.id = next])
  /\ TableUnchanged
  /\ BrowserUnchanged

WritePointer(t) ==
  /\ At(t, "write")
  /\ SetActiveId(req[t].id)
  /\ Respond(t)
  /\ UNCHANGED rows
  /\ BrowserUnchanged

-----------------------------------------------------------------------------
(***************************************************************************)
(* PUT /conversations/active, PATCH .../reasoning (and .../model, which    *)
(* has the same two steps), PATCH /:id and POST .../retitle                *)
(***************************************************************************)
LoadForActive(t) ==
  /\ "activate" \in scene.operations
  /\ Starts(t)
  /\ \E id \in Live : AfterStore(t, [Idle EXCEPT !.at = "activate", !.id = id])
  /\ TableUnchanged
  /\ BrowserUnchanged

SetActive(t) ==
  /\ At(t, "activate")
  /\ SetActiveId(req[t].id)
  /\ Respond(t)
  /\ UNCHANGED rows
  /\ BrowserUnchanged

(* Mutant: the handler awaits something else between its two store calls. *)
CreateForOverrideYielding(t) ==
  /\ "override" \in scene.operations
  /\ Starts(t)
  /\ \E id \in Ids, effort \in Efforts \cup {None} :
       /\ SaveTurn(id, <<>>, None)
       /\ AfterYield(t, [Idle EXCEPT !.at = "override", !.id = id, !.effort = effort])
  /\ UNCHANGED activeId
  /\ BrowserUnchanged

CreateForOverride(t) ==
  /\ "override" \in scene.operations
  /\ Starts(t)
  /\ \E id \in Ids, effort \in Efforts \cup {None} :
       /\ SaveTurn(id, <<>>, None)
       /\ AfterStore(t, [Idle EXCEPT !.at = "override", !.id = id, !.effort = effort])
  /\ UNCHANGED activeId
  /\ BrowserUnchanged

SetOverride(t) ==
  /\ At(t, "override")
  /\ SetReasoningOverride(req[t].id, req[t].effort)
  /\ Respond(t)
  /\ UNCHANGED activeId
  /\ BrowserUnchanged

LoadForTitle(t) ==
  /\ "title" \in scene.operations
  /\ Starts(t)
  /\ \E id \in Live :
       \/ AfterStore(t, [Idle EXCEPT !.at = "rename", !.id = id])
       \/ AfterYield(t, [Idle EXCEPT !.at = "title", !.id = id])
  /\ TableUnchanged
  /\ BrowserUnchanged

(* The rename carries the user's title, the retitle the model's. *)
SetTitle(t) ==
  /\ At(t, "rename") \/ At(t, "title")
  /\ \E title \in UserTitles : Rename(req[t].id, title)
  /\ Respond(t)
  /\ UNCHANGED activeId
  /\ BrowserUnchanged

FailTitle(t) ==
  /\ At(t, "title")
  /\ Respond(t)
  /\ TableUnchanged
  /\ BrowserUnchanged

(* PUT .../pin and POST .../branch are a single store call each. *)
Pin(t) ==
  /\ "pin" \in scene.operations
  /\ Starts(t)
  /\ \E id \in Ids, pinned \in BOOLEAN : SetPinned(id, pinned)
  /\ UNCHANGED <<activeId, req, running>>
  /\ BrowserUnchanged

BranchConversation(t) ==
  /\ "branch" \in scene.operations
  /\ Starts(t)
  /\ view[t].id # None
  /\ \E newId \in Ids, through \in {None} \cup (0 .. Len(view[t].messages)) :
       Branch(view[t].id, newId, through, view[t].revision)
  /\ UNCHANGED <<activeId, req, running>>
  /\ BrowserUnchanged

-----------------------------------------------------------------------------
(***************************************************************************)
(* Faults: any awaited store call may throw (a locked database, a full     *)
(* disk), which ends its handler: onFinish and markActive log it and stop, *)
(* the routes answer 500; only the heal of a read contains it.  The        *)
(* process may die at any instant and lose every handler, never the        *)
(* database or the tabs.                                                   *)
(***************************************************************************)
StoreThrows(t) ==
  /\ adverse
  /\ req[t].at \notin {"idle", "title", "validate"}
  /\ CanRun(t)
  /\ Respond(t)
  /\ TableUnchanged
  /\ BrowserUnchanged

Crash ==
  /\ adverse
  /\ \E t \in Tabs : req[t] # Idle
  /\ req' = [t \in Tabs |-> Idle]
  /\ running' = None
  /\ TableUnchanged
  /\ BrowserUnchanged

-----------------------------------------------------------------------------
Init ==
  /\ scene \in Scenes
  /\ rows \in [Ids -> {None} \cup scene.legacy]
  /\ activeId = None
  /\ clock = 0
  /\ req = [t \in Tabs |-> Idle]
  /\ running = None
  /\ view = [t \in Tabs |-> NoView]
  /\ entry = [t \in Tabs |-> None]
  /\ turns = 0
  /\ born = [id \in Ids |-> 0]

ChatStep(t) ==
  \/ SendTurn(t) \/ RejectStale(t) \/ PassPreflight(t) \/ FailResolve(t)
  \/ StartStream(t) \/ FinishTurn(t) \/ MarkActive(t)

ReadStep(t) == ListRows(t) \/ RespondList(t) \/ LoadDetail(t) \/ RespondDetail(t)

WriteStep(t) ==
  \/ DeleteConversations(t) \/ CheckPointer(t) \/ ListSurvivors(t) \/ WritePointer(t)
  \/ LoadForActive(t) \/ SetActive(t)
  \/ CreateForOverride(t) \/ SetOverride(t)
  \/ LoadForTitle(t) \/ SetTitle(t) \/ FailTitle(t)
  \/ Pin(t) \/ BranchConversation(t)

(* History: count the rows created under each id. *)
CountBirths ==
  born' = [id \in Ids |-> IF ~Exists(id) /\ rows'[id] # None THEN born[id] + 1 ELSE born[id]]

Next ==
  /\ \/ \E t \in Tabs : ChatStep(t) \/ ReadStep(t) \/ WriteStep(t) \/ StoreThrows(t)
     \/ Crash
  /\ CountBirths
  /\ UNCHANGED <<clock, scene>>

Spec == Init /\ [][Next]_vars

-----------------------------------------------------------------------------
(***************************************************************************)
(* The table and the chat turns as SharedRows has them: the transcript     *)
(* without its blank ids, which reads fill in under the turns; and nothing *)
(* of it in adverse executions, where they may put back an older one.      *)
(***************************************************************************)
LogOf(msgs) == IF adverse THEN <<>> ELSE WithIds(msgs)

AbsentRow == [revision |-> None, log |-> <<>>]

SharedTable ==
  [id \in Ids |-> IF Exists(id) THEN [revision |-> rows[id].revision, log |-> LogOf(rows[id].messages)] ELSE AbsentRow]

MayStore(r) ==
  {LogOf(msgs) : msgs \in {TurnMessages(r.messages, r.turn, status, content) :
                             status \in {"complete", "aborted", "error"}, content \in BOOLEAN} \ {None}}

Pending(r, at) == [at |-> at, id |-> r.id, base |-> r.base, stores |-> MayStore(r)]

PendingTurns ==
  [t \in Tabs |-> CASE req[t].at = "preflight"             -> Pending(req[t], "posted")
                    [] req[t].at \in {"resolve", "stream"} -> Pending(req[t], "accepted")
                    [] OTHER                               -> [at |-> "none"]]

Shared == INSTANCE SharedRows WITH Rows <- Ids, Senders <- Tabs, Absent <- AbsentRow, NoBase <- None,
                                   shared <- SharedTable, pending <- PendingTurns

-----------------------------------------------------------------------------
(***************************************************************************)
(* Properties                                                              *)
(***************************************************************************)
TypeOK ==
  /\ rows \in [Ids -> Row \cup {None}]
  /\ activeId \in Ids \cup {None}
  /\ clock = 0
  /\ scene \in Scenes
  /\ req \in [Tabs -> Request]
  /\ running \in Tabs \cup {None}
  /\ view \in [Tabs -> View]
  /\ entry \in [Tabs -> Ids \cup {None}]
  /\ turns \in 0 .. scene.turns
  /\ born \in [Ids -> Nat]

(* A view is current when the row it was read from is still there under    *)
(* the revision it was served with.                                        *)
Current(v) ==
  /\ v.id # None
  /\ Exists(v.id)
  /\ rows[v.id].revision = v.revision
  /\ born[v.id] = v.born

(* The revision identifies the transcript: a tab whose revision is still   *)
(* the stored one shows the stored transcript, whatever heals, renames,    *)
(* overrides and other tabs' turns happened since it loaded the detail     *)
(* (revision bumps only in saveTurn; healing keeps the turns).  A          *)
(* transcript the server cannot parse is served empty and is excepted; in  *)
(* an adverse execution a heal may write back an outdated transcript.      *)
TokenPinsTranscript ==
  ~adverse => \A t \in Tabs :
    Current(view[t]) /\ Parseable(rows[view[t].id].messages) =>
      WithIds(rows[view[t].id].messages) = view[t].messages

(* Optimistic concurrency does its work across preflight, model            *)
(* resolution, the stream and the save: when a turn that carried a base    *)
(* replaces a row of the incarnation its tab had loaded, the transcript it *)
(* replaces is the one the tab was looking at, so no other tab's turn is   *)
(* overwritten unseen.                                                     *)
AcceptedTurnSawStored ==
  [][\A t \in Tabs :
       LET r == req[t] IN
         /\ ~adverse
         /\ r.at = "stream" /\ req'[t].at = "mark"
         /\ rows' # rows
         /\ r.base # None /\ Exists(r.id) /\ born[r.id] = r.seen.born
         /\ Parseable(rows[r.id].messages)
         => WithIds(rows[r.id].messages) = r.seen.messages]_vars

(* What chatTransport.ts says of a send that carries a base revision: a    *)
(* stale one is rejected rather than silently overwriting a newer turn.    *)
(* So the transcript its save replaces is the one its tab was looking at,  *)
(* whatever became of the row in between.                                  *)
NoSilentOverwrite ==
  [][\A t \in Tabs :
       LET r == req[t] IN
         /\ r.at = "stream" /\ req'[t].at = "mark"
         /\ rows' # rows /\ r.base # None /\ Exists(r.id)
         => WithIds(rows[r.id].messages) = r.seen.messages]_vars

(* Nothing replaces a transcript but a turn whose base, if it has one, is  *)
(* the revision of the row both when it is let in and when it is stored:   *)
(* none of the other handlers, reads that heal, failing calls or crashes   *)
(* (resolveChatPersistenceTarget, saveTurn).                               *)
ServesSharedRows == Shared!Spec

(* With no handler running and no failure, the last-active pointer names a *)
(* conversation that exists: a finished turn marks only a stored row, a    *)
(* delete repairs the pointer it invalidates, and no other handler slips   *)
(* between the two halves (chat-persistence-target.ts,                     *)
(* recomputeActiveAfterDelete).                                            *)
NoDanglingPointer ==
  ~adverse /\ running = None /\ activeId # None => Exists(activeId)

(* The active id a list response names is one of the conversations of that *)
(* very response, or null with an empty list, even when the pointer        *)
(* dangles after a crash or moves between the two reads                    *)
(* (conversations-read.ts, resolveActiveId).                               *)
ServedActiveIsListed ==
  [][\A t \in Tabs :
       req[t].at = "listed" /\ entry' # entry /\ req'[t] = Idle =>
         IF req[t].ids = {} THEN entry'[t] = None ELSE entry'[t] \in req[t].ids]_vars

(* A 204 from the override routes means the override is stored: the row    *)
(* made or found by the first step is still there for the second           *)
(* (conversations-write.ts, "race-free without a separate check-then-act   *)
(* load"), unless a store call threw.                                      *)
OverrideTakesEffect ==
  [][\A t \in Tabs :
       LET r == req[t] IN
         ~adverse /\ r.at = "override" /\ req'[t] = Idle =>
           rows'[r.id] # None /\ rows'[r.id].reasoning = r.effort]_vars

-----------------------------------------------------------------------------
(***************************************************************************)
(* Why they hold: what is true between any two steps                       *)
(***************************************************************************)
(* Every handler but the list and the deletes is about one conversation;   *)
(* a list response names a row it lists.                                   *)
SaneHandler(r) ==
  /\ r.at \in {"preflight", "resolve", "stream", "mark", "validate",
               "activate", "override", "rename", "title"} => r.id \in Ids
  /\ r.at = "listed" => IF r.ids = {} THEN r.id = None ELSE r.id \in r.ids

(* The handlers that hold the loop while they await a store call.          *)
InLoop == {"mark", "validate", "pointer", "survivors", "write", "activate", "override", "rename", "listed"}

LoopHeld == \A t \in Tabs : req[t].at \in InLoop <=> running = t

(* What a handler has made sure of with its first store call and relies on *)
(* at its second.                                                          *)
Knows(r) ==
  /\ r.at \in {"mark", "activate", "override", "rename"} => r.id \in Live
  /\ r.at = "write" => r.id \in Live \cup {None}
  /\ r.at = "validate" => /\ r.id \in Live /\ born[r.id] = r.seen.born
                         /\ rows[r.id].messages = r.messages /\ rows[r.id].revision = r.revision

(* The pointer is good, or the delete that broke it has yet to repair it.  *)
PointerKept ==
  \/ activeId \in Live \cup {None}
  \/ \E t \in Tabs : \/ req[t].at = "pointer" /\ activeId \in req[t].ids
                    \/ req[t].at \in {"survivors", "write"}

(* What a view shows of its conversation is outlived by another life of    *)
(* the row, or superseded, or still what is stored.                        *)
PinnedTo(v, row, births) ==
  /\ v.born <= births
  /\ v.born = births /\ row # None =>
       /\ v.revision <= row.revision
       /\ v.revision = row.revision /\ Parseable(row.messages) => WithIds(row.messages) = v.messages

Pinned(v) == v.id # None => PinnedTo(v, rows[v.id], born[v.id])

(* A turn carries the base of the view it was built from.                  *)
Based(r) ==
  r.at \in {"preflight", "resolve", "stream"} /\ r.base # None =>
    r.seen.id = r.id /\ r.base = r.seen.revision

LoopInv ==
  /\ LoopHeld /\ PointerKept
  /\ \A t \in Tabs : Knows(req[t]) /\ Based(req[t]) /\ Pinned(view[t]) /\ Pinned(req[t].seen)

(* In executions without faults, the loop is what the handlers rely on.    *)
HandlerInv == (\A t \in Tabs : SaneHandler(req[t])) /\ (~adverse => LoopInv)
=============================================================================
