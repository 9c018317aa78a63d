--------------------------- MODULE ChatServer_proofs ---------------------------
(***************************************************************************)
(* Proofs about ChatServer, for any tabs, conversations, scenes, legacy    *)
(* rows and any number of turns: the handlers keep the types of the server *)
(* and of the tabs, use the store only as its port allows, and, unless     *)
(* store calls fail or yield, never leave a dangling pointer, lose an      *)
(* acknowledged override, or let a turn replace a transcript unseen.       *)
(***************************************************************************)
EXTENDS ChatServer, ConversationStore_proofs

Handlers == {r \in Request : SaneHandler(r)}

HandlerTypes ==
  /\ req \in [Tabs -> Handlers]
  /\ running \in Tabs \cup {None}
  /\ view \in [Tabs -> View]
  /\ entry \in [Tabs -> Ids \cup {None}]
  /\ turns \in 0 .. scene.turns

ServerTypes == TypeOK /\ RowsAreDated /\ \A t \in Tabs : SaneHandler(req[t])

LEMMA ServerTypesGive ==
  ASSUME ServerTypes
  PROVE  IInv /\ HandlerTypes /\ scene \in Scene /\ born \in [Ids -> Nat] /\ clock = 0
  BY StoreAssumption, ServerAssumption
  DEF ServerTypes, TypeOK, IInv, StoreTypeOK, HandlerTypes, Handlers

-----------------------------------------------------------------------------
(* Transcripts. *)
LEMMA SaidType ==
  ASSUME NEW turn \in Nat, NEW role \in {"user", "assistant"},
         NEW mark \in {"complete", "aborted", "error"}
  PROVE  Said(turn, role, mark) \in Message
<1>1. FALSE \in BOOLEAN /\ TRUE \in BOOLEAN
  OBVIOUS
<1> QED
  BY <1>1 DEF Said, Message

(* Filling the blank ids of a list is idempotent and leaves everything else. *)
LEMMA WithIdsProperties ==
  ASSUME NEW msgs \in Seq(Message)
  PROVE  /\ WithIds(msgs) \in Seq(Message)
         /\ WithIds(WithIds(msgs)) = WithIds(msgs)
         /\ Parseable(msgs) => Parseable(WithIds(msgs))
         /\ Parseable(WithIds(msgs)) => Parseable(msgs)
<1> DEFINE filled(m) == [m EXCEPT !.blank = FALSE]
<1>0. DOMAIN msgs = 1 .. Len(msgs) /\ Len(msgs) \in Nat
  BY LenProperties
<1>1. \A m \in Message : filled(m) \in Message /\ filled(filled(m)) = filled(m) /\ filled(m).sound = m.sound
  <2> TAKE m \in Message
  <2>1. FALSE \in BOOLEAN
    OBVIOUS
  <2> QED
    BY <2>1 DEF Message
<1>2. \A i \in 1 .. Len(msgs) : msgs[i] \in Message
  BY ElementOfSeq
<1>3. WithIds(msgs) = [i \in 1 .. Len(msgs) |-> filled(msgs[i])]
  BY <1>0 DEF WithIds
<1> HIDE DEF filled
<1>4. WithIds(msgs) \in [1 .. Len(msgs) -> Message]
  BY <1>1, <1>2, <1>3
<1>5. WithIds(msgs) \in Seq(Message)
  BY <1>0, <1>4, SeqDef
<1>6. DOMAIN WithIds(msgs) = 1 .. Len(msgs)
  BY <1>3
<1>7. WithIds(WithIds(msgs)) = [i \in 1 .. Len(msgs) |-> filled(WithIds(msgs)[i])]
  BY <1>6 DEF WithIds, filled
<1>8. \A i \in 1 .. Len(msgs) : filled(WithIds(msgs)[i]) = WithIds(msgs)[i]
  BY <1>1, <1>2, <1>3
<1>9. WithIds(WithIds(msgs)) = WithIds(msgs)
  BY <1>3, <1>7, <1>8
<1>10. \A i \in 1 .. Len(msgs) : WithIds(msgs)[i].sound = msgs[i].sound
  BY <1>1, <1>2, <1>3
<1> QED
  BY <1>0, <1>5, <1>6, <1>9, <1>10 DEF Parseable

LEMMA TurnMessagesType ==
  ASSUME NEW incoming \in Seq(Message), NEW turn \in Nat,
         NEW status \in {"complete", "aborted", "error"}, NEW content \in BOOLEAN
  PROVE  TurnMessages(incoming, turn, status, content) \in Seq(Message) \cup {None}
<1>1. WithIds(incoming) \in Seq(Message)
  BY WithIdsProperties
<1>2. Said(turn, "assistant", "complete") \in Message /\ Said(turn, "assistant", status) \in Message
  BY SaidType
<1>3. /\ Append(WithIds(incoming), Said(turn, "assistant", "complete")) \in Seq(Message)
      /\ Append(WithIds(incoming), Said(turn, "assistant", status)) \in Seq(Message)
  BY <1>1, <1>2, AppendProperties
<1> QED
  BY <1>1, <1>3 DEF TurnMessages

LEMMA SendableType ==
  ASSUME NEW shown \in Seq(Message), NEW turn \in Nat, NEW msgs \in Sendable(shown, turn)
  PROVE  msgs \in Seq(Message)
<1>1. \A keep \in 0 .. Len(shown) : SubSeq(shown, 1, keep) \in Seq(Message)
  <2> TAKE keep \in 0 .. Len(shown)
  <2>1. keep \in Int /\ \A i \in 1 .. keep : shown[i] \in Message
    BY LenProperties, ElementOfSeq
  <2> QED
    BY <2>1, SubSeqProperties
<1>2. UserSays(turn) \in Message
  BY SaidType DEF UserSays
<1>3. \A keep \in 0 .. Len(shown) : Append(SubSeq(shown, 1, keep), UserSays(turn)) \in Seq(Message)
  BY <1>1, <1>2, AppendProperties
<1> QED
  BY <1>1, <1>3 DEF Sendable

-----------------------------------------------------------------------------
(* A handler's state after a step. *)
LEMMA IdleType == Idle \in Handlers /\ NoView \in View /\ Idle.at = "idle" /\ Idle.seen = NoView
<1>1. <<>> \in Seq(Message)
  BY EmptySeq
<1>2. NoView \in View
  BY <1>1 DEF NoView, View
<1> QED
  BY <1>1, <1>2 DEF Idle, Request, Handlers, SaneHandler

LEMMA Moves ==
  ASSUME ServerTypes, NEW t \in Tabs, NEW r \in Handlers, AfterStore(t, r) \/ AfterYield(t, r)
  PROVE  /\ req' \in [Tabs -> Handlers] /\ running' \in Tabs \cup {None}
         /\ req'[t] = r /\ \A u \in Tabs \ {t} : req'[u] = req[u]
<1>1. req \in [Tabs -> Handlers] /\ running \in Tabs \cup {None}
  BY ServerTypesGive DEF HandlerTypes
<1> QED
  BY <1>1 DEF AfterStore, AfterYield

LEMMA GotoType ==
  ASSUME ServerTypes, NEW t \in Tabs,
         NEW pc \in {"resolve", "stream", "mark", "survivors", "write"},
         pc \in {"resolve", "stream", "mark"} => req[t].at \in {"preflight", "resolve", "stream"}
  PROVE  Goto(t, pc) \in Handlers
<1>1. req[t] \in Request /\ SaneHandler(req[t])
  BY DEF ServerTypes, TypeOK
<1> QED
  BY <1>1 DEF Goto, Request, Handlers, SaneHandler

(* What every step has to keep beside the store. *)
HandlersKept == HandlerTypes' /\ StepOK

LEMMA BrowserKept ==
  ASSUME ServerTypes, BrowserUnchanged, scene' = scene
  PROVE  view' \in [Tabs -> View] /\ entry' \in [Tabs -> Ids \cup {None}] /\ turns' \in 0 .. scene'.turns
  BY DEF ServerTypes, TypeOK, BrowserUnchanged

LEMMA TableKept ==
  ASSUME ServerTypes, TableUnchanged, clock' = clock
  PROVE  StepOK
<1>1. IInv /\ activeId' \in Ids \cup {None} /\ UNCHANGED <<rows, clock>>
  BY ServerTypesGive DEF TableUnchanged, IInv, StoreTypeOK
<1> QED
  BY <1>1, PointerStep

(* A handler's step on the table, and one that only moves on. *)
LEMMA StoreMove ==
  ASSUME ServerTypes, NEW t \in Tabs, NEW r \in Handlers, AfterStore(t, r) \/ AfterYield(t, r),
         BrowserUnchanged, StepOK, scene' = scene
  PROVE  HandlersKept
  BY Moves, BrowserKept DEF HandlersKept, HandlerTypes

LEMMA QuietMove ==
  ASSUME ServerTypes, NEW t \in Tabs, NEW r \in Handlers, AfterStore(t, r) \/ AfterYield(t, r),
         BrowserUnchanged, TableUnchanged, UNCHANGED <<clock, scene>>
  PROVE  HandlersKept
  BY TableKept, StoreMove

LEMMA PointerMove ==
  ASSUME ServerTypes, NEW t \in Tabs, SetActiveId(req[t].id), Respond(t),
         BrowserUnchanged, UNCHANGED <<rows, clock, scene>>
  PROVE  HandlersKept
<1>1. IInv /\ activeId' \in Ids \cup {None}
  BY ServerTypesGive DEF SetActiveId, HandlerTypes, Handlers, Request
<1>2. StepOK
  BY <1>1, PointerStep
<1> QED
  BY <1>2, IdleType, StoreMove DEF Respond

LEMMA ChatTypes ==
  ASSUME ServerTypes, NEW t \in Tabs, ChatStep(t), UNCHANGED <<clock, scene>>
  PROVE  HandlersKept
<1>0. /\ IInv /\ req[t] \in Handlers /\ Idle \in Handlers
      /\ view[t] \in View /\ turns \in Nat /\ scene.turns \in Nat
  BY ServerTypesGive, IdleType DEF HandlerTypes, Scene
<1>1. CASE SendTurn(t)
  <2>1. turns' = turns + 1 /\ turns' \in Nat /\ turns' \in 0 .. scene'.turns
    BY <1>0, <1>1 DEF SendTurn
  <2>2. PICK id \in Ids :
          LET seen == IF view[t].id = id THEN view[t] ELSE NoView
          IN  \E msgs \in Sendable(seen.messages, turns') :
                AfterYield(t, [Idle EXCEPT
                  !.at       = "preflight",
                  !.id       = id,
                  !.base     = IF seen = NoView THEN None ELSE seen.revision,
                  !.messages = msgs,
                  !.turn     = turns',
                  !.seen     = seen])
    BY <1>1 DEF SendTurn
  <2> DEFINE seen == IF view[t].id = id THEN view[t] ELSE NoView
             base == IF seen = NoView THEN None ELSE seen.revision
             sent(msgs) == [Idle EXCEPT !.at = "preflight", !.id = id, !.base = base,
                                        !.messages = msgs, !.turn = turns', !.seen = seen]
  <2>3. seen \in View /\ base \in Nat \cup {None} /\ seen.messages \in Seq(Message)
    BY <1>0, IdleType DEF View
  <2>4. PICK msgs \in Sendable(seen.messages, turns') : AfterYield(t, sent(msgs))
    BY <2>2
  <2>5. msgs \in Seq(Message)
    BY <2>1, <2>3, <2>4, SendableType
  <2> HIDE DEF seen, base
  <2>6. sent(msgs) \in Handlers
    BY <1>0, <2>1, <2>3, <2>5 DEF Handlers, SaneHandler, Request
  <2>7. req' \in [Tabs -> Handlers] /\ running' \in Tabs \cup {None}
    BY <2>4, <2>6, Moves
  <2>8. view' = view /\ entry' = entry /\ TableUnchanged
    BY <1>1 DEF SendTurn
  <2> QED
    BY <2>1, <2>7, <2>8, TableKept, ServerTypesGive DEF HandlersKept, HandlerTypes
<1>2. CASE RejectStale(t)
  BY <1>0, <1>2, QuietMove DEF RejectStale, Respond
<1>3. CASE PassPreflight(t)
  BY <1>3, GotoType, QuietMove DEF PassPreflight, At
<1>4. CASE FailResolve(t)
  BY <1>0, <1>4, QuietMove DEF FailResolve, Respond
<1>5. CASE StartStream(t)
  BY <1>5, GotoType, QuietMove DEF StartStream, At
<1>6. CASE FinishTurn(t)
  <2>1. PICK status \in {"complete", "aborted", "error"}, content \in BOOLEAN :
          LET msgs == TurnMessages(req[t].messages, req[t].turn, status, content)
          IN  \/ /\ msgs = None
                 /\ Respond(t)
                 /\ UNCHANGED rows
              \/ /\ msgs # None
                 /\ SaveTurn(req[t].id, msgs, req[t].base)
                 /\ AfterStore(t, Goto(t, "mark"))
    BY <1>6 DEF FinishTurn
  <2> DEFINE msgs == TurnMessages(req[t].messages, req[t].turn, status, content)
  <2>2. activeId' = activeId /\ BrowserUnchanged
    BY <1>6 DEF FinishTurn
  <2>3. CASE msgs = None
    <3>1. Respond(t) /\ UNCHANGED rows
      BY <2>1, <2>3
    <3> QED
      BY <1>0, <2>2, <3>1, QuietMove DEF Respond, TableUnchanged
  <2>4. CASE msgs # None
    <3>1. SaveTurn(req[t].id, msgs, req[t].base) /\ AfterStore(t, Goto(t, "mark"))
      BY <2>1, <2>4
    <3>2. req[t].at = "stream" /\ req[t].messages \in Seq(Message) /\ req[t].turn \in Nat /\ req[t].id \in Ids
      BY <1>0, <1>6 DEF FinishTurn, At, Handlers, SaneHandler, Request
    <3>3. msgs \in Seq(Message)
      BY <2>4, <3>2, TurnMessagesType
    <3> HIDE DEF msgs
    <3>4. StepOK
      BY <1>0, <2>2, <3>1, <3>2, <3>3, SaveTurnStep
    <3> QED
      BY <2>2, <3>1, <3>2, <3>4, GotoType, StoreMove
  <2> QED
    BY <2>3, <2>4
<1>7. CASE MarkActive(t)
  BY <1>7, PointerMove DEF MarkActive
<1> QED
  BY <1>1, <1>2, <1>3, <1>4, <1>5, <1>6, <1>7 DEF ChatStep

LEMMA ReadTypes ==
  ASSUME ServerTypes, NEW t \in Tabs, ReadStep(t), UNCHANGED <<clock, scene>>
  PROVE  HandlersKept
<1>0. /\ IInv /\ req[t] \in Handlers /\ Idle \in Handlers /\ NoView \in View
      /\ \A id \in Live : id \in Ids /\ rows[id].messages \in Seq(Message) /\ rows[id].revision \in Nat
      /\ born \in [Ids -> Nat] /\ Live \subseteq Ids
  BY ServerTypesGive, IdleType DEF HandlerTypes, IInv, StoreTypeOK, Live, Exists, Row
<1>1. CASE ListRows(t)
  <2>1. PICK first \in (IF Live = {} THEN {None} ELSE MostRecent) :
          AfterStore(t, [Idle EXCEPT !.at = "listed", !.ids = Live, !.id = first])
    BY <1>1 DEF ListRows
  <2>2. IF Live = {} THEN first = None ELSE first \in Live
    BY <2>1 DEF MostRecent
  <2>3. [Idle EXCEPT !.at = "listed", !.ids = Live, !.id = first] \in Handlers
    BY <1>0, <2>2 DEF Handlers, SaneHandler, Request
  <2> QED
    BY <1>1, <2>1, <2>3, QuietMove DEF ListRows
<1>2. CASE RespondList(t)
  <2>1. req[t].at = "listed" /\ req[t].id \in Ids \cup {None} /\ req[t].ids \in SUBSET Ids
    BY <1>0, <1>2 DEF RespondList, At, Handlers, Request
  <2>2. entry' \in [Tabs -> Ids \cup {None}]
    BY <1>2, <2>1 DEF RespondList, ResolveActiveId, ServerTypes, TypeOK
  <2>3. view' \in [Tabs -> View] /\ turns' \in 0 .. scene'.turns
    BY <1>2 DEF RespondList, ServerTypes, TypeOK
  <2> QED
    BY <1>0, <1>2, <2>2, <2>3, Moves, TableKept DEF RespondList, Respond, HandlersKept, HandlerTypes
<1>3. CASE LoadDetail(t)
  <2> DEFINE loaded(id) == [Idle EXCEPT !.at       = "validate",
                                        !.id       = id,
                                        !.messages = rows[id].messages,
                                        !.revision = rows[id].revision,
                                        !.seen     = [NoView EXCEPT !.born = born[id]]]
  <2>1. PICK id \in Live : AfterStore(t, loaded(id))
    BY <1>3 DEF LoadDetail
  <2>2. [NoView EXCEPT !.born = born[id]] \in View
    BY <1>0 DEF View
  <2>3. loaded(id) \in Handlers
    BY <1>0, <2>2 DEF Handlers, SaneHandler, Request
  <2> QED
    BY <1>3, <2>1, <2>3, QuietMove DEF LoadDetail
<1>4. CASE RespondDetail(t)
  <2> DEFINE r      == req[t]
             served == IF Parseable(r.messages) THEN WithIds(r.messages) ELSE <<>>
             shown  == [id |-> r.id, revision |-> r.revision, messages |-> served, born |-> r.seen.born]
  <2>1. /\ r.at = "validate" /\ r.id \in Ids /\ r.messages \in Seq(Message) /\ r.revision \in Nat
        /\ r.seen.born \in Nat
    BY <1>0, <1>4 DEF RespondDetail, At, Handlers, SaneHandler, Request, View
  <2>2. served \in Seq(Message)
    BY <2>1, WithIdsProperties, EmptySeq
  <2>3. HealMessages(r.id, served) \/ UNCHANGED rows
    BY <1>4 DEF RespondDetail
  <2>4. view' = [view EXCEPT ![t] = shown] /\ Respond(t) /\ UNCHANGED <<activeId, entry, turns>>
    BY <1>4 DEF RespondDetail
  <2> HIDE DEF served
  <2>5. shown \in View
    BY <2>1, <2>2 DEF View
  <2>6. StepOK
    BY <1>0, <2>1, <2>2, <2>3, <2>4, ColumnUpdateStep, TableKept DEF TableUnchanged
  <2>7. view' \in [Tabs -> View] /\ entry' \in [Tabs -> Ids \cup {None}] /\ turns' \in 0 .. scene'.turns
    <3> HIDE DEF shown
    <3> QED
      BY <2>4, <2>5 DEF ServerTypes, TypeOK
  <2> QED
    BY <1>0, <2>4, <2>6, <2>7, Moves DEF Respond, HandlersKept, HandlerTypes
<1> QED
  BY <1>1, <1>2, <1>3, <1>4 DEF ReadStep

LEMMA WriteTypes ==
  ASSUME ServerTypes, NEW t \in Tabs, WriteStep(t), UNCHANGED <<clock, scene>>
  PROVE  HandlersKept
<1>0. /\ IInv /\ req[t] \in Handlers /\ Idle \in Handlers /\ Live \subseteq Ids
      /\ req \in [Tabs -> Handlers] /\ running \in Tabs \cup {None} /\ view[t] \in View
  BY ServerTypesGive, IdleType DEF HandlerTypes, Live
<1>1. CASE DeleteConversations(t)
  <2>1. PICK ids \in SUBSET Ids : Delete(ids) /\ AfterStore(t, [Idle EXCEPT !.at = "pointer", !.ids = ids])
    BY <1>1 DEF DeleteConversations
  <2>2. [Idle EXCEPT !.at = "pointer", !.ids = ids] \in Handlers
    BY <1>0 DEF Handlers, SaneHandler, Request
  <2> QED
    BY <1>0, <1>1, <2>1, <2>2, DeleteStep, StoreMove DEF DeleteConversations
<1>2. CASE CheckPointer(t)
  BY <1>0, <1>2, GotoType, QuietMove DEF CheckPointer, Respond
<1>3. CASE ListSurvivors(t)
  <2>1. PICK next \in (IF Live = {} THEN {None} ELSE MostRecent) :
          AfterStore(t, [Goto(t, "write") EXCEPT !.id = next])
    BY <1>3 DEF ListSurvivors
  <2>2. next \in Ids \cup {None} /\ Goto(t, "write") \in Handlers /\ Goto(t, "write").at = "write"
    BY <1>0, <2>1, GotoType DEF MostRecent, Goto, Handlers, Request
  <2>3. [Goto(t, "write") EXCEPT !.id = next] \in Handlers
    BY <2>2 DEF Handlers, SaneHandler, Request
  <2> QED
    BY <1>3, <2>1, <2>3, QuietMove DEF ListSurvivors
<1>4. CASE WritePointer(t)
  BY <1>4, PointerMove DEF WritePointer
<1>5. CASE LoadForActive(t)
  <2>1. PICK id \in Live : AfterStore(t, [Idle EXCEPT !.at = "activate", !.id = id])
    BY <1>5 DEF LoadForActive
  <2>2. [Idle EXCEPT !.at = "activate", !.id = id] \in Handlers
    BY <1>0 DEF Handlers, SaneHandler, Request
  <2> QED
    BY <1>5, <2>1, <2>2, QuietMove DEF LoadForActive
<1>6. CASE SetActive(t)
  BY <1>6, PointerMove DEF SetActive
<1>7. CASE CreateForOverride(t)
  <2>1. PICK id \in Ids, effort \in Efforts \cup {None} :
          /\ SaveTurn(id, <<>>, None)
          /\ AfterStore(t, [Idle EXCEPT !.at = "override", !.id = id, !.effort = effort])
    BY <1>7 DEF CreateForOverride
  <2>2. [Idle EXCEPT !.at = "override", !.id = id, !.effort = effort] \in Handlers
    BY <1>0 DEF Handlers, SaneHandler, Request
  <2>3. <<>> \in Seq(Message) /\ UNCHANGED <<activeId, clock>>
    BY <1>7, EmptySeq DEF CreateForOverride
  <2>4. StepOK
    BY <1>0, <2>1, <2>3, SaveTurnStep
  <2> QED
    BY <1>7, <2>1, <2>2, <2>4, StoreMove DEF CreateForOverride
<1>8. CASE SetOverride(t)
  <2>1. req[t].id \in Ids /\ req[t].effort \in Efforts \cup {None}
    BY <1>0, <1>8 DEF SetOverride, At, Handlers, SaneHandler, Request
  <2>2. StepOK
    BY <1>0, <1>8, <2>1, ColumnUpdateStep DEF SetOverride
  <2> QED
    BY <1>0, <1>8, <2>2, StoreMove DEF SetOverride, Respond
<1>9. CASE LoadForTitle(t)
  <2>1. PICK id \in Live :
          \/ AfterStore(t, [Idle EXCEPT !.at = "rename", !.id = id])
          \/ AfterYield(t, [Idle EXCEPT !.at = "title", !.id = id])
    BY <1>9 DEF LoadForTitle
  <2>2. /\ [Idle EXCEPT !.at = "rename", !.id = id] \in Handlers
        /\ [Idle EXCEPT !.at = "title", !.id = id] \in Handlers
    BY <1>0 DEF Handlers, SaneHandler, Request
  <2> QED
    BY <1>9, <2>1, <2>2, QuietMove DEF LoadForTitle
<1>10. CASE SetTitle(t)
  <2>1. req[t].id \in Ids
    BY <1>0, <1>10 DEF SetTitle, At, Handlers, SaneHandler, Request
  <2>2. StepOK
    BY <1>0, <1>10, <2>1, ColumnUpdateStep DEF SetTitle
  <2> QED
    BY <1>0, <1>10, <2>2, StoreMove DEF SetTitle, Respond
<1>11. CASE FailTitle(t)
  BY <1>0, <1>11, QuietMove DEF FailTitle, Respond
<1>12. CASE Pin(t)
  <2>1. StepOK
    BY <1>0, <1>12, ColumnUpdateStep DEF Pin
  <2> QED
    BY <1>0, <1>12, <2>1, BrowserKept DEF Pin, HandlersKept, HandlerTypes
<1>13. CASE BranchConversation(t)
  <2>1. PICK newId \in Ids, through \in {None} \cup (0 .. Len(view[t].messages)) :
          Branch(view[t].id, newId, through, view[t].revision)
    BY <1>13 DEF BranchConversation
  <2>2. view[t].id \in Ids /\ through \in {None} \cup Nat /\ UNCHANGED <<activeId, clock>>
    BY <1>0, <1>13, <2>1 DEF BranchConversation, View
  <2>3. StepOK
    BY <1>0, <2>1, <2>2, BranchStep
  <2> QED
    BY <1>0, <1>13, <2>3, BrowserKept DEF BranchConversation, HandlersKept, HandlerTypes
<1> QED
  BY <1>1, <1>2, <1>3, <1>4, <1>5, <1>6, <1>7, <1>8, <1>9, <1>10, <1>11, <1>12, <1>13 DEF WriteStep

(* A throwing store call ends its handler, a crash ends all of them. *)
LEMMA FaultTypes ==
  ASSUME ServerTypes, (\E t \in Tabs : StoreThrows(t)) \/ Crash, UNCHANGED <<clock, scene>>
  PROVE  HandlersKept
<1>1. ASSUME NEW t \in Tabs, StoreThrows(t) PROVE HandlersKept
  BY <1>1, IdleType, QuietMove DEF StoreThrows, Respond
<1>2. CASE Crash
  <2>1. req' \in [Tabs -> Handlers] /\ running' \in Tabs \cup {None}
    BY <1>2, IdleType DEF Crash
  <2> QED
    BY <1>2, <2>1, BrowserKept, TableKept DEF Crash, HandlersKept, HandlerTypes
<1> QED
  BY <1>1, <1>2

LEMMA ServerStep == ServerTypes /\ [Next]_vars => ServerTypes' /\ (Contract!Next \/ UNCHANGED rows)
<1> SUFFICES ASSUME ServerTypes, [Next]_vars PROVE ServerTypes' /\ (Contract!Next \/ UNCHANGED rows)
  OBVIOUS
<1>1. CASE Next
  <2>1. UNCHANGED <<clock, scene>> /\ CountBirths
    BY <1>1 DEF Next
  <2>2. HandlersKept
    <3>1. CASE Crash
      BY <2>1, <3>1, FaultTypes
    <3>2. CASE \E t \in Tabs : ChatStep(t) \/ ReadStep(t) \/ WriteStep(t) \/ StoreThrows(t)
      BY <2>1, <3>2, ChatTypes, ReadTypes, WriteTypes, FaultTypes
    <3> QED
      BY <1>1, <3>1, <3>2 DEF Next
  <2>3. born' \in [Ids -> Nat]
    <3>1. born \in [Ids -> Nat]
      BY ServerTypesGive
    <3> QED
      BY <2>1, <3>1 DEF CountBirths
  <2>4. /\ req' \in [Tabs -> Request] /\ \A t \in Tabs : SaneHandler(req'[t])
    BY <2>2 DEF HandlersKept, HandlerTypes, Handlers
  <2>5. clock' = 0 /\ scene' \in Scenes
    BY <2>1 DEF ServerTypes, TypeOK
  <2>6. rows' \in [Ids -> Row \cup {None}] /\ activeId' \in Ids \cup {None} /\ RowsAreDated'
    BY <2>2 DEF HandlersKept, StepOK, StoreTypeOK
  <2>7. TypeOK'
    BY <2>2, <2>3, <2>4, <2>5, <2>6 DEF HandlersKept, HandlerTypes, TypeOK
  <2>8. (\A t \in Tabs : SaneHandler(req[t]))'
    BY <2>4 DEF SaneHandler
  <2> QED
    BY <2>2, <2>6, <2>7, <2>8 DEF HandlersKept, StepOK, ServerTypes
<1>2. CASE UNCHANGED vars
  BY <1>2 DEF vars, ServerTypes, TypeOK, RowsAreDated, Live, Exists, SaneHandler
<1> QED
  BY <1>1, <1>2

LEMMA InitTypes == Init => ServerTypes
<1> SUFFICES ASSUME Init PROVE ServerTypes
  OBVIOUS
<1>1. scene \in Scenes /\ scene \in Scene /\ \A row \in scene.legacy : row.updatedAt = 0
  BY ServerAssumption DEF Init
<1>2. rows \in [Ids -> Row \cup {None}] /\ scene.turns \in Nat
  BY <1>1 DEF Init, Scene
<1>3. Idle \in Request /\ NoView \in View /\ SaneHandler(Idle)
  BY IdleType DEF Handlers
<1>4. RowsAreDated
  <2>1. clock = 0 /\ rows \in [Ids -> {None} \cup scene.legacy]
    BY DEF Init
  <2>2. \A id \in Live : rows[id] \in scene.legacy
    BY <2>1 DEF Live, Exists
  <2>3. \A id \in Live : rows[id].updatedAt = 0
    BY <1>1, <2>2
  <2> QED
    BY <2>1, <2>3 DEF RowsAreDated
<1>5. TypeOK
  BY <1>1, <1>2, <1>3 DEF Init, TypeOK
<1> QED
  BY <1>3, <1>4, <1>5 DEF Init, ServerTypes

LEMMA ServerInvariance == Spec => []ServerTypes
  BY InitTypes, ServerStep, PTL DEF Spec

(* Every handler, with every fault, keeps the types of the table, of its   *)
(* own locals and of what the tabs are answered (routes/).                 *)
THEOREM ChatServerTypes == Spec => []TypeOK
<1>1. ServerTypes => TypeOK
  BY DEF ServerTypes
<1> QED
  BY <1>1, ServerInvariance, PTL

(* The same of the table alone, as the store states it (persistence/).     *)
THEOREM HandlersKeepStoreTypes == Spec => []StoreTypeOK
<1>1. ServerTypes => StoreTypeOK
  BY ServerTypesGive DEF IInv
<1> QED
  BY <1>1, ServerInvariance, PTL

(* Under all the handlers, interleaved in any way, crashing or not, the    *)
(* table does only what the port promises (persistence/ports.ts).          *)
THEOREM HandlersKeepPortContract == Spec => PortContract
<1>1. Init => Contract!Init
  BY DEF Init, Contract!Init
<1>2. ServerTypes /\ [Next]_vars => [Contract!Next]_rows
  BY ServerStep
<1> QED
  BY <1>1, <1>2, ServerInvariance, PTL DEF Spec, PortContract, Contract!Spec

-----------------------------------------------------------------------------
(* Only the answer to a list changes a tab's active id. *)
LEMMA EntryChanges ==
  ASSUME ServerTypes, Next, entry' # entry
  PROVE  \E t \in Tabs : RespondList(t)
  BY DEF Next, ChatStep, ReadStep, WriteStep, BrowserUnchanged, SendTurn, RejectStale, PassPreflight,
    FailResolve, StartStream, FinishTurn, MarkActive, ListRows, LoadDetail, RespondDetail,
    DeleteConversations, CheckPointer, ListSurvivors, WritePointer, LoadForActive, SetActive,
    CreateForOverride, SetOverride, LoadForTitle, SetTitle, FailTitle, Pin, BranchConversation,
    StoreThrows, Crash

(* The active id of a list response is one of its conversations, or null,  *)
(* in every execution (conversations-read.ts, resolveActiveId).            *)
THEOREM ListNamesItsOwn == Spec => ServedActiveIsListed
<1> DEFINE Served ==
      \A t \in Tabs :
        req[t].at = "listed" /\ entry' # entry /\ req'[t] = Idle =>
          IF req[t].ids = {} THEN entry'[t] = None ELSE entry'[t] \in req[t].ids
<1>1. ServerTypes /\ [Next]_vars => [Served]_vars
  <2> SUFFICES ASSUME ServerTypes, Next, NEW t \in Tabs,
                      req[t].at = "listed", entry' # entry, req'[t] = Idle
               PROVE  IF req[t].ids = {} THEN entry'[t] = None ELSE entry'[t] \in req[t].ids
    OBVIOUS
  <2>1. PICK u \in Tabs : RespondList(u)
    BY EntryChanges
  <2>2. u = t
    <3>1. req' = [req EXCEPT ![u] = Idle] /\ Idle.at = "idle"
      BY <2>1, IdleType DEF RespondList, Respond, AfterYield
    <3> QED
      BY <3>1 DEF ServerTypes, TypeOK
  <2>3. /\ entry'[t] = ResolveActiveId(activeId, req[t].ids, req[t].id)
        /\ IF req[t].ids = {} THEN req[t].id = None ELSE req[t].id \in req[t].ids
    BY <2>1, <2>2 DEF RespondList, ServerTypes, TypeOK, SaneHandler
  <2> QED
    BY <2>3 DEF ResolveActiveId
<1> QED
  BY <1>1, ServerInvariance, PTL DEF Spec, ServedActiveIsListed

-----------------------------------------------------------------------------
(***************************************************************************)
(* Executions without faults.  A handler between two store calls holds the *)
(* loop, so what its first call found is still so at its second: LoopInv   *)
(* is preserved by every step.                                             *)
(*                                                                         *)
(* The table first: a row appears or goes, or is replaced under a higher   *)
(* revision, or keeps its revision and its transcript up to blank ids.     *)
(***************************************************************************)
Evolves(old, new) ==
  \/ old = None \/ new = None
  \/ old.revision < new.revision
  \/ /\ old.revision = new.revision
     /\ \/ new.messages = old.messages
        \/ Parseable(old.messages) /\ new.messages = WithIds(old.messages)

TableEvolves == \A id \in Ids : Evolves(rows[id], rows'[id])

LiveKept == Live \subseteq Live'

(* A view stays pinned to a row that evolves. *)
LEMMA EvolvedPin ==
  ASSUME NEW v \in View, NEW old \in Row \cup {None}, NEW new \in Row \cup {None}, NEW births \in Nat,
         PinnedTo(v, old, births), Evolves(old, new)
  PROVE  PinnedTo(v, new, IF old = None /\ new # None THEN births + 1 ELSE births)
<1>1. v.born \in Nat /\ v.born <= births /\ v.revision \in Nat
  BY DEF View, PinnedTo
<1>2. CASE new = None
  BY <1>1, <1>2 DEF PinnedTo
<1>3. CASE old = None /\ new # None
  <2>1. v.born # births + 1 /\ v.born <= births + 1
    BY <1>1
  <2> QED
    BY <1>3, <2>1 DEF PinnedTo
<1>4. CASE old # None /\ new # None
  <2>1. /\ old.revision \in Nat /\ new.revision \in Nat
        /\ old.messages \in Seq(Message) /\ new.messages \in Seq(Message)
    BY <1>4 DEF Row
  <2> SUFFICES ASSUME v.born = births
               PROVE  /\ v.revision <= new.revision
                      /\ v.revision = new.revision /\ Parseable(new.messages) =>
                           WithIds(new.messages) = v.messages
    BY <1>1, <1>4 DEF PinnedTo
  <2>2. /\ v.revision <= old.revision
        /\ v.revision = old.revision /\ Parseable(old.messages) => WithIds(old.messages) = v.messages
    BY <1>4 DEF PinnedTo
  <2>3. CASE old.revision < new.revision
    BY <1>1, <2>1, <2>2, <2>3
  <2>4. CASE old.revision = new.revision /\ new.messages = old.messages
    BY <2>2, <2>4
  <2>5. CASE /\ old.revision = new.revision
             /\ Parseable(old.messages) /\ new.messages = WithIds(old.messages)
    BY <2>1, <2>2, <2>5, WithIdsProperties
  <2> QED
    BY <1>4, <2>3, <2>4, <2>5 DEF Evolves
<1> QED
  BY <1>2, <1>3, <1>4

LEMMA SameTable ==
  ASSUME UNCHANGED rows
  PROVE  TableEvolves /\ LiveKept
  BY DEF TableEvolves, Evolves, LiveKept, Live, Exists

LEMMA SaveTurnEvolves ==
  ASSUME IInv, NEW id \in Ids, NEW msgs \in Seq(Message), NEW base, SaveTurn(id, msgs, base)
  PROVE  TableEvolves /\ LiveKept /\ id \in Live'
<1>1. StoreTypeOK /\ rows \in [Ids -> Row \cup {None}]
  BY DEF IInv, StoreTypeOK
<1>2. CASE SaveOutcome(id, msgs, base) = "created"
  <2>1. rows[id] = None /\ rows' = [rows EXCEPT ![id] = NewRow(msgs)]
    BY <1>2 DEF SaveTurn, SaveOutcome, Exists
  <2>2. NewRow(msgs) # None
    BY <1>1, NewRowType, StoreAssumption
  <2> QED
    BY <1>1, <2>1, <2>2 DEF TableEvolves, Evolves, LiveKept, Live, Exists
<1>3. CASE SaveOutcome(id, msgs, base) = "replaced"
  <2>1. rows[id] \in Row /\ rows' = [rows EXCEPT ![id] = TurnRow(rows[id], msgs)]
    BY <1>1, <1>3 DEF SaveTurn, SaveOutcome, Exists
  <2>2. TurnRow(rows[id], msgs) # None /\ rows[id].revision < TurnRow(rows[id], msgs).revision
    <3>1. TurnRow(rows[id], msgs) \in Row /\ TurnRow(rows[id], msgs).revision = rows[id].revision + 1
      BY <1>1, <2>1, TurnRowType
    <3> QED
      BY <2>1, <3>1, StoreAssumption DEF Row
  <2>3. \A o \in Ids \ {id} : rows'[o] = rows[o]
    BY <1>1, <2>1
  <2>4. rows'[id] = TurnRow(rows[id], msgs)
    BY <1>1, <2>1
  <2> QED
    BY <2>2, <2>3, <2>4 DEF TableEvolves, Evolves, LiveKept, Live, Exists
<1>4. CASE SaveOutcome(id, msgs, base) \in {"probed", "conflict"}
  <2>1. rows' = rows /\ Exists(id)
    BY <1>4 DEF SaveTurn, SaveOutcome
  <2> QED
    BY <2>1, SameTable DEF Live, Exists
<1> QED
  BY <1>2, <1>3, <1>4 DEF SaveTurn

LEMMA BranchEvolves ==
  ASSUME IInv, NEW source \in Ids, NEW newId \in Ids, NEW through \in {None} \cup Nat, NEW base,
         Branch(source, newId, through, base)
  PROVE  TableEvolves /\ LiveKept
<1>1. CASE BranchOutcome(source, newId, through, base) = "ok"
  <2>1. rows[newId] = None /\ rows' = [rows EXCEPT ![newId] = BranchRow(source, through)]
    BY <1>1 DEF Branch, BranchOutcome, Exists
  <2> QED
    BY <2>1 DEF IInv, StoreTypeOK, TableEvolves, Evolves, LiveKept, Live, Exists
<1>2. CASE BranchOutcome(source, newId, through, base) # "ok"
  BY <1>2, SameTable DEF Branch
<1> QED
  BY <1>1, <1>2

(* A column other than the transcript is updated. *)
LEMMA ColumnEvolves ==
  ASSUME IInv, NEW id \in Ids,
         \/ \E title \in UserTitles : Rename(id, title)
         \/ \E pinned \in BOOLEAN : SetPinned(id, pinned)
         \/ \E effort \in Efforts \cup {None} : SetReasoningOverride(id, effort)
  PROVE  TableEvolves /\ LiveKept
<1> DEFINE SameTurns(row) == /\ row # None
                             /\ row.revision = rows[id].revision
                             /\ row.messages = rows[id].messages
<1>1. rows \in [Ids -> Row \cup {None}]
  BY DEF IInv, StoreTypeOK
<1>2. CASE ~Exists(id)
  BY <1>2, SameTable DEF Rename, SetPinned, SetReasoningOverride
<1>3. CASE Exists(id)
  <2>1. rows[id] \in Row
    BY <1>1, <1>3 DEF Exists
  <2>2. ASSUME NEW row, SameTurns(row), rows' = [rows EXCEPT ![id] = row]
        PROVE  TableEvolves /\ LiveKept
    BY <1>1, <2>2 DEF TableEvolves, Evolves, LiveKept, Live, Exists
  <2>3. ASSUME NEW row \in Row PROVE row # None
    BY StoreAssumption
  <2>4. ASSUME NEW title \in UserTitles, Rename(id, title) PROVE TableEvolves /\ LiveKept
    <3>1. [rows[id] EXCEPT !.title = title] \in Row
      BY <2>1 DEF Row, Titles
    <3>2. SameTurns([rows[id] EXCEPT !.title = title])
      BY <2>1, <2>3, <3>1 DEF Row
    <3> QED
      BY <1>3, <2>2, <2>4, <3>2 DEF Rename
  <2>5. ASSUME NEW pinned \in BOOLEAN, SetPinned(id, pinned) PROVE TableEvolves /\ LiveKept
    <3>1. [rows[id] EXCEPT !.pinned = pinned] \in Row
      BY <2>1 DEF Row
    <3>2. SameTurns([rows[id] EXCEPT !.pinned = pinned])
      BY <2>1, <2>3, <3>1 DEF Row
    <3> QED
      BY <1>3, <2>2, <2>5, <3>2 DEF SetPinned
  <2>6. ASSUME NEW effort \in Efforts \cup {None}, SetReasoningOverride(id, effort)
        PROVE  TableEvolves /\ LiveKept
    <3>1. [rows[id] EXCEPT !.reasoning = effort] \in Row
      BY <2>1 DEF Row
    <3>2. SameTurns([rows[id] EXCEPT !.reasoning = effort])
      BY <2>1, <2>3, <3>1 DEF Row
    <3> QED
      BY <1>3, <2>2, <2>6, <3>2 DEF SetReasoningOverride
  <2> QED
    BY <2>4, <2>5, <2>6
<1> QED
  BY <1>2, <1>3

(* A heal that fills the ids of the stored transcript. *)
LEMMA HealEvolves ==
  ASSUME IInv, NEW id \in Live, Parseable(rows[id].messages),
         HealMessages(id, WithIds(rows[id].messages))
  PROVE  /\ TableEvolves /\ LiveKept
         /\ rows'[id].messages = WithIds(rows[id].messages) /\ rows'[id].revision = rows[id].revision
<1>1. rows \in [Ids -> Row \cup {None}] /\ rows[id] \in Row /\ id \in Ids
  BY DEF IInv, StoreTypeOK, Live, Exists
<1> DEFINE new == [rows[id] EXCEPT !.messages = WithIds(rows[id].messages)]
<1>2. rows' = [rows EXCEPT ![id] = new]
  BY DEF HealMessages, Live
<1>3. WithIds(rows[id].messages) \in Seq(Message)
  BY <1>1, WithIdsProperties DEF Row
<1>4. new \in Row /\ new.messages = WithIds(rows[id].messages) /\ new.revision = rows[id].revision
  BY <1>1, <1>3 DEF Row
<1> HIDE DEF new
<1> QED
  BY <1>1, <1>2, <1>4, StoreAssumption DEF TableEvolves, Evolves, LiveKept, Live, Exists

LEMMA DeleteEvolves ==
  ASSUME NEW ids \in SUBSET Ids, Delete(ids)
  PROVE  TableEvolves /\ Live' = Live \ ids
  BY DEF Delete, TableEvolves, Evolves, Live, Exists

-----------------------------------------------------------------------------
(* What a step of tab t does to the handlers: the others wait, and t holds *)
(* the loop afterwards if its handler is between two store calls.          *)
MovedAlone(t) ==
  /\ \A u \in Tabs \ {t} : req'[u] = req[u]
  /\ running' = IF req'[t].at \in InLoop THEN t ELSE None

LEMMA MovesAlone ==
  ASSUME ServerTypes, ~adverse, NEW t \in Tabs, NEW r,
         \/ AfterStore(t, r) /\ r.at \in InLoop
         \/ AfterYield(t, r) /\ r.at \notin InLoop
  PROVE  MovedAlone(t) /\ req'[t] = r
  BY DEF ServerTypes, TypeOK, AfterStore, AfterYield, MovedAlone

LEMMA RespondsAlone ==
  ASSUME ServerTypes, ~adverse, NEW t \in Tabs, Respond(t)
  PROVE  MovedAlone(t) /\ req'[t] = Idle
<1>1. Idle.at \notin InLoop
  BY IdleType DEF InLoop
<1> QED
  BY <1>1, MovesAlone DEF Respond

(* The table between two steps of the invariant's proof. *)
LEMMA Births ==
  ASSUME ServerTypes, CountBirths, NEW id \in Ids
  PROVE  born'[id] = IF rows[id] = None /\ rows'[id] # None THEN born[id] + 1 ELSE born[id]
  BY DEF CountBirths, Exists

LEMMA StaysPinned ==
  ASSUME ServerTypes, ServerTypes', TableEvolves, CountBirths, NEW v \in View, Pinned(v)
  PROVE  v.id # None => PinnedTo(v, rows'[v.id], born'[v.id])
<1> SUFFICES ASSUME v.id # None PROVE PinnedTo(v, rows'[v.id], born'[v.id])
  OBVIOUS
<1>1. v.id \in Ids
  BY DEF View
<1>2. rows[v.id] \in Row \cup {None} /\ rows'[v.id] \in Row \cup {None} /\ born[v.id] \in Nat
  BY <1>1 DEF ServerTypes, TypeOK
<1>3. PinnedTo(v, rows[v.id], born[v.id]) /\ Evolves(rows[v.id], rows'[v.id])
  BY <1>1 DEF Pinned, TableEvolves
<1>4. PinnedTo(v, rows'[v.id], IF rows[v.id] = None /\ rows'[v.id] # None THEN born[v.id] + 1 ELSE born[v.id])
  BY <1>2, <1>3, EvolvedPin
<1> QED
  BY <1>1, <1>4, Births

(* The pointer stays good when it does not move and nothing is deleted,    *)
(* unless the step is one of a delete's.                                   *)
LEMMA PointerStays ==
  ASSUME LoopInv, NEW t \in Tabs, CanRun(t), req[t].at \notin {"pointer", "survivors", "write"},
         activeId' = activeId, LiveKept, None \notin Tabs
  PROVE  activeId \in Live \cup {None} /\ activeId' \in Live' \cup {None}
<1>1. \A u \in Tabs : req[u].at \in {"pointer", "survivors", "write"} => running = u
  BY DEF LoopInv, LoopHeld, InLoop
<1>2. \A u \in Tabs : req[u].at \notin {"pointer", "survivors", "write"}
  BY <1>1 DEF CanRun
<1>3. activeId \in Live \cup {None}
  BY <1>2 DEF LoopInv, PointerKept
<1> QED
  BY <1>3 DEF LiveKept

(* What remains to be shown of each step of a handler. *)
LEMMA LoopStep ==
  ASSUME ServerTypes, ServerTypes', LoopInv, NEW t \in Tabs, CanRun(t),
         MovedAlone(t), TableEvolves, CountBirths, PointerKept',
         \A u \in Tabs \ {t} : view'[u] = view[u],
         view'[t] = view[t] \/ Pinned(view[t])',
         \/ req'[t].seen \in {req[t].seen, view[t]}
         \/ req'[t].seen.id = None,
         Knows(req[t])', Based(req[t])'
  PROVE  LoopInv'
<1>1. LoopHeld'
  <2>1. \A u \in Tabs \ {t} : req[u].at \notin InLoop
    BY ServerAssumption DEF LoopInv, LoopHeld, CanRun
  <2> QED
    BY <2>1, ServerAssumption DEF MovedAlone, LoopHeld
<1>2. \A u \in Tabs : Knows(req[u])' /\ Based(req[u])'
  <2> TAKE u \in Tabs
  <2>1. CASE u = t
    BY <2>1
  <2>2. CASE u # t
    <3>1. req'[u] = req[u] /\ req[u].at \notin InLoop /\ Based(req[u])
      BY <2>2, ServerAssumption DEF LoopInv, LoopHeld, CanRun, MovedAlone
    <3> QED
      BY <3>1 DEF Knows, Based, InLoop
  <2> QED
    BY <2>1, <2>2
<1>3. \A v \in View : Pinned(v) => (v.id # None => PinnedTo(v, rows'[v.id], born'[v.id]))
  BY StaysPinned
<1>4. \A u \in Tabs : view[u] \in View /\ req[u].seen \in View /\ Pinned(view[u]) /\ Pinned(req[u].seen)
  BY DEF ServerTypes, TypeOK, Request, LoopInv
<1>5. \A u \in Tabs : Pinned(view[u])'
  BY <1>3, <1>4 DEF Pinned
<1>6. \A u \in Tabs : Pinned(req[u].seen)'
  BY <1>3, <1>4 DEF Pinned, MovedAlone
<1> QED
  BY <1>1, <1>2, <1>5, <1>6 DEF LoopInv

(* A step that leaves the pointer and what the tabs show alone, and is not *)
(* one of a delete's.                                                      *)
LEMMA TableLoopStep ==
  ASSUME ServerTypes, ServerTypes', LoopInv, NEW t \in Tabs, CanRun(t),
         MovedAlone(t), TableEvolves, LiveKept, CountBirths, UNCHANGED <<activeId, view>>,
         req[t].at \notin {"pointer", "survivors", "write"},
         \/ req'[t].seen \in {req[t].seen, view[t]}
         \/ req'[t].seen.id = None,
         Knows(req[t])', Based(req[t])'
  PROVE  LoopInv'
<1>1. activeId' \in Live' \cup {None}
  BY PointerStays, ServerAssumption
<1>2. PointerKept'
  BY <1>1 DEF PointerKept
<1> QED
  BY <1>2, LoopStep

(* A handler that has responded relies on nothing. *)
LEMMA IdleReliesOnNothing ==
  ASSUME NEW t \in Tabs, req'[t] = Idle
  PROVE  Knows(req[t])' /\ Based(req[t])' /\ req'[t].seen.id = None
  BY IdleType DEF Knows, Based, NoView

LEMMA RespondLoopStep ==
  ASSUME ServerTypes, ServerTypes', LoopInv, ~adverse, NEW t \in Tabs, CanRun(t), Respond(t),
         TableEvolves, LiveKept, CountBirths, UNCHANGED <<activeId, view>>,
         req[t].at \notin {"pointer", "survivors", "write"}
  PROVE  LoopInv'
<1>1. MovedAlone(t) /\ req'[t] = Idle
  BY RespondsAlone
<1> QED
  BY <1>1, IdleReliesOnNothing, TableLoopStep

(* A step that responds after writing a good pointer. *)
LEMMA PointerLoopStep ==
  ASSUME ServerTypes, ServerTypes', LoopInv, ~adverse, NEW t \in Tabs, CanRun(t), Respond(t),
         CountBirths, UNCHANGED <<rows, view>>, activeId' \in Live \cup {None}
  PROVE  LoopInv'
<1>1. MovedAlone(t) /\ req'[t] = Idle
  BY RespondsAlone
<1>2. TableEvolves /\ LiveKept
  BY SameTable
<1>3. PointerKept'
  BY <1>2 DEF PointerKept, LiveKept
<1> QED
  BY <1>1, <1>2, <1>3, IdleReliesOnNothing, LoopStep

LEMMA ChatLoop ==
  ASSUME ServerTypes, ServerTypes', LoopInv, ~adverse, NEW t \in Tabs, ChatStep(t),
         CountBirths, UNCHANGED <<clock, scene>>
  PROVE  LoopInv'
<1>0. /\ IInv /\ req[t] \in Handlers /\ view[t] \in View /\ Idle.at = "idle" /\ Based(req[t])
      /\ Idle.seen = NoView
  BY ServerTypesGive, IdleType DEF HandlerTypes, LoopInv
<1>1. CASE SendTurn(t)
  <2>1. PICK id \in Ids :
          LET seen == IF view[t].id = id THEN view[t] ELSE NoView
          IN  \E msgs \in Sendable(seen.messages, turns') :
                AfterYield(t, [Idle EXCEPT
                  !.at       = "preflight",
                  !.id       = id,
                  !.base     = IF seen = NoView THEN None ELSE seen.revision,
                  !.messages = msgs,
                  !.turn     = turns',
                  !.seen     = seen])
    BY <1>1 DEF SendTurn
  <2> DEFINE seen == IF view[t].id = id THEN view[t] ELSE NoView
             base == IF seen = NoView THEN None ELSE seen.revision
             sent(msgs) == [Idle EXCEPT !.at = "preflight", !.id = id, !.base = base,
                                        !.messages = msgs, !.turn = turns', !.seen = seen]
  <2>2. PICK msgs \in Sendable(seen.messages, turns') : AfterYield(t, sent(msgs))
    BY <2>1
  <2>3. (seen = view[t] /\ view[t].id = id) \/ seen = NoView
    OBVIOUS
  <2>4. base # None => seen # NoView /\ base = seen.revision
    OBVIOUS
  <2> HIDE DEF seen, base
  <2>5. /\ sent(msgs).at = "preflight" /\ sent(msgs).id = id /\ sent(msgs).base = base
        /\ sent(msgs).seen = seen
    BY DEF Idle
  <2> HIDE DEF sent
  <2>6. MovedAlone(t) /\ req'[t] = sent(msgs)
    BY <2>2, <2>5, MovesAlone DEF InLoop
  <2>7. Knows(req[t])' /\ Based(req[t])'
    BY <2>3, <2>4, <2>5, <2>6 DEF Knows, Based
  <2>8. req'[t].seen = view[t] \/ req'[t].seen.id = None
    BY <2>3, <2>5, <2>6 DEF NoView
  <2>9. /\ CanRun(t) /\ UNCHANGED <<rows, activeId, view>>
        /\ req[t].at \notin {"pointer", "survivors", "write"}
    BY <1>0, <1>1 DEF SendTurn, Starts, CanRun, TableUnchanged
  <2> QED
    BY <2>6, <2>7, <2>8, <2>9, SameTable, TableLoopStep
<1>2. CASE RejectStale(t)
  BY <1>2, SameTable, RespondLoopStep DEF RejectStale, At, TableUnchanged, BrowserUnchanged
<1>3. CASE PassPreflight(t) \/ StartStream(t)
  <2>1. PICK pc \in {"resolve", "stream"} : AfterYield(t, Goto(t, pc))
    BY <1>3 DEF PassPreflight, StartStream
  <2>2. /\ CanRun(t) /\ req[t].at \in {"preflight", "resolve"} /\ UNCHANGED <<rows, activeId, view>>
    BY <1>3 DEF PassPreflight, StartStream, At, TableUnchanged, BrowserUnchanged
  <2>3. /\ Goto(t, pc).at = pc /\ Goto(t, pc).id = req[t].id /\ Goto(t, pc).base = req[t].base
        /\ Goto(t, pc).seen = req[t].seen
    BY <1>0 DEF Goto, Handlers, Request
  <2>4. MovedAlone(t) /\ req'[t] = Goto(t, pc)
    BY <2>1, <2>3, MovesAlone DEF InLoop
  <2>5. Knows(req[t])' /\ Based(req[t])'
    BY <1>0, <2>2, <2>3, <2>4 DEF Knows, Based
  <2> QED
    BY <2>2, <2>3, <2>4, <2>5, SameTable, TableLoopStep
<1>4. CASE FailResolve(t)
  BY <1>4, SameTable, RespondLoopStep DEF FailResolve, At, TableUnchanged, BrowserUnchanged
<1>5. CASE FinishTurn(t)
  <2>1. PICK status \in {"complete", "aborted", "error"}, content \in BOOLEAN :
          LET msgs == TurnMessages(req[t].messages, req[t].turn, status, content)
          IN  \/ /\ msgs = None
                 /\ Respond(t)
                 /\ UNCHANGED rows
              \/ /\ msgs # None
                 /\ SaveTurn(req[t].id, msgs, req[t].base)
                 /\ AfterStore(t, Goto(t, "mark"))
    BY <1>5 DEF FinishTurn
  <2> DEFINE msgs == TurnMessages(req[t].messages, req[t].turn, status, content)
  <2>2. CanRun(t) /\ req[t].at = "stream" /\ UNCHANGED <<activeId, view>>
    BY <1>5 DEF FinishTurn, At, BrowserUnchanged
  <2>3. CASE msgs = None
    <3>1. Respond(t) /\ UNCHANGED rows
      BY <2>1, <2>3
    <3> QED
      BY <2>2, <3>1, SameTable, RespondLoopStep
  <2>4. CASE msgs # None
    <3>1. SaveTurn(req[t].id, msgs, req[t].base) /\ AfterStore(t, Goto(t, "mark"))
      BY <2>1, <2>4
    <3>2. req[t].messages \in Seq(Message) /\ req[t].turn \in Nat /\ req[t].id \in Ids
      BY <1>0, <2>2 DEF Handlers, SaneHandler, Request
    <3>3. msgs \in Seq(Message)
      BY <2>4, <3>2, TurnMessagesType
    <3> HIDE DEF msgs
    <3>4. TableEvolves /\ LiveKept /\ req[t].id \in Live'
      BY <1>0, <3>1, <3>2, <3>3, SaveTurnEvolves
    <3>5. Goto(t, "mark").at = "mark" /\ Goto(t, "mark").id = req[t].id /\ Goto(t, "mark").seen = req[t].seen
      BY <1>0 DEF Goto, Handlers, Request
    <3>6. MovedAlone(t) /\ req'[t] = Goto(t, "mark")
      BY <3>1, <3>5, MovesAlone DEF InLoop
    <3>7. Knows(req[t])' /\ Based(req[t])'
      BY <3>4, <3>5, <3>6 DEF Knows, Based
    <3> QED
      BY <2>2, <3>4, <3>5, <3>6, <3>7, TableLoopStep
  <2> QED
    BY <2>3, <2>4
<1>6. CASE MarkActive(t)
  <2>1. req[t].id \in Live
    BY <1>6 DEF MarkActive, At, LoopInv, Knows
  <2> QED
    BY <1>6, <2>1, PointerLoopStep DEF MarkActive, At, SetActiveId, BrowserUnchanged
<1> QED
  BY <1>1, <1>2, <1>3, <1>4, <1>5, <1>6 DEF ChatStep

LEMMA ReadLoop ==
  ASSUME ServerTypes, ServerTypes', LoopInv, ~adverse, NEW t \in Tabs, ReadStep(t),
         CountBirths, UNCHANGED <<clock, scene>>
  PROVE  LoopInv'
<1>0. /\ IInv /\ req[t] \in Handlers /\ Idle.at = "idle" /\ Idle.seen = NoView /\ Knows(req[t])
  BY ServerTypesGive, IdleType DEF HandlerTypes, LoopInv
<1>1. CASE ListRows(t)
  <2>1. PICK first : AfterStore(t, [Idle EXCEPT !.at = "listed", !.ids = Live, !.id = first])
    BY <1>1 DEF ListRows
  <2> DEFINE r == [Idle EXCEPT !.at = "listed", !.ids = Live, !.id = first]
  <2>2. r.at = "listed" /\ r.seen = NoView
    BY DEF Idle
  <2> HIDE DEF r
  <2>3. MovedAlone(t) /\ req'[t] = r
    BY <2>1, <2>2, MovesAlone DEF r, InLoop
  <2>4. Knows(req[t])' /\ Based(req[t])' /\ req'[t].seen.id = None
    BY <2>2, <2>3 DEF Knows, Based, NoView
  <2>5. /\ CanRun(t) /\ UNCHANGED <<rows, activeId, view>>
        /\ req[t].at \notin {"pointer", "survivors", "write"}
    BY <1>0, <1>1 DEF ListRows, Starts, CanRun, TableUnchanged, BrowserUnchanged
  <2> QED
    BY <2>3, <2>4, <2>5, SameTable, TableLoopStep
<1>2. CASE RespondList(t)
  BY <1>2, SameTable, RespondLoopStep DEF RespondList, At, TableUnchanged
<1>3. CASE LoadDetail(t)
  <2> DEFINE loaded(id) == [Idle EXCEPT !.at       = "validate",
                                        !.id       = id,
                                        !.messages = rows[id].messages,
                                        !.revision = rows[id].revision,
                                        !.seen     = [NoView EXCEPT !.born = born[id]]]
  <2>1. PICK id \in Live : AfterStore(t, loaded(id))
    BY <1>3 DEF LoadDetail
  <2>2. /\ loaded(id).at = "validate" /\ loaded(id).id = id
        /\ loaded(id).messages = rows[id].messages /\ loaded(id).revision = rows[id].revision
        /\ loaded(id).seen.born = born[id] /\ loaded(id).seen.id = None
    BY DEF Idle, NoView
  <2> HIDE DEF loaded
  <2>3. MovedAlone(t) /\ req'[t] = loaded(id)
    BY <2>1, <2>2, MovesAlone DEF InLoop
  <2>4. /\ CanRun(t) /\ UNCHANGED <<rows, activeId, view>>
        /\ req[t].at \notin {"pointer", "survivors", "write"}
    BY <1>0, <1>3 DEF LoadDetail, Starts, CanRun, TableUnchanged, BrowserUnchanged
  <2>5. id \in Live' /\ born'[id] = born[id]
    <3>1. id \in Ids /\ rows[id] # None
      BY <2>1 DEF Live, Exists
    <3> QED
      BY <2>4, <3>1, Births DEF Live, Exists
  <2>6. Knows(req[t])' /\ Based(req[t])'
    BY <2>2, <2>3, <2>4, <2>5 DEF Knows, Based
  <2> QED
    BY <2>2, <2>3, <2>4, <2>6, SameTable, TableLoopStep
<1>4. CASE RespondDetail(t)
  <2> DEFINE r      == req[t]
             served == IF Parseable(r.messages) THEN WithIds(r.messages) ELSE <<>>
             heals  == Parseable(r.messages) /\ HasBlank(r.messages)
             shown  == [id |-> r.id, revision |-> r.revision, messages |-> served, born |-> r.seen.born]
  <2>1. /\ CanRun(t) /\ r.at = "validate"
        /\ \/ heals /\ HealMessages(r.id, served)
           \/ ~heals /\ UNCHANGED rows
        /\ view' = [view EXCEPT ![t] = shown] /\ Respond(t) /\ UNCHANGED activeId
    BY <1>4 DEF RespondDetail, At
  <2>2. /\ r.id \in Live /\ born[r.id] = r.seen.born
        /\ rows[r.id].messages = r.messages /\ rows[r.id].revision = r.revision
        /\ r.id \in Ids /\ rows[r.id] \in Row /\ r.messages \in Seq(Message)
    <3>1. /\ r.id \in Live /\ born[r.id] = r.seen.born
          /\ rows[r.id].messages = r.messages /\ rows[r.id].revision = r.revision
      BY <1>0, <2>1 DEF Knows
    <3> QED
      BY <1>0, <3>1 DEF Live, Exists, IInv, StoreTypeOK, Row
  <2>3. /\ TableEvolves /\ LiveKept
        /\ rows'[r.id].revision = r.revision
        /\ Parseable(rows'[r.id].messages) => WithIds(rows'[r.id].messages) = served
    <3>1. CASE heals /\ HealMessages(r.id, served)
      <4>1. served = WithIds(rows[r.id].messages) /\ Parseable(rows[r.id].messages)
        BY <2>2, <3>1
      <4>2. /\ TableEvolves /\ LiveKept
            /\ rows'[r.id].messages = WithIds(r.messages) /\ rows'[r.id].revision = r.revision
        BY <1>0, <2>2, <3>1, <4>1, HealEvolves
      <4> QED
        BY <2>2, <4>1, <4>2, WithIdsProperties
    <3>2. CASE ~heals /\ UNCHANGED rows
      BY <2>2, <3>2, SameTable
    <3> QED
      BY <2>1, <3>1, <3>2
  <2> HIDE DEF served, heals
  <2>4. born'[r.id] = r.seen.born
    BY <2>2, Births DEF Live, Exists
  <2>5. view'[t] = shown /\ \A u \in Tabs \ {t} : view'[u] = view[u]
    <3> HIDE DEF shown
    <3> QED
      BY <2>1 DEF ServerTypes, TypeOK
  <2>6. r.revision \in Nat /\ r.seen.born \in Nat
    BY <1>0 DEF Handlers, Request, View
  <2>7. Pinned(view[t])'
    BY <2>3, <2>4, <2>5, <2>6 DEF Pinned, PinnedTo
  <2>8. MovedAlone(t) /\ req'[t] = Idle
    BY <2>1, RespondsAlone
  <2>9. PointerKept'
    BY <2>1, <2>3, PointerStays, ServerAssumption DEF PointerKept
  <2> QED
    BY <2>1, <2>3, <2>5, <2>7, <2>8, <2>9, IdleReliesOnNothing, LoopStep
<1> QED
  BY <1>1, <1>2, <1>3, <1>4 DEF ReadStep

(* A handler that has found or made its row, and goes on to use it. *)
LEMMA FoundLoopStep ==
  ASSUME ServerTypes, ServerTypes', LoopInv, ~adverse, NEW t \in Tabs, Starts(t), NEW r,
         r.at \in {"activate", "override", "rename", "title"}, r.id \in Live', r.seen = NoView,
         IF r.at = "title" THEN AfterYield(t, r) ELSE AfterStore(t, r),
         TableEvolves, LiveKept, CountBirths, UNCHANGED <<activeId, view>>
  PROVE  LoopInv'
<1>1. MovedAlone(t) /\ req'[t] = r
  BY MovesAlone DEF InLoop
<1>2. Knows(req[t])' /\ Based(req[t])' /\ req'[t].seen.id = None
  BY <1>1 DEF Knows, Based, NoView
<1>3. CanRun(t) /\ req[t].at \notin {"pointer", "survivors", "write"}
  BY IdleType DEF Starts, CanRun
<1> QED
  BY <1>1, <1>2, <1>3, TableLoopStep

LEMMA DeleteLoop ==
  ASSUME ServerTypes, ServerTypes', LoopInv, ~adverse, NEW t \in Tabs,
         \/ DeleteConversations(t) \/ CheckPointer(t) \/ ListSurvivors(t) \/ WritePointer(t),
         CountBirths, UNCHANGED <<clock, scene>>
  PROVE  LoopInv'
<1>0. /\ req[t] \in Handlers /\ Idle.at = "idle" /\ Idle.seen = NoView /\ NoView.id = None
      /\ Knows(req[t])
  BY ServerTypesGive, IdleType DEF HandlerTypes, LoopInv, NoView
<1>1. CASE DeleteConversations(t)
  <2>1. PICK ids \in SUBSET Ids : Delete(ids) /\ AfterStore(t, [Idle EXCEPT !.at = "pointer", !.ids = ids])
    BY <1>1 DEF DeleteConversations
  <2> DEFINE r == [Idle EXCEPT !.at = "pointer", !.ids = ids]
  <2>2. r.at = "pointer" /\ r.seen = NoView /\ r.ids = ids
    BY DEF Idle
  <2> HIDE DEF r
  <2>3. MovedAlone(t) /\ req'[t] = r
    BY <2>1, <2>2, MovesAlone DEF r, InLoop
  <2>4. Knows(req[t])' /\ Based(req[t])' /\ req'[t].seen.id = None
    BY <1>0, <2>2, <2>3 DEF Knows, Based
  <2>5. /\ CanRun(t) /\ UNCHANGED <<activeId, view>>
        /\ req[t].at \notin {"pointer", "survivors", "write"}
    BY <1>0, <1>1 DEF DeleteConversations, Starts, CanRun, BrowserUnchanged
  <2>6. TableEvolves /\ Live' = Live \ ids
    BY <2>1, DeleteEvolves
  <2>7. activeId \in Live \cup {None}
    <3>1. \A u \in Tabs : req[u].at \notin InLoop
      BY <1>1, ServerAssumption DEF DeleteConversations, Starts, LoopInv, LoopHeld
    <3> QED
      BY <3>1 DEF LoopInv, PointerKept, InLoop
  <2>8. PointerKept'
    BY <2>2, <2>3, <2>5, <2>6, <2>7 DEF PointerKept
  <2> QED
    BY <2>3, <2>4, <2>5, <2>6, <2>8, LoopStep
<1>2. CASE CheckPointer(t)
  <2>1. /\ CanRun(t) /\ req[t].at = "pointer" /\ UNCHANGED <<rows, activeId, view>>
        /\ \/ activeId \in req[t].ids /\ AfterStore(t, Goto(t, "survivors"))
           \/ activeId \notin req[t].ids /\ Respond(t)
    BY <1>2 DEF CheckPointer, At, TableUnchanged, BrowserUnchanged
  <2>2. TableEvolves /\ LiveKept
    BY <2>1, SameTable
  <2>3. CASE AfterStore(t, Goto(t, "survivors"))
    <3>1. Goto(t, "survivors").at = "survivors" /\ Goto(t, "survivors").seen = req[t].seen
      BY <1>0 DEF Goto, Handlers, Request
    <3>2. MovedAlone(t) /\ req'[t] = Goto(t, "survivors")
      BY <2>3, <3>1, MovesAlone DEF InLoop
    <3>3. Knows(req[t])' /\ Based(req[t])'
      BY <3>1, <3>2 DEF Knows, Based
    <3>4. PointerKept'
      BY <3>1, <3>2 DEF PointerKept
    <3> QED
      BY <2>1, <2>2, <3>1, <3>2, <3>3, <3>4, LoopStep
  <2>4. CASE activeId \notin req[t].ids /\ Respond(t)
    <3>1. \A u \in Tabs \ {t} : req[u].at \notin InLoop
      BY <2>1, ServerAssumption DEF CanRun, LoopInv, LoopHeld
    <3>2. activeId \in Live \cup {None}
      BY <2>1, <2>4, <3>1 DEF LoopInv, PointerKept, InLoop
    <3> QED
      BY <2>1, <2>4, <3>2, PointerLoopStep
  <2> QED
    BY <2>1, <2>3, <2>4
<1>3. CASE ListSurvivors(t)
  <2>1. PICK next \in (IF Live = {} THEN {None} ELSE MostRecent) :
          AfterStore(t, [Goto(t, "write") EXCEPT !.id = next])
    BY <1>3 DEF ListSurvivors
  <2> DEFINE r == [Goto(t, "write") EXCEPT !.id = next]
  <2>2. r.at = "write" /\ r.seen = req[t].seen /\ r.id = next
    BY <1>0 DEF Goto, Handlers, Request
  <2>3. next \in Live \cup {None}
    BY <2>1 DEF MostRecent
  <2> HIDE DEF r
  <2>4. MovedAlone(t) /\ req'[t] = r
    BY <2>1, <2>2, MovesAlone DEF r, InLoop
  <2>5. CanRun(t) /\ UNCHANGED <<rows, activeId, view>>
    BY <1>3 DEF ListSurvivors, At, TableUnchanged, BrowserUnchanged
  <2>6. TableEvolves /\ LiveKept
    BY <2>5, SameTable
  <2>7. Knows(req[t])' /\ Based(req[t])'
    BY <2>2, <2>3, <2>4, <2>6 DEF Knows, Based, LiveKept
  <2>8. PointerKept'
    BY <2>2, <2>4 DEF PointerKept
  <2> QED
    BY <2>2, <2>4, <2>5, <2>6, <2>7, <2>8, LoopStep
<1>4. CASE WritePointer(t)
  <2>1. req[t].id \in Live \cup {None}
    BY <1>0, <1>4 DEF WritePointer, At, Knows
  <2> QED
    BY <1>4, <2>1, PointerLoopStep DEF WritePointer, At, SetActiveId, BrowserUnchanged
<1> QED
  BY <1>1, <1>2, <1>3, <1>4

LEMMA WriteLoop ==
  ASSUME ServerTypes, ServerTypes', LoopInv, ~adverse, NEW t \in Tabs, WriteStep(t),
         CountBirths, UNCHANGED <<clock, scene>>
  PROVE  LoopInv'
<1>0. /\ IInv /\ req[t] \in Handlers /\ view[t] \in View
      /\ Idle.at = "idle" /\ Idle.seen = NoView /\ NoView.id = None /\ Knows(req[t])
      /\ \A id \in Live : id \in Ids
  BY ServerTypesGive, IdleType DEF HandlerTypes, LoopInv, NoView, Live
<1>1. CASE DeleteConversations(t) \/ CheckPointer(t) \/ ListSurvivors(t) \/ WritePointer(t)
  BY <1>1, DeleteLoop
<1>2. CASE LoadForActive(t)
  <2>1. PICK id \in Live : AfterStore(t, [Idle EXCEPT !.at = "activate", !.id = id])
    BY <1>2 DEF LoadForActive
  <2> DEFINE r == [Idle EXCEPT !.at = "activate", !.id = id]
  <2>2. r.at = "activate" /\ r.id = id /\ r.seen = NoView
    BY DEF Idle
  <2>3. Starts(t) /\ UNCHANGED <<rows, activeId, view>>
    BY <1>2 DEF LoadForActive, TableUnchanged, BrowserUnchanged
  <2>4. TableEvolves /\ LiveKept /\ id \in Live'
    BY <2>1, <2>3, SameTable DEF LiveKept
  <2>5. AfterStore(t, r)
    BY <2>1
  <2> HIDE DEF r
  <2> QED
    BY <2>2, <2>3, <2>4, <2>5, FoundLoopStep
<1>3. CASE SetActive(t)
  <2>1. req[t].id \in Live
    BY <1>0, <1>3 DEF SetActive, At, Knows
  <2> QED
    BY <1>3, <2>1, PointerLoopStep DEF SetActive, At, SetActiveId, BrowserUnchanged
<1>4. CASE CreateForOverride(t)
  <2>1. PICK id \in Ids, effort \in Efforts \cup {None} :
          /\ SaveTurn(id, <<>>, None)
          /\ AfterStore(t, [Idle EXCEPT !.at = "override", !.id = id, !.effort = effort])
    BY <1>4 DEF CreateForOverride
  <2> DEFINE r == [Idle EXCEPT !.at = "override", !.id = id, !.effort = effort]
  <2>2. r.at = "override" /\ r.id = id /\ r.seen = NoView
    BY DEF Idle
  <2>3. Starts(t) /\ UNCHANGED <<activeId, view>>
    BY <1>4 DEF CreateForOverride, BrowserUnchanged
  <2>4. TableEvolves /\ LiveKept /\ id \in Live'
    BY <1>0, <2>1, EmptySeq, SaveTurnEvolves
  <2>5. AfterStore(t, r)
    BY <2>1
  <2> HIDE DEF r
  <2> QED
    BY <2>2, <2>3, <2>4, <2>5, FoundLoopStep
<1>5. CASE SetOverride(t)
  <2>1. /\ CanRun(t) /\ req[t].at = "override" /\ Respond(t) /\ UNCHANGED <<activeId, view>>
        /\ SetReasoningOverride(req[t].id, req[t].effort)
    BY <1>5 DEF SetOverride, At, BrowserUnchanged
  <2>2. req[t].id \in Ids /\ req[t].effort \in Efforts \cup {None}
    BY <1>0, <2>1 DEF Handlers, SaneHandler, Request
  <2>3. TableEvolves /\ LiveKept
    BY <1>0, <2>1, <2>2, ColumnEvolves
  <2> QED
    BY <2>1, <2>3, RespondLoopStep
<1>6. CASE LoadForTitle(t)
  <2>1. PICK id \in Live :
          \/ AfterStore(t, [Idle EXCEPT !.at = "rename", !.id = id])
          \/ AfterYield(t, [Idle EXCEPT !.at = "title", !.id = id])
    BY <1>6 DEF LoadForTitle
  <2> DEFINE r(pc) == [Idle EXCEPT !.at = pc, !.id = id]
  <2>2. \A pc : r(pc).at = pc /\ r(pc).id = id /\ r(pc).seen = NoView
    BY DEF Idle
  <2>3. Starts(t) /\ UNCHANGED <<rows, activeId, view>>
    BY <1>6 DEF LoadForTitle, TableUnchanged, BrowserUnchanged
  <2>4. TableEvolves /\ LiveKept /\ id \in Live'
    BY <2>1, <2>3, SameTable DEF LiveKept
  <2>5. AfterStore(t, r("rename")) \/ AfterYield(t, r("title"))
    BY <2>1
  <2> HIDE DEF r
  <2> QED
    BY <2>2, <2>3, <2>4, <2>5, FoundLoopStep
<1>7. CASE SetTitle(t)
  <2>1. PICK title \in UserTitles :
          /\ CanRun(t) /\ req[t].at \in {"rename", "title"} /\ Respond(t)
          /\ UNCHANGED <<activeId, view>> /\ Rename(req[t].id, title)
    BY <1>7 DEF SetTitle, At, BrowserUnchanged
  <2>2. req[t].id \in Ids
    BY <1>0, <2>1 DEF Handlers, SaneHandler
  <2>3. TableEvolves /\ LiveKept
    BY <1>0, <2>1, <2>2, ColumnEvolves
  <2> QED
    BY <2>1, <2>3, RespondLoopStep
<1>8. CASE FailTitle(t)
  BY <1>8, SameTable, RespondLoopStep DEF FailTitle, At, TableUnchanged, BrowserUnchanged
<1>9. CASE Pin(t) \/ BranchConversation(t)
  <2>1. running = None /\ req[t] = Idle /\ UNCHANGED <<activeId, req, running, view>>
    BY <1>9 DEF Pin, BranchConversation, Starts, BrowserUnchanged
  <2>2. TableEvolves /\ LiveKept
    <3>1. CASE Pin(t)
      BY <1>0, <3>1, ColumnEvolves DEF Pin
    <3>2. CASE BranchConversation(t)
      <4>1. PICK newId \in Ids, through \in {None} \cup (0 .. Len(view[t].messages)) :
              Branch(view[t].id, newId, through, view[t].revision)
        BY <3>2 DEF BranchConversation
      <4>2. view[t].id \in Ids /\ through \in {None} \cup Nat
        BY <1>0, <3>2, <4>1 DEF BranchConversation, View
      <4> QED
        BY <1>0, <4>1, <4>2, BranchEvolves
    <3> QED
      BY <1>9, <3>1, <3>2
  <2>3. MovedAlone(t)
    BY <1>0, <2>1 DEF MovedAlone, InLoop
  <2> QED
    BY <1>0, <2>1, <2>2, <2>3, IdleReliesOnNothing, TableLoopStep DEF CanRun
<1> QED
  BY <1>1, <1>2, <1>3, <1>4, <1>5, <1>6, <1>7, <1>8, <1>9 DEF WriteStep

(* Without faults only handlers step. *)
LEMMA FaultlessStep ==
  ASSUME Next, ~adverse
  PROVE  /\ \E t \in Tabs : ChatStep(t) \/ ReadStep(t) \/ WriteStep(t)
         /\ CountBirths /\ UNCHANGED <<clock, scene>>
  BY DEF Next, StoreThrows, Crash

ServerInv == ServerTypes /\ (~adverse => LoopInv)

LEMMA LoopInvKept ==
  ASSUME ServerInv, [Next]_vars, ~adverse
  PROVE  LoopInv'
<1>0. ServerTypes /\ ServerTypes' /\ LoopInv
  BY ServerStep DEF ServerInv
<1>1. CASE Next
  <2>1. PICK t \in Tabs : ChatStep(t) \/ ReadStep(t) \/ WriteStep(t)
    BY <1>1, FaultlessStep
  <2>2. CountBirths /\ UNCHANGED <<clock, scene>>
    BY <1>1, FaultlessStep
  <2> QED
    BY <1>0, <2>1, <2>2, ChatLoop, ReadLoop, WriteLoop
<1>2. CASE UNCHANGED vars
  BY <1>0, <1>2
  DEF vars, LoopInv, LoopHeld, PointerKept, Knows, Based, Pinned, PinnedTo, Live, Exists
<1> QED
  BY <1>1, <1>2

LEMMA InitLoop == Init => LoopInv
<1> SUFFICES ASSUME Init PROVE LoopInv
  OBVIOUS
<1>1. \A t \in Tabs : req[t] = Idle /\ view[t] = NoView
  BY DEF Init
<1>2. Idle.at = "idle" /\ Idle.seen = NoView /\ NoView.id = None
  BY IdleType DEF NoView
<1>3. LoopHeld
  BY <1>1, <1>2, ServerAssumption DEF LoopHeld, InLoop, Init
<1>4. PointerKept
  BY DEF PointerKept, Init
<1> QED
  BY <1>1, <1>2, <1>3, <1>4 DEF LoopInv, Knows, Based, Pinned

LEMMA LoopInvariance == Spec => []ServerInv
<1>1. Init => ServerInv
  BY InitTypes, InitLoop DEF ServerInv
<1>2. ServerInv /\ [Next]_vars => ServerInv'
  <2> SUFFICES ASSUME ServerInv, [Next]_vars PROVE ServerInv'
    OBVIOUS
  <2>1. ServerTypes'
    BY ServerStep DEF ServerInv
  <2>2. scene' = scene
    BY DEF Next, vars
  <2>3. ~adverse' => LoopInv'
    BY <2>2, LoopInvKept DEF adverse
  <2> QED
    BY <2>1, <2>3 DEF ServerInv
<1> QED
  BY <1>1, <1>2, PTL DEF Spec

(* What a handler relies on between its store calls holds whenever the     *)
(* loop is not yielded at them, for any tabs and conversations (the routes *)
(* of conversations-write.ts and conversations-read.ts, onFinish).         *)
THEOREM LoopIsRelied == Spec => []HandlerInv
<1>1. ServerInv => HandlerInv
  BY DEF ServerInv, ServerTypes, HandlerInv
<1> QED
  BY <1>1, LoopInvariance, PTL

(* A revision stands for one transcript, whatever heals, turns, deletes,   *)
(* branches and other tabs do (conversations-read.ts, saveTurn).           *)
THEOREM TokenPins == Spec => []TokenPinsTranscript
<1>1. ServerInv => TokenPinsTranscript
  <2> SUFFICES ASSUME ServerInv, ~adverse, NEW t \in Tabs,
                      Current(view[t]), Parseable(rows[view[t].id].messages)
               PROVE  WithIds(rows[view[t].id].messages) = view[t].messages
    BY DEF TokenPinsTranscript
  <2>1. Pinned(view[t])
    BY DEF ServerInv, LoopInv
  <2> QED
    BY <2>1 DEF Pinned, PinnedTo, Current, Exists
<1> QED
  BY <1>1, LoopInvariance, PTL

(* Between handlers the last-active pointer names a stored conversation or *)
(* none (recomputeActiveAfterDelete, markActive).                          *)
THEOREM PointerNamesARow == Spec => []NoDanglingPointer
<1>1. ServerInv => NoDanglingPointer
  <2> SUFFICES ASSUME ServerInv, ~adverse, running = None, activeId # None PROVE Exists(activeId)
    BY DEF NoDanglingPointer
  <2>1. \A t \in Tabs : req[t].at \notin InLoop
    BY ServerAssumption DEF ServerInv, LoopInv, LoopHeld
  <2>2. activeId \in Live \cup {None}
    BY <2>1 DEF ServerInv, LoopInv, PointerKept, InLoop
  <2> QED
    BY <2>2 DEF Live
<1> QED
  BY <1>1, LoopInvariance, PTL

(* A handler that is neither idle nor elsewhere takes only its own steps.  *)
LEMMA OwnStep ==
  ASSUME ServerTypes, Next, ~adverse, NEW t \in Tabs, req'[t] # req[t],
         req[t].at \in {"stream", "override"}
  PROVE  IF req[t].at = "stream" THEN FinishTurn(t) ELSE SetOverride(t)
<1>1. PICK u \in Tabs : ChatStep(u) \/ ReadStep(u) \/ WriteStep(u)
  BY FaultlessStep
<1>2. u = t
  <2>1. \A r : AfterStore(u, r) \/ AfterYield(u, r) => (u # t => req'[t] = req[t])
    BY DEF ServerTypes, TypeOK, AfterStore, AfterYield
  <2>2. (\E r : AfterStore(u, r) \/ AfterYield(u, r)) \/ req' = req
    <3>1. CASE ChatStep(u)
      BY <3>1, Zenon DEF ChatStep, SendTurn, RejectStale, PassPreflight, FailResolve, StartStream,
        FinishTurn, MarkActive, Respond
    <3>2. CASE ReadStep(u)
      BY <3>2, Zenon DEF ReadStep, ListRows, RespondList, LoadDetail, RespondDetail, Respond
    <3>3. CASE WriteStep(u)
      BY <3>3, Zenon DEF WriteStep, DeleteConversations, CheckPointer, ListSurvivors, WritePointer,
        LoadForActive, SetActive, CreateForOverride, SetOverride, LoadForTitle, SetTitle, FailTitle,
        Pin, BranchConversation, Respond
    <3> QED
      BY <1>1, <3>1, <3>2, <3>3
  <2> QED
    BY <2>1, <2>2
<1>3. Idle.at = "idle"
  BY IdleType
<1>4. ~Starts(t) /\ \A pc : At(t, pc) => pc = req[t].at
  BY <1>3 DEF Starts, At
<1>5. ASSUME ChatStep(t) PROVE FinishTurn(t) /\ req[t].at = "stream"
  <2>1. ~SendTurn(t)
    BY <1>4, Zenon DEF SendTurn
  <2>2. ~RejectStale(t) /\ ~PassPreflight(t) /\ ~FailResolve(t) /\ ~StartStream(t) /\ ~MarkActive(t)
    BY <1>4 DEF RejectStale, PassPreflight, FailResolve, StartStream, MarkActive
  <2>3. FinishTurn(t)
    BY <1>5, <2>1, <2>2, Zenon DEF ChatStep
  <2>4. At(t, "stream")
    BY <2>3, Zenon DEF FinishTurn
  <2> QED
    BY <2>3, <2>4 DEF At
<1>6. ~ReadStep(t)
  <2>1. ~ListRows(t) /\ ~LoadDetail(t)
    BY <1>4, Zenon DEF ListRows, LoadDetail
  <2>2. ~RespondList(t)
    BY <1>4 DEF RespondList
  <2>3. ~RespondDetail(t)
    BY DEF RespondDetail, At
  <2> QED
    BY <2>1, <2>2, <2>3 DEF ReadStep
<1>7. ASSUME WriteStep(t) PROVE SetOverride(t) /\ req[t].at = "override"
  <2>1. /\ ~DeleteConversations(t) /\ ~LoadForActive(t) /\ ~CreateForOverride(t) /\ ~LoadForTitle(t)
        /\ ~Pin(t) /\ ~BranchConversation(t)
    BY <1>4, Zenon DEF DeleteConversations, LoadForActive, CreateForOverride, LoadForTitle, Pin,
      BranchConversation
  <2>2. /\ ~CheckPointer(t) /\ ~WritePointer(t) /\ ~SetActive(t) /\ ~SetTitle(t) /\ ~FailTitle(t)
    BY <1>4 DEF CheckPointer, WritePointer, SetActive, SetTitle, FailTitle
  <2>3. ~ListSurvivors(t)
    BY DEF ListSurvivors, At
  <2>4. SetOverride(t)
    BY <1>7, <2>1, <2>2, <2>3, Zenon DEF WriteStep
  <2> QED
    BY <2>4 DEF SetOverride, At
<1> QED
  BY <1>1, <1>2, <1>5, <1>6, <1>7

(* A turn that replaces a row of the incarnation its tab had loaded        *)
(* replaces the transcript the tab was looking at (onFinish, saveTurn,     *)
(* chat-persistence-target.ts).                                            *)
THEOREM AcceptedSawStored == Spec => AcceptedTurnSawStored
<1> DEFINE SawStored ==
      \A t \in Tabs :
        LET r == req[t] IN
          /\ ~adverse
          /\ r.at = "stream" /\ req'[t].at = "mark"
          /\ rows' # rows
          /\ r.base # None /\ Exists(r.id) /\ born[r.id] = r.seen.born
          /\ Parseable(rows[r.id].messages)
          => WithIds(rows[r.id].messages) = r.seen.messages
<1>1. ServerInv /\ [Next]_vars => [SawStored]_vars
  <2> SUFFICES ASSUME ServerInv, Next, ~adverse, NEW t \in Tabs,
                      req[t].at = "stream", req'[t].at = "mark", rows' # rows,
                      req[t].base # None, Exists(req[t].id), born[req[t].id] = req[t].seen.born,
                      Parseable(rows[req[t].id].messages)
               PROVE  WithIds(rows[req[t].id].messages) = req[t].seen.messages
    BY DEF ServerInv
  <2>1. FinishTurn(t)
    BY OwnStep DEF ServerInv
  <2>2. PICK msgs : SaveTurn(req[t].id, msgs, req[t].base)
    BY <2>1 DEF FinishTurn
  <2>3. req[t].base = rows[req[t].id].revision
    BY <2>2 DEF SaveTurn, SaveOutcome
  <2>4. /\ req[t].seen.id = req[t].id /\ req[t].base = req[t].seen.revision
        /\ Pinned(req[t].seen) /\ req[t].id # None
    <3>1. Based(req[t]) /\ Pinned(req[t].seen) /\ SaneHandler(req[t])
      BY DEF ServerInv, LoopInv, ServerTypes
    <3> QED
      BY <3>1, StoreAssumption DEF Based, SaneHandler
  <2> QED
    BY <2>3, <2>4 DEF Pinned, PinnedTo, Exists
<1> QED
  BY <1>1, LoopInvariance, PTL DEF Spec, AcceptedTurnSawStored

(* An acknowledged override is stored in a row that is still there         *)
(* (conversations-write.ts, the override routes).                          *)
THEOREM OverrideIsStored == Spec => OverrideTakesEffect
<1> DEFINE Stored ==
      \A t \in Tabs :
        LET r == req[t] IN
          ~adverse /\ r.at = "override" /\ req'[t] = Idle =>
            rows'[r.id] # None /\ rows'[r.id].reasoning = r.effort
<1>1. ServerInv /\ [Next]_vars => [Stored]_vars
  <2> SUFFICES ASSUME ServerInv, Next, ~adverse, NEW t \in Tabs,
                      req[t].at = "override", req'[t] = Idle
               PROVE  rows'[req[t].id] # None /\ rows'[req[t].id].reasoning = req[t].effort
    BY DEF ServerInv
  <2>1. SetOverride(t)
    BY OwnStep, IdleType DEF ServerInv
  <2>2. req[t].id \in Live
    BY DEF ServerInv, LoopInv, Knows
  <2> DEFINE id  == req[t].id
             new == [rows[id] EXCEPT !.reasoning = req[t].effort]
  <2>3. rows' = [rows EXCEPT ![id] = new] /\ id \in Ids
    BY <2>1, <2>2 DEF SetOverride, SetReasoningOverride, Live
  <2>4. rows \in [Ids -> Row \cup {None}] /\ rows[id] \in Row /\ req[t].effort \in Efforts \cup {None}
    BY <2>2 DEF ServerInv, ServerTypes, TypeOK, Request, Live, Exists
  <2>5. new \in Row /\ new.reasoning = req[t].effort
    BY <2>4 DEF Row
  <2> HIDE DEF new
  <2> QED
    BY <2>3, <2>4, <2>5, StoreAssumption
<1> QED
  BY <1>1, LoopInvariance, PTL DEF Spec, OverrideTakesEffect

-----------------------------------------------------------------------------
(***************************************************************************)
(* The table and the turns as SharedRows has them.                         *)
(***************************************************************************)
SlotOf(row) == IF row # None THEN [revision |-> row.revision, log |-> LogOf(row.messages)] ELSE AbsentRow

NoTurn == [at |-> "none"]

Asked(r) ==
  CASE r.at = "preflight"             -> Pending(r, "posted")
    [] r.at \in {"resolve", "stream"} -> Pending(r, "accepted")
    [] OTHER                          -> NoTurn

LEMMA Seen ==
  ASSUME scene' = scene
  PROVE  /\ SharedTable = [id \in Ids |-> SlotOf(rows[id])]
         /\ SharedTable' = [id \in Ids |-> SlotOf(rows'[id])]
         /\ PendingTurns = [t \in Tabs |-> Asked(req[t])]
         /\ PendingTurns' = [t \in Tabs |-> Asked(req'[t])]
  BY DEF SharedTable, SlotOf, LogOf, adverse, Exists, PendingTurns, Asked, Pending, MayStore, NoTurn

LEMMA AskedProperties ==
  /\ Asked(Idle) = NoTurn
  /\ \A r : r.at \notin {"preflight", "resolve", "stream"} => Asked(r) = NoTurn
  /\ \A r : r.at = "preflight" => Asked(r) = Pending(r, "posted")
  /\ \A r : r.at \in {"resolve", "stream"} => Asked(r) = Pending(r, "accepted")
<1>1. Idle.at = "idle"
  BY IdleType
<1> QED
  BY <1>1 DEF Asked

LEMMA PendingFields ==
  ASSUME NEW r, NEW at
  PROVE  /\ Pending(r, at).at = at /\ Pending(r, at).id = r.id /\ Pending(r, at).base = r.base
         /\ Pending(r, at).stores = MayStore(r)
  BY DEF Pending

(* A row there is a slot with its revision; none is the absent slot. *)
LEMMA SlotProperties ==
  /\ SlotOf(None) = AbsentRow
  /\ \A row \in Row : /\ SlotOf(row) # AbsentRow /\ SlotOf(row).revision = row.revision
                      /\ SlotOf(row) = [revision |-> row.revision, log |-> LogOf(row.messages)]
<1>1. SlotOf(None) = AbsentRow
  BY DEF SlotOf
<1>2. ASSUME NEW row \in Row
      PROVE  /\ SlotOf(row) # AbsentRow /\ SlotOf(row).revision = row.revision
             /\ SlotOf(row) = [revision |-> row.revision, log |-> LogOf(row.messages)]
  <2>1. row.revision # None /\ row # None
    BY StoreAssumption DEF Row
  <2>2. SlotOf(row) = [revision |-> row.revision, log |-> LogOf(row.messages)]
    BY <2>1 DEF SlotOf
  <2>3. SlotOf(row).revision = row.revision /\ AbsentRow.revision = None
    BY <2>2 DEF AbsentRow
  <2> QED
    BY <2>1, <2>2, <2>3
<1> QED
  BY <1>1, <1>2

(* What a step of tab t does to the turns unless it asks or is let in.     *)
TurnEnds(t)  == /\ Asked(req'[t]) \in {NoTurn, Asked(req[t])}
                /\ \A u \in Tabs \ {t} : req'[u] = req[u]

SlotsStay == \A id \in Ids : SlotOf(rows'[id]) = SlotOf(rows[id])

LEMMA RemoveImplements ==
  ASSUME scene' = scene,
         \A u \in Tabs : Asked(req'[u]) \in {NoTurn, Asked(req[u])},
         NEW ids \in SUBSET Ids,
         \A id \in Ids : SlotOf(rows'[id]) = IF id \in ids THEN AbsentRow ELSE SlotOf(rows[id])
  PROVE  Shared!Next
<1> DEFINE ended == {u \in Tabs : Asked(req'[u]) = NoTurn}
<1>1. PendingTurns' = [u \in Tabs |-> IF u \in ended THEN NoTurn ELSE PendingTurns[u]]
  BY Seen
<1>2. ended \in SUBSET Tabs
  OBVIOUS
<1> HIDE DEF ended
<1>3. Shared!Ended
  BY <1>1, <1>2 DEF Shared!Ended, Shared!NoRequest, NoTurn
<1>4. SharedTable' = [id \in Ids |-> IF id \in ids THEN AbsentRow ELSE SharedTable[id]]
  BY Seen
<1>5. Shared!Remove
  BY <1>3, <1>4 DEF Shared!Remove
<1> QED
  BY <1>5 DEF Shared!Next

LEMMA EndImplements ==
  ASSUME scene' = scene, NEW t \in Tabs, TurnEnds(t), SlotsStay
  PROVE  Shared!Next
<1>1. \A u \in Tabs : Asked(req'[u]) \in {NoTurn, Asked(req[u])}
  BY DEF TurnEnds
<1>2. {} \in SUBSET Ids /\ \A id \in Ids : SlotOf(rows'[id]) = IF id \in {} THEN AbsentRow ELSE SlotOf(rows[id])
  BY DEF SlotsStay
<1> QED
  BY <1>1, <1>2, RemoveImplements

(* A handler that is no chat turn before the step is none after it, or a   *)
(* turn is answered.                                                       *)
LEMMA Ends ==
  ASSUME ServerTypes, NEW t \in Tabs, NEW r, AfterStore(t, r) \/ AfterYield(t, r),
         r.at \notin {"preflight", "resolve", "stream"}
  PROVE  TurnEnds(t)
<1>1. req'[t] = r /\ \A u \in Tabs \ {t} : req'[u] = req[u]
  BY DEF ServerTypes, TypeOK, AfterStore, AfterYield
<1> QED
  BY <1>1, AskedProperties DEF TurnEnds

LEMMA Answered ==
  ASSUME ServerTypes, NEW t \in Tabs, Respond(t)
  PROVE  TurnEnds(t)
<1>1. Idle.at \notin {"preflight", "resolve", "stream"}
  BY IdleType
<1> QED
  BY <1>1, Ends DEF Respond

(* A row is born. *)
LEMMA CreateImplements ==
  ASSUME scene' = scene, NEW id \in Ids, rows \in [Ids -> Row \cup {None}],
         rows[id] = None, NEW row \in Row, row.revision = 1, rows' = [rows EXCEPT ![id] = row],
         \A u \in Tabs : Asked(req'[u]) = Asked(req[u])
  PROVE  Shared!Next
<1>1. SharedTable[id] = AbsentRow /\ SharedTable'[id] = SlotOf(row)
  BY Seen, SlotProperties
<1>2. SharedTable'[id] # AbsentRow /\ SharedTable'[id].revision = 1
  BY <1>1, SlotProperties
<1>3. SharedTable' = [SharedTable EXCEPT ![id] = SharedTable'[id]]
  BY Seen
<1>4. UNCHANGED PendingTurns
  BY Seen
<1>5. Shared!Create(id)
  BY <1>1, <1>2, <1>3, <1>4 DEF Shared!Create
<1> QED
  BY <1>5 DEF Shared!Next

LEMMA SlotsStayed ==
  ASSUME UNCHANGED rows
  PROVE  SlotsStay
  BY DEF SlotsStay

(* A column other than the transcript is not in the slot. *)
LEMMA ColumnStays ==
  ASSUME IInv, NEW id \in Ids,
         \/ \E title \in UserTitles : Rename(id, title)
         \/ \E pinned \in BOOLEAN : SetPinned(id, pinned)
         \/ \E effort \in Efforts \cup {None} : SetReasoningOverride(id, effort)
  PROVE  SlotsStay
<1>1. rows \in [Ids -> Row \cup {None}]
  BY DEF IInv, StoreTypeOK
<1>2. CASE ~Exists(id)
  BY <1>2, SlotsStayed DEF Rename, SetPinned, SetReasoningOverride
<1>3. CASE Exists(id)
  <2>1. rows[id] \in Row
    BY <1>1, <1>3 DEF Exists
  <2>2. ASSUME NEW row \in Row, row.revision = rows[id].revision, row.messages = rows[id].messages,
               rows' = [rows EXCEPT ![id] = row]
        PROVE  SlotsStay
    <3>1. SlotOf(row) = SlotOf(rows[id])
      BY <2>1, <2>2, SlotProperties
    <3> QED
      BY <1>1, <2>2, <3>1 DEF SlotsStay
  <2>3. ASSUME NEW title \in UserTitles, Rename(id, title) PROVE SlotsStay
    <3> DEFINE row == [rows[id] EXCEPT !.title = title]
    <3>1. row \in Row /\ row.revision = rows[id].revision /\ row.messages = rows[id].messages
      BY <2>1 DEF Row, Titles
    <3>2. rows' = [rows EXCEPT ![id] = row]
      BY <1>3, <2>3 DEF Rename
    <3> HIDE DEF row
    <3> QED
      BY <2>2, <3>1, <3>2
  <2>4. ASSUME NEW pinned \in BOOLEAN, SetPinned(id, pinned) PROVE SlotsStay
    <3> DEFINE row == [rows[id] EXCEPT !.pinned = pinned]
    <3>1. row \in Row /\ row.revision = rows[id].revision /\ row.messages = rows[id].messages
      BY <2>1 DEF Row
    <3>2. rows' = [rows EXCEPT ![id] = row]
      BY <1>3, <2>4 DEF SetPinned
    <3> HIDE DEF row
    <3> QED
      BY <2>2, <3>1, <3>2
  <2>5. ASSUME NEW effort \in Efforts \cup {None}, SetReasoningOverride(id, effort) PROVE SlotsStay
    <3> DEFINE row == [rows[id] EXCEPT !.reasoning = effort]
    <3>1. row \in Row /\ row.revision = rows[id].revision /\ row.messages = rows[id].messages
      BY <2>1 DEF Row
    <3>2. rows' = [rows EXCEPT ![id] = row]
      BY <1>3, <2>5 DEF SetReasoningOverride
    <3> HIDE DEF row
    <3> QED
      BY <2>2, <3>1, <3>2
  <2> QED
    BY <2>3, <2>4, <2>5
<1> QED
  BY <1>2, <1>3

-----------------------------------------------------------------------------
(* Each handler's steps are steps of SharedRows. *)
LEMMA SendImplements ==
  ASSUME ServerTypes, NEW t \in Tabs, SendTurn(t), scene' = scene
  PROVE  Shared!Next
<1>1. req[t] = Idle /\ UNCHANGED rows
  BY DEF SendTurn, Starts, TableUnchanged
<1>2. PICK r : r.at = "preflight" /\ r.id \in Ids /\ AfterYield(t, r)
  <2>1. PICK id, base, msgs, seen :
          /\ id \in Ids
          /\ AfterYield(t, [Idle EXCEPT !.at = "preflight", !.id = id, !.base = base,
                                        !.messages = msgs, !.turn = turns', !.seen = seen])
    BY DEF SendTurn
  <2> DEFINE r == [Idle EXCEPT !.at = "preflight", !.id = id, !.base = base,
                               !.messages = msgs, !.turn = turns', !.seen = seen]
  <2>2. r.at = "preflight" /\ r.id \in Ids
    BY <2>1 DEF Idle
  <2> HIDE DEF r
  <2> QED
    BY <2>1, <2>2 DEF r
<1>3. req'[t] = r /\ \A u \in Tabs \ {t} : req'[u] = req[u]
  BY <1>2 DEF ServerTypes, TypeOK, AfterYield
<1>4. PendingTurns[t] = NoTurn /\ PendingTurns'[t] = Pending(r, "posted")
  BY <1>1, <1>2, <1>3, Seen, AskedProperties
<1>5. PendingTurns' = [PendingTurns EXCEPT ![t] = PendingTurns'[t]]
  BY <1>3, Seen
<1>6. PendingTurns'[t].at = "posted" /\ PendingTurns'[t].id \in Ids
  BY <1>2, <1>4, PendingFields
<1>7. UNCHANGED SharedTable
  BY <1>1, Seen
<1>8. Shared!Ask(t)
  BY <1>4, <1>5, <1>6, <1>7 DEF Shared!Ask, Shared!NoRequest, NoTurn
<1> QED
  BY <1>8 DEF Shared!Next

(* The check of a base against the table, here and there. *)
LEMMA SameCheck ==
  ASSUME ServerTypes, NEW t \in Tabs, scene' = scene, req[t].at \in {"preflight", "resolve", "stream"}
  PROVE  Shared!Stale(t) <=> PreflightConflict(t)
<1>1. PICK at : PendingTurns[t] = Pending(req[t], at)
  BY Seen, AskedProperties
<1>2. PendingTurns[t].id = req[t].id /\ PendingTurns[t].base = req[t].base
  BY <1>1, PendingFields
<1>3. req[t].id \in Ids /\ rows[req[t].id] \in Row \cup {None}
  BY DEF ServerTypes, TypeOK, SaneHandler
<1>4. SharedTable[req[t].id] = SlotOf(rows[req[t].id])
  BY <1>3, Seen
<1>5. /\ SharedTable[req[t].id] # AbsentRow <=> rows[req[t].id] # None
      /\ rows[req[t].id] # None => SharedTable[req[t].id].revision = rows[req[t].id].revision
  BY <1>3, <1>4, SlotProperties
<1> QED
  BY <1>2, <1>5 DEF Shared!Stale, PreflightConflict, Exists

LEMMA AcceptImplements ==
  ASSUME ServerTypes, NEW t \in Tabs, PassPreflight(t), scene' = scene
  PROVE  Shared!Next
<1>1. req[t].at = "preflight" /\ ~PreflightConflict(t) /\ UNCHANGED rows /\ AfterYield(t, Goto(t, "resolve"))
  BY DEF PassPreflight, At, TableUnchanged
<1>2. req[t] \in Request
  BY DEF ServerTypes, TypeOK
<1>3. req'[t] = Goto(t, "resolve") /\ \A u \in Tabs \ {t} : req'[u] = req[u]
  BY <1>1 DEF ServerTypes, TypeOK, AfterYield
<1>4. Pending(req'[t], "accepted") = Pending(req[t], "accepted") /\ req'[t].at = "resolve"
  <2>1. /\ req'[t].id = req[t].id /\ req'[t].base = req[t].base /\ req'[t].messages = req[t].messages
        /\ req'[t].turn = req[t].turn /\ req'[t].at = "resolve"
    BY <1>2, <1>3 DEF Goto, Request
  <2> QED
    BY <2>1 DEF Pending, MayStore
<1>5. PendingTurns[t] = Pending(req[t], "posted") /\ PendingTurns'[t] = Pending(req[t], "accepted")
  BY <1>1, <1>4, Seen, AskedProperties
<1>6. [PendingTurns[t] EXCEPT !.at = "accepted"] = PendingTurns'[t] /\ PendingTurns[t].at = "posted"
  BY <1>5 DEF Pending
<1>7. PendingTurns' = [PendingTurns EXCEPT ![t] = PendingTurns'[t]]
  BY <1>3, Seen
<1>8. PendingTurns' = [PendingTurns EXCEPT ![t].at = "accepted"]
  BY <1>6, <1>7
<1>9. UNCHANGED SharedTable
  BY <1>1, Seen
<1>10. Shared!Accept(t)
  BY <1>1, <1>6, <1>8, <1>9, SameCheck DEF Shared!Accept
<1> QED
  BY <1>10 DEF Shared!Next

(* Goto keeps what a turn may store; from the model to the stream is no    *)
(* step of SharedRows.                                                     *)
LEMMA StreamImplements ==
  ASSUME ServerTypes, NEW t \in Tabs, StartStream(t), scene' = scene
  PROVE  Shared!Next
<1>1. req[t].at = "resolve" /\ UNCHANGED rows /\ AfterYield(t, Goto(t, "stream"))
  BY DEF StartStream, At, TableUnchanged
<1>2. req[t] \in Request
  BY DEF ServerTypes, TypeOK
<1>3. req'[t] = Goto(t, "stream") /\ \A u \in Tabs \ {t} : req'[u] = req[u]
  BY <1>1 DEF ServerTypes, TypeOK, AfterYield
<1>4. /\ req'[t].id = req[t].id /\ req'[t].base = req[t].base /\ req'[t].messages = req[t].messages
      /\ req'[t].turn = req[t].turn /\ req'[t].at = "stream"
  BY <1>2, <1>3 DEF Goto, Request
<1>5. Asked(req'[t]) = Asked(req[t])
  BY <1>1, <1>4 DEF Asked, Pending, MayStore
<1>6. TurnEnds(t)
  BY <1>3, <1>5 DEF TurnEnds
<1> QED
  BY <1>1, <1>6, EndImplements, SlotsStayed

LEMMA FinishImplements ==
  ASSUME ServerTypes, NEW t \in Tabs, FinishTurn(t), UNCHANGED <<scene, clock>>
  PROVE  Shared!Next
<1>0. /\ IInv /\ StoreTypeOK /\ rows \in [Ids -> Row \cup {None}]
      /\ req[t] \in Request /\ req[t].at = "stream" /\ req[t].id \in Ids
      /\ req[t].messages \in Seq(Message) /\ req[t].turn \in Nat
  BY ServerTypesGive DEF FinishTurn, At, ServerTypes, TypeOK, SaneHandler, Request, IInv
<1>1. PICK status \in {"complete", "aborted", "error"}, content \in BOOLEAN :
        LET msgs == TurnMessages(req[t].messages, req[t].turn, status, content)
        IN  \/ /\ msgs = None
               /\ Respond(t)
               /\ UNCHANGED rows
            \/ /\ msgs # None
               /\ SaveTurn(req[t].id, msgs, req[t].base)
               /\ AfterStore(t, Goto(t, "mark"))
  BY DEF FinishTurn
<1> DEFINE msgs == TurnMessages(req[t].messages, req[t].turn, status, content)
<1>2. CASE msgs = None
  BY <1>1, <1>2, Answered, EndImplements, SlotsStayed
<1>3. CASE msgs # None
  <2> DEFINE id == req[t].id
  <2>1. SaveTurn(id, msgs, req[t].base) /\ AfterStore(t, Goto(t, "mark"))
    BY <1>1, <1>3
  <2>2. msgs \in Seq(Message)
    BY <1>0, <1>3, TurnMessagesType
  <2>3. LogOf(msgs) \in MayStore(req[t])
    BY <1>3 DEF MayStore
  <2> HIDE DEF msgs
  <2>4. Goto(t, "mark").at = "mark"
    BY <1>0 DEF Goto, Request
  <2>5. TurnEnds(t)
    BY <2>1, <2>4, Ends
  <2>6. /\ req'[t] = Goto(t, "mark") /\ \A u \in Tabs \ {t} : req'[u] = req[u]
    BY <2>1 DEF ServerTypes, TypeOK, AfterStore
  <2>7. PendingTurns' = [PendingTurns EXCEPT ![t] = NoTurn]
    <3>1. Asked(req'[t]) = NoTurn
      BY <2>4, <2>6, AskedProperties
    <3> QED
      BY <2>6, <3>1, Seen
  <2>8. PendingTurns[t] = Pending(req[t], "accepted") /\ SharedTable[id] = SlotOf(rows[id])
    BY <1>0, Seen, AskedProperties
  <2>9. /\ PendingTurns[t].at = "accepted" /\ PendingTurns[t].id = id
        /\ LogOf(msgs) \in PendingTurns[t].stores
    BY <2>3, <2>8, PendingFields
  <2>10. ASSUME NEW row \in Row, rows' = [rows EXCEPT ![id] = row], row.messages = msgs,
                row.revision = Shared!NextRevision(SharedTable[id]), ~PreflightConflict(t)
         PROVE  Shared!Next
    <3>1. SharedTable' = [SharedTable EXCEPT ![id] = SlotOf(row)]
      BY <1>0, <2>10, Seen
    <3>2. SlotOf(row) = [revision |-> Shared!NextRevision(SharedTable[id]), log |-> LogOf(msgs)]
      BY <2>10, SlotProperties
    <3>3. SharedTable' = [SharedTable EXCEPT ![PendingTurns[t].id] =
            [revision |-> Shared!NextRevision(SharedTable[PendingTurns[t].id]), log |-> LogOf(msgs)]]
      BY <2>9, <3>1, <3>2
    <3>4. ~Shared!Stale(t)
      BY <1>0, <2>10, SameCheck
    <3>5. Shared!Save(t)
      BY <2>7, <2>9, <3>3, <3>4 DEF Shared!Save, Shared!NoRequest, NoTurn
    <3> QED
      BY <3>5 DEF Shared!Next
  <2>11. CASE SaveOutcome(id, msgs, req[t].base) = "created"
    <3>1. rows[id] = None /\ rows' = [rows EXCEPT ![id] = NewRow(msgs)]
      BY <2>1, <2>11 DEF SaveTurn, SaveOutcome, Exists
    <3>2. NewRow(msgs) \in Row /\ NewRow(msgs).revision = 1 /\ NewRow(msgs).messages = msgs
      <4>1. NewRow(msgs).messages = msgs
        BY DEF NewRow
      <4> QED
        BY <1>0, <2>2, <4>1, NewRowType
    <3>3. Shared!NextRevision(SharedTable[id]) = 1 /\ ~PreflightConflict(t)
      BY <2>8, <3>1, SlotProperties DEF Shared!NextRevision, PreflightConflict, Exists
    <3> QED
      BY <2>10, <3>1, <3>2, <3>3
  <2>12. CASE SaveOutcome(id, msgs, req[t].base) = "replaced"
    <3>1. /\ rows[id] \in Row /\ rows' = [rows EXCEPT ![id] = TurnRow(rows[id], msgs)]
          /\ req[t].base \in {None, rows[id].revision}
      BY <1>0, <2>1, <2>12 DEF SaveTurn, SaveOutcome, Exists
    <3>2. /\ TurnRow(rows[id], msgs) \in Row /\ TurnRow(rows[id], msgs).revision = rows[id].revision + 1
          /\ TurnRow(rows[id], msgs).messages = msgs
      BY <1>0, <2>2, <3>1, TurnRowType
    <3>3. Shared!NextRevision(SharedTable[id]) = rows[id].revision + 1
      BY <2>8, <3>1, SlotProperties DEF Shared!NextRevision
    <3>4. ~PreflightConflict(t)
      BY <3>1 DEF PreflightConflict
    <3> QED
      BY <2>10, <3>1, <3>2, <3>3, <3>4
  <2>13. CASE SaveOutcome(id, msgs, req[t].base) \in {"probed", "conflict"}
    <3>1. UNCHANGED rows
      BY <2>1, <2>13 DEF SaveTurn
    <3> QED
      BY <2>5, <3>1, EndImplements, SlotsStayed
  <2> QED
    BY <2>1, <2>11, <2>12, <2>13 DEF SaveTurn
<1> QED
  BY <1>2, <1>3

LEMMA ChatImplements ==
  ASSUME ServerTypes, NEW t \in Tabs, ChatStep(t), UNCHANGED <<scene, clock>>
  PROVE  Shared!Next
<1>1. ASSUME RejectStale(t) \/ FailResolve(t) \/ MarkActive(t) PROVE Shared!Next
  <2>1. Respond(t) /\ UNCHANGED rows
    BY <1>1 DEF RejectStale, FailResolve, MarkActive, TableUnchanged
  <2> QED
    BY <2>1, Answered, EndImplements, SlotsStayed
<1> QED
  BY <1>1, SendImplements, AcceptImplements, StreamImplements, FinishImplements DEF ChatStep

(* A heal writes the transcript the slot has already: without faults it is *)
(* the one the read has loaded.                                            *)
LEMMA ReadImplements ==
  ASSUME ServerInv, NEW t \in Tabs, ReadStep(t), scene' = scene
  PROVE  Shared!Next
<1>0. ServerTypes /\ IInv /\ rows \in [Ids -> Row \cup {None}]
  BY ServerTypesGive DEF ServerInv, IInv, StoreTypeOK
<1>1. CASE ListRows(t) \/ LoadDetail(t)
  <2>1. ASSUME NEW r, AfterStore(t, r), r.at \in {"listed", "validate"}
        PROVE  TurnEnds(t)
    BY <1>0, <2>1, Ends
  <2>2. TurnEnds(t)
    <3>1. CASE ListRows(t)
      <4>1. PICK first : AfterStore(t, [Idle EXCEPT !.at = "listed", !.ids = Live, !.id = first])
        BY <3>1 DEF ListRows
      <4> DEFINE r == [Idle EXCEPT !.at = "listed", !.ids = Live, !.id = first]
      <4>2. AfterStore(t, r) /\ r.at = "listed"
        BY <4>1 DEF Idle
      <4> HIDE DEF r
      <4> QED
        BY <2>1, <4>2
    <3>2. CASE LoadDetail(t)
      <4>1. PICK id, msgs, rev, seen :
              AfterStore(t, [Idle EXCEPT !.at = "validate", !.id = id, !.messages = msgs,
                                         !.revision = rev, !.seen = seen])
        BY <3>2 DEF LoadDetail
      <4> DEFINE r == [Idle EXCEPT !.at = "validate", !.id = id, !.messages = msgs,
                                   !.revision = rev, !.seen = seen]
      <4>2. AfterStore(t, r) /\ r.at = "validate"
        BY <4>1 DEF Idle
      <4> HIDE DEF r
      <4> QED
        BY <2>1, <4>2
    <3> QED
      BY <1>1, <3>1, <3>2
  <2>3. UNCHANGED rows
    BY <1>1 DEF ListRows, LoadDetail, TableUnchanged
  <2> QED
    BY <2>2, <2>3, EndImplements, SlotsStayed
<1>2. CASE RespondList(t)
  BY <1>0, <1>2, Answered, EndImplements, SlotsStayed DEF RespondList, TableUnchanged
<1>3. CASE RespondDetail(t)
  <2> DEFINE id   == req[t].id
             msgs == req[t].messages
  <2>1. Respond(t) /\ req[t].at = "validate"
    BY <1>3 DEF RespondDetail, At
  <2>2. CASE UNCHANGED rows
    BY <1>0, <2>1, <2>2, Answered, EndImplements, SlotsStayed
  <2>3. CASE HealMessages(id, WithIds(msgs))
    <3>1. id \in Ids /\ msgs \in Seq(Message)
      BY <1>0, <2>1 DEF ServerTypes, TypeOK, SaneHandler, Request
    <3>2. CASE ~Exists(id)
      BY <1>0, <2>1, <2>3, <3>2, Answered, EndImplements, SlotsStayed DEF HealMessages
    <3>3. CASE Exists(id)
      <4> DEFINE new == [rows[id] EXCEPT !.messages = WithIds(msgs)]
      <4>1. rows[id] \in Row /\ rows' = [rows EXCEPT ![id] = new]
        BY <1>0, <2>3, <3>1, <3>3 DEF HealMessages, Exists
      <4>2. WithIds(msgs) \in Seq(Message)
        BY <3>1, WithIdsProperties
      <4>3. new \in Row /\ new.messages = WithIds(msgs) /\ new.revision = rows[id].revision
        BY <4>1, <4>2 DEF Row
      <4> HIDE DEF new
      <4>4. LogOf(WithIds(msgs)) = LogOf(rows[id].messages)
        <5>1. CASE adverse
          BY <5>1 DEF LogOf
        <5>2. CASE ~adverse
          <6>1. rows[id].messages = msgs
            BY <2>1, <5>2 DEF ServerInv, LoopInv, Knows
          <6> QED
            BY <3>1, <5>2, <6>1, WithIdsProperties DEF LogOf
        <5> QED
          BY <5>1, <5>2
      <4>5. SlotOf(new) = SlotOf(rows[id])
        BY <4>1, <4>3, <4>4, SlotProperties
      <4>6. SlotsStay
        BY <1>0, <4>1, <4>5 DEF SlotsStay
      <4> QED
        BY <1>0, <2>1, <4>6, Answered, EndImplements
    <3> QED
      BY <3>2, <3>3
  <2> QED
    BY <1>3, <2>2, <2>3 DEF RespondDetail
<1> QED
  BY <1>1, <1>2, <1>3 DEF ReadStep

LEMMA WriteImplements ==
  ASSUME ServerTypes, NEW t \in Tabs, WriteStep(t), UNCHANGED <<scene, clock>>
  PROVE  Shared!Next
<1>0. IInv /\ StoreTypeOK /\ rows \in [Ids -> Row \cup {None}] /\ req[t] \in Request /\ view[t] \in View
  BY ServerTypesGive DEF ServerTypes, TypeOK, IInv
<1>1. CASE DeleteConversations(t)
  <2>1. PICK ids \in SUBSET Ids : Delete(ids) /\ AfterStore(t, [Idle EXCEPT !.at = "pointer", !.ids = ids])
    BY <1>1 DEF DeleteConversations
  <2>2. [Idle EXCEPT !.at = "pointer", !.ids = ids].at = "pointer"
    BY DEF Idle
  <2>3. TurnEnds(t)
    BY <2>1, <2>2, Ends
  <2>4. \A id \in Ids : SlotOf(rows'[id]) = IF id \in ids THEN AbsentRow ELSE SlotOf(rows[id])
    BY <2>1, SlotProperties DEF Delete
  <2> QED
    BY <2>3, <2>4, RemoveImplements DEF TurnEnds
<1>2. CASE CheckPointer(t)
  <2>1. Goto(t, "survivors").at = "survivors"
    BY <1>0 DEF Goto, Request
  <2> QED
    BY <1>2, <2>1, Ends, Answered, EndImplements, SlotsStayed DEF CheckPointer, TableUnchanged
<1>3. CASE ListSurvivors(t)
  <2>1. PICK next : AfterStore(t, [Goto(t, "write") EXCEPT !.id = next])
    BY <1>3 DEF ListSurvivors
  <2>2. [Goto(t, "write") EXCEPT !.id = next].at = "write"
    BY <1>0 DEF Goto, Request
  <2> QED
    BY <1>3, <2>1, <2>2, Ends, EndImplements, SlotsStayed DEF ListSurvivors, TableUnchanged
<1>4. CASE WritePointer(t) \/ SetActive(t) \/ FailTitle(t)
  <2>1. Respond(t) /\ UNCHANGED rows
    BY <1>4 DEF WritePointer, SetActive, FailTitle, TableUnchanged
  <2> QED
    BY <2>1, Answered, EndImplements, SlotsStayed
<1>5. CASE LoadForActive(t) \/ LoadForTitle(t)
  <2>1. \A id : /\ [Idle EXCEPT !.at = "activate", !.id = id].at = "activate"
               /\ [Idle EXCEPT !.at = "rename", !.id = id].at = "rename"
               /\ [Idle EXCEPT !.at = "title", !.id = id].at = "title"
    BY DEF Idle
  <2>2. ASSUME NEW r, AfterStore(t, r) \/ AfterYield(t, r), r.at \in {"activate", "rename", "title"}
        PROVE  TurnEnds(t)
    BY <2>2, Ends
  <2>3. TurnEnds(t)
    <3>1. CASE LoadForActive(t)
      BY <2>1, <2>2, <3>1 DEF LoadForActive
    <3>2. CASE LoadForTitle(t)
      BY <2>1, <2>2, <3>2 DEF LoadForTitle
    <3> QED
      BY <1>5, <3>1, <3>2
  <2>4. UNCHANGED rows
    BY <1>5 DEF LoadForActive, LoadForTitle, TableUnchanged
  <2> QED
    BY <2>3, <2>4, EndImplements, SlotsStayed
<1>6. CASE CreateForOverride(t)
  <2>1. PICK id \in Ids, effort \in Efforts \cup {None} :
          /\ SaveTurn(id, <<>>, None)
          /\ AfterStore(t, [Idle EXCEPT !.at = "override", !.id = id, !.effort = effort])
    BY <1>6 DEF CreateForOverride
  <2>2. [Idle EXCEPT !.at = "override", !.id = id, !.effort = effort].at = "override"
    BY DEF Idle
  <2>3. TurnEnds(t)
    BY <2>1, <2>2, Ends
  <2>4. Asked(req[t]) = NoTurn
    BY <1>6, AskedProperties DEF CreateForOverride, Starts
  <2>5. \A u \in Tabs : Asked(req'[u]) = Asked(req[u])
    BY <2>3, <2>4 DEF TurnEnds
  <2>6. CASE SaveOutcome(id, <<>>, None) = "created"
    <3>1. rows[id] = None /\ rows' = [rows EXCEPT ![id] = NewRow(<<>>)]
      BY <2>1, <2>6 DEF SaveTurn, SaveOutcome, Exists
    <3>2. NewRow(<<>>) \in Row /\ NewRow(<<>>).revision = 1
      BY <1>0, EmptySeq, NewRowType
    <3> QED
      BY <1>0, <2>5, <3>1, <3>2, CreateImplements
  <2>7. CASE SaveOutcome(id, <<>>, None) \in {"probed", "conflict"}
    BY <2>1, <2>3, <2>7, EndImplements, SlotsStayed DEF SaveTurn
  <2>8. SaveOutcome(id, <<>>, None) \in {"created", "probed"}
    BY DEF SaveOutcome
  <2> QED
    BY <2>6, <2>7, <2>8
<1>7. CASE SetOverride(t) \/ SetTitle(t)
  <2>1. Respond(t) /\ req[t].id \in Ids
    BY <1>7 DEF SetOverride, SetTitle, At, ServerTypes, SaneHandler
  <2>2. SlotsStay
    BY <1>0, <1>7, <2>1, ColumnStays DEF SetOverride, SetTitle, Request
  <2> QED
    BY <2>1, <2>2, Answered, EndImplements
<1>8. CASE Pin(t)
  <2>1. PICK id \in Ids, pinned \in BOOLEAN : SetPinned(id, pinned)
    BY <1>8 DEF Pin
  <2>2. SlotsStay
    BY <1>0, <2>1, ColumnStays
  <2>3. TurnEnds(t)
    BY <1>8 DEF Pin, TurnEnds
  <2> QED
    BY <2>2, <2>3, EndImplements
<1>9. CASE BranchConversation(t)
  <2>1. PICK newId \in Ids, through \in {None} \cup (0 .. Len(view[t].messages)) :
          Branch(view[t].id, newId, through, view[t].revision)
    BY <1>9 DEF BranchConversation
  <2>2. view[t].id \in Ids /\ through \in {None} \cup Nat /\ UNCHANGED req
    BY <1>0, <1>9, <2>1 DEF BranchConversation, View
  <2>3. CASE BranchOutcome(view[t].id, newId, through, view[t].revision) = "ok"
    <3>1. /\ Exists(view[t].id) /\ rows[newId] = None
          /\ through # None => through < Len(rows[view[t].id].messages)
      <4>1. rows[view[t].id] # None => rows[view[t].id].messages \in Seq(Message)
        BY <1>0, <2>2 DEF Row
      <4>2. rows[view[t].id] # None => Len(rows[view[t].id].messages) \in Nat
        BY <4>1, LenProperties
      <4> QED
        BY <2>2, <2>3, <4>2 DEF BranchOutcome, Exists
    <3>2. BranchRow(view[t].id, through) \in Row /\ BranchRow(view[t].id, through).revision = 1
      BY <1>0, <2>2, <3>1, BranchRowType
    <3>3. rows' = [rows EXCEPT ![newId] = BranchRow(view[t].id, through)]
      BY <2>1, <2>3 DEF Branch
    <3> QED
      BY <1>0, <2>2, <3>1, <3>2, <3>3, CreateImplements
  <2>4. CASE BranchOutcome(view[t].id, newId, through, view[t].revision) # "ok"
    <3>1. UNCHANGED rows
      BY <2>1, <2>4 DEF Branch
    <3>2. TurnEnds(t)
      BY <2>2 DEF TurnEnds
    <3> QED
      BY <3>1, <3>2, EndImplements, SlotsStayed
  <2> QED
    BY <2>3, <2>4
<1> QED
  BY <1>1, <1>2, <1>3, <1>4, <1>5, <1>6, <1>7, <1>8, <1>9 DEF WriteStep

LEMMA FaultImplements ==
  ASSUME ServerTypes, (\E t \in Tabs : StoreThrows(t)) \/ Crash, scene' = scene
  PROVE  Shared!Next
<1>1. ASSUME NEW t \in Tabs, StoreThrows(t) PROVE Shared!Next
  BY <1>1, Answered, EndImplements, SlotsStayed DEF StoreThrows, TableUnchanged
<1>2. CASE Crash
  <2>1. UNCHANGED rows /\ \A u \in Tabs : Asked(req'[u]) \in {NoTurn, Asked(req[u])}
    BY <1>2, AskedProperties DEF Crash, TableUnchanged
  <2>2. {} \in SUBSET Ids /\ \A id \in Ids : SlotOf(rows'[id]) = IF id \in {} THEN AbsentRow ELSE SlotOf(rows[id])
    BY <2>1
  <2> QED
    BY <2>1, <2>2, RemoveImplements
<1> QED
  BY <1>1, <1>2

LEMMA ServerImplements ==
  ASSUME ServerInv, [Next]_vars
  PROVE  [Shared!Next]_(Shared!sharedVars)
<1>1. CASE Next
  <2>1. UNCHANGED <<scene, clock>> /\ ServerTypes
    BY <1>1 DEF Next, ServerInv
  <2> QED
    BY <1>1, <2>1, ChatImplements, ReadImplements, WriteImplements, FaultImplements DEF Next
<1>2. CASE UNCHANGED vars
  <2>1. UNCHANGED <<scene, rows, req>>
    BY <1>2 DEF vars
  <2> QED
    BY <2>1, Seen DEF Shared!sharedVars
<1> QED
  BY <1>1, <1>2

(* The handlers serve their conversations as SharedRows promises, for any  *)
(* tabs, rows, turns and faults: nothing but a turn let in and stored on   *)
(* its base replaces a transcript (resolveChatPersistenceTarget, saveTurn). *)
THEOREM HandlersServeSharedRows == Spec => ServesSharedRows
<1>1. Init => Shared!Init
  <2> SUFFICES ASSUME Init PROVE Shared!Init
    OBVIOUS
  <2>1. \A t \in Tabs : req[t].at = "idle"
    BY IdleType DEF Init
  <2>2. PendingTurns = [t \in Tabs |-> NoTurn]
    BY <2>1 DEF PendingTurns, NoTurn
  <2>3. DOMAIN SharedTable = Ids
    BY DEF SharedTable
  <2> QED
    BY <2>2, <2>3 DEF Shared!Init, Shared!NoRequest, NoTurn
<1>2. ServerInv /\ [Next]_vars => [Shared!Next]_(Shared!sharedVars)
  BY ServerImplements
<1> QED
  BY <1>1, <1>2, LoopInvariance, PTL DEF Spec, ServesSharedRows, Shared!Spec
=============================================================================
