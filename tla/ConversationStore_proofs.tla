----------------------- MODULE ConversationStore_proofs -----------------------
(***************************************************************************)
(* Proofs about ConversationStore, for any ids, transcripts, override      *)
(* values and bounds: the table keeps its types, rows stay dated, and the  *)
(* table implements the port contract of TurnContract.                     *)
(***************************************************************************)
EXTENDS ConversationStore, SequenceTheorems, TLAPS

(* A stored row never claims a save from the future, so whatever is saved  *)
(* now is listed first.                                                    *)
RowsAreDated == \A id \in Live : rows[id].updatedAt <= clock

IInv == StoreTypeOK /\ RowsAreDated

-----------------------------------------------------------------------------
(* What the operations that build a row return. *)
LEMMA NewRowType ==
  ASSUME StoreTypeOK, NEW msgs \in Seq(Message)
  PROVE  /\ NewRow(msgs) \in Row
         /\ NewRow(msgs).revision = 1 /\ NewRow(msgs).updatedAt = clock
         /\ NewRow(msgs).model = None /\ NewRow(msgs).pinned = FALSE
<1>1. DeriveTitle(msgs) \in Titles
  BY DEF DeriveTitle, Titles
<1>2. clock \in Nat /\ FALSE \in BOOLEAN
  BY StoreAssumption DEF StoreTypeOK
<1> QED
  BY <1>1, <1>2 DEF NewRow, Row

LEMMA TurnRowType ==
  ASSUME StoreTypeOK, NEW row \in Row, NEW msgs \in Seq(Message)
  PROVE  /\ TurnRow(row, msgs) \in Row
         /\ TurnRow(row, msgs).revision = row.revision + 1
         /\ TurnRow(row, msgs).updatedAt = clock
         /\ TurnRow(row, msgs).messages = msgs
         /\ row.title \notin {EmptyTitle, Placeholder} => TurnRow(row, msgs).title = row.title
         /\ TurnRow(row, msgs).reasoning = row.reasoning
         /\ TurnRow(row, msgs).model = row.model
         /\ TurnRow(row, msgs).pinned = row.pinned
         /\ TurnRow(row, msgs).forkedFrom = row.forkedFrom
<1>1. DeriveTitle(msgs) \in Titles
  BY DEF DeriveTitle, Titles
<1>2. clock \in Nat /\ row.revision + 1 \in Nat
  BY StoreAssumption DEF StoreTypeOK, Row
<1> DEFINE title == IF row.title \in {EmptyTitle, Placeholder} THEN DeriveTitle(msgs) ELSE row.title
<1>3. title \in Titles
  BY <1>1 DEF Row
<1>4. TurnRow(row, msgs) =
        [row EXCEPT !.messages = msgs, !.title = title, !.revision = row.revision + 1,
                    !.updatedAt = clock]
  BY DEF TurnRow
<1>5. row.title \notin {EmptyTitle, Placeholder} => title = row.title
  OBVIOUS
<1> HIDE DEF title
<1> QED
  BY <1>2, <1>3, <1>4, <1>5 DEF Row

LEMMA BranchRowType ==
  ASSUME StoreTypeOK, NEW source \in Ids, Exists(source),
         NEW through \in {None} \cup Nat,
         through # None => through < Len(rows[source].messages)
  PROVE  /\ BranchRow(source, through) \in Row
         /\ BranchRow(source, through).revision = 1
         /\ BranchRow(source, through).updatedAt = clock
         /\ BranchRow(source, through).model = None
         /\ BranchRow(source, through).pinned = FALSE
<1>1. rows[source] \in Row
  BY DEF StoreTypeOK, Exists
<1> DEFINE prefix == IF through = None THEN rows[source].messages
                     ELSE SubSeq(rows[source].messages, 1, through + 1)
<1>2. prefix \in Seq(Message)
  <2>1. rows[source].messages \in Seq(Message)
    BY <1>1 DEF Row
  <2>2. ASSUME through # None PROVE SubSeq(rows[source].messages, 1, through + 1) \in Seq(Message)
    <3>1. through \in Nat /\ through + 1 \in 1 .. Len(rows[source].messages)
      BY <2>1, <2>2, StoreAssumption
    <3>2. \A i \in 1 .. through + 1 : rows[source].messages[i] \in Message
      BY <2>1, <3>1
    <3> QED
      BY <2>1, <3>1, <3>2, SubSeqProperties
  <2> QED
    BY <2>1, <2>2
<1>3. NewRow(prefix) \in Row /\ NewRow(prefix).revision = 1 /\ NewRow(prefix).updatedAt = clock
        /\ NewRow(prefix).model = None /\ NewRow(prefix).pinned = FALSE
  BY <1>2, NewRowType
<1>4. "branch" \in Titles /\ rows[source].reasoning \in Efforts \cup {None}
  BY <1>1 DEF Titles, Row
<1>5. BranchRow(source, through) =
        [NewRow(prefix) EXCEPT !.title      = IF through = None THEN "branch" ELSE @,
                               !.reasoning  = rows[source].reasoning,
                               !.forkedFrom = source]
  BY DEF BranchRow
<1> HIDE DEF prefix
<1> QED
  BY <1>3, <1>4, <1>5 DEF Row

-----------------------------------------------------------------------------
(* Every step of the store is one of the contract's, and keeps the         *)
(* invariant.  `Written' says so for a step that stores one row.           *)
Written(id, row) == rows' = [rows EXCEPT ![id] = row]

StepOK == StoreTypeOK' /\ RowsAreDated' /\ (Contract!Next \/ UNCHANGED rows)

(* A row saved now is listed first.                                        *)
LEMMA NewestWhenSavedNow ==
  ASSUME NEW id \in Ids, RowsAreDated', rows'[id].updatedAt = clock'
  PROVE  Contract!Newest(id)
  BY DEF RowsAreDated, Live, Exists, Contract!Newest

(* Storing a well-typed, dated row in place of one, or of nothing, keeps   *)
(* the invariant.                                                          *)
LEMMA WrittenKeepsIInv ==
  ASSUME IInv, NEW id \in Ids, NEW row \in Row, Written(id, row),
         row.updatedAt <= clock,
         UNCHANGED <<activeId, clock>>
  PROVE  /\ StoreTypeOK' /\ RowsAreDated'
         /\ rows'[id] = row /\ \A o \in Ids \ {id} : rows'[o] = rows[o]
  BY StoreAssumption DEF IInv, StoreTypeOK, RowsAreDated, Written, Live, Exists

(* A turn saved by any caller. *)
LEMMA SaveTurnStep ==
  ASSUME IInv, NEW id \in Ids, NEW msgs \in Seq(Message), NEW base,
         SaveTurn(id, msgs, base), UNCHANGED <<activeId, clock>>
  PROVE  StepOK
<1>1. CASE SaveOutcome(id, msgs, base) = "created"
  <2>1. ~Exists(id)
    BY <1>1 DEF SaveOutcome
  <2>2. Written(id, NewRow(msgs))
    BY <1>1 DEF SaveTurn, Written
  <2> DEFINE new == NewRow(msgs)
  <2>5. /\ new \in Row /\ new.revision = 1 /\ new.updatedAt = clock /\ new.updatedAt <= clock
        /\ new.model = None /\ new.pinned = FALSE
    <3>1. StoreTypeOK /\ clock \in Nat
      BY StoreAssumption DEF IInv, StoreTypeOK
    <3>2. /\ new \in Row /\ new.revision = 1 /\ new.updatedAt = clock
          /\ new.model = None /\ new.pinned = FALSE
      BY <3>1, NewRowType, Zenon
    <3> QED
      BY <3>1, <3>2
  <2> HIDE DEF new
  <2>3. /\ StoreTypeOK' /\ RowsAreDated'
        /\ rows'[id] = new /\ \A o \in Ids \ {id} : rows'[o] = rows[o]
    BY <2>2, <2>5, WrittenKeepsIInv DEF new
  <2>4. Contract!Born(id)
    <3>1. rows[id] = None /\ rows'[id] # None /\ rows'[id].revision = 1 /\ rows'[id].model = None
      BY <2>1, <2>3, <2>5, StoreAssumption DEF Exists
    <3>2. rows'[id].pinned = FALSE
      BY <2>3, <2>5
    <3>3. ~rows'[id].pinned
      BY <3>2, Zenon
    <3>4. Contract!Newest(id)
      BY <2>3, <2>5, NewestWhenSavedNow
    <3> QED
      BY <2>3, <3>1, <3>3, <3>4, Zenon DEF Contract!Born, Contract!OthersKept
  <2> QED
    BY <2>3, <2>4 DEF StepOK, Contract!Next
<1>2. CASE SaveOutcome(id, msgs, base) = "replaced"
  <2>1. Exists(id) /\ rows[id] \in Row /\ msgs # <<>>
    BY <1>2 DEF SaveOutcome, Exists, IInv, StoreTypeOK
  <2>2. Written(id, TurnRow(rows[id], msgs))
    BY <1>2 DEF SaveTurn, Written
  <2> DEFINE new == TurnRow(rows[id], msgs)
  <2>3. /\ new \in Row /\ new.revision = rows[id].revision + 1 /\ new.updatedAt = clock
        /\ rows[id].revision \in Nat /\ clock \in Nat
        /\ rows[id].updatedAt <= clock
    BY <2>1, TurnRowType DEF IInv, RowsAreDated, Live, StoreTypeOK, Row
  <2>4. StoreTypeOK' /\ RowsAreDated'
    BY <2>2, <2>3, WrittenKeepsIInv
  <2>5. rows'[id] = new /\ \A o \in Ids \ {id} : rows'[o] = rows[o]
    BY <2>2, <2>3, WrittenKeepsIInv
  <2>6. Contract!TurnSaved(id)
    <3>1. new # None /\ rows[id] # None
      BY <2>1, <2>3, StoreAssumption
    <3>2. \A f \in {"reasoning", "model", "pinned", "forkedFrom"} : new[f] = rows[id][f]
      BY <2>1, TurnRowType DEF IInv
    <3>3. rows[id].title \notin {"", "New conversation"} => new["title"] = rows[id]["title"]
      BY <2>1, TurnRowType DEF IInv, EmptyTitle, Placeholder
    <3>4. new.messages # <<>>
      BY <2>1, TurnRowType DEF IInv
    <3>5. Contract!Newest(id)
      BY <2>3, <2>4, <2>5, NewestWhenSavedNow
    <3> QED
      BY <2>3, <2>5, <3>1, <3>2, <3>3, <3>4, <3>5
      DEF Contract!TurnSaved, Contract!Present, Contract!Keeps, Contract!OthersKept
  <2> QED
    BY <2>4, <2>6 DEF StepOK, Contract!Next
<1>3. CASE SaveOutcome(id, msgs, base) \in {"probed", "conflict"}
  BY <1>3 DEF SaveTurn, StepOK, IInv, StoreTypeOK, RowsAreDated, Live, Exists
<1> QED
  BY <1>1, <1>2, <1>3 DEF SaveTurn

(* A branch of any source, validated or refused. *)
LEMMA BranchStep ==
  ASSUME IInv, NEW source \in Ids, NEW newId \in Ids, NEW through \in {None} \cup Nat, NEW base,
         Branch(source, newId, through, base), UNCHANGED <<activeId, clock>>
  PROVE  StepOK
<1>1. CASE BranchOutcome(source, newId, through, base) = "ok"
  <2>1. /\ Exists(source) /\ ~Exists(newId)
        /\ through # None => through < Len(rows[source].messages)
    BY <1>1 DEF BranchOutcome
  <2>2. Written(newId, BranchRow(source, through))
    BY <1>1 DEF Branch, Written
  <2> DEFINE new == BranchRow(source, through)
  <2>3. StoreTypeOK /\ clock \in Nat
    BY StoreAssumption DEF IInv, StoreTypeOK
  <2>4. /\ new \in Row /\ new.revision = 1 /\ new.updatedAt = clock
        /\ new.model = None /\ new.pinned = FALSE
    BY <2>1, <2>3, BranchRowType, Zenon
  <2> HIDE DEF new
  <2>5. new.updatedAt <= clock
    BY <2>3, <2>4
  <2>6. /\ StoreTypeOK' /\ RowsAreDated'
        /\ rows'[newId] = new /\ \A o \in Ids \ {newId} : rows'[o] = rows[o]
    BY <2>2, <2>4, <2>5, WrittenKeepsIInv DEF new
  <2>7. Contract!Born(newId)
    <3>1. rows[newId] = None /\ rows'[newId] # None
      BY <2>1, <2>4, <2>6, StoreAssumption DEF Exists
    <3>2. rows'[newId].revision = 1 /\ rows'[newId].model = None
      BY <2>4, <2>6
    <3>3. rows'[newId].pinned = FALSE
      BY <2>4, <2>6
    <3>4. ~rows'[newId].pinned
      BY <3>3, Zenon
    <3>5. Contract!Newest(newId)
      BY <2>4, <2>6, NewestWhenSavedNow
    <3> QED
      BY <2>6, <3>1, <3>2, <3>4, <3>5, Zenon DEF Contract!Born, Contract!OthersKept
  <2> QED
    BY <2>6, <2>7 DEF StepOK, Contract!Next
<1>2. CASE BranchOutcome(source, newId, through, base) # "ok"
  BY <1>2 DEF Branch, StepOK, IInv, StoreTypeOK, RowsAreDated, Live, Exists
<1> QED
  BY <1>1, <1>2

(* A single-column update of a stored row, or of an absent one. *)
LEMMA ColumnStep ==
  ASSUME IInv, NEW id \in Ids, NEW row \in Row,
         rows' = IF Exists(id) THEN [rows EXCEPT ![id] = row] ELSE rows,
         Exists(id) => /\ row.revision = rows[id].revision
                       /\ row.updatedAt = rows[id].updatedAt
                       /\ row.forkedFrom = rows[id].forkedFrom,
         UNCHANGED <<activeId, clock>>
  PROVE  StepOK
<1>1. CASE Exists(id)
  <2>1. Written(id, row)
    BY <1>1 DEF Written
  <2>2. row.updatedAt <= clock
    BY <1>1 DEF IInv, RowsAreDated, Live
  <2>3. /\ StoreTypeOK' /\ RowsAreDated'
        /\ rows'[id] = row /\ \A o \in Ids \ {id} : rows'[o] = rows[o]
    BY <2>1, <2>2, WrittenKeepsIInv
  <2>4. Contract!ColumnUpdated(id)
    BY <1>1, <2>3, StoreAssumption
    DEF Contract!ColumnUpdated, Contract!Present, Contract!Keeps, Contract!OthersKept, Exists
  <2> QED
    BY <2>3, <2>4 DEF StepOK, Contract!Next
<1>2. CASE ~Exists(id)
  BY <1>2 DEF StepOK, IInv, StoreTypeOK, RowsAreDated, Live, Exists
<1> QED
  BY <1>1, <1>2

(* Each of the five column updates is one. *)
LEMMA ColumnUpdateStep ==
  ASSUME IInv, NEW id \in Ids, UNCHANGED <<activeId, clock>>,
         \/ \E title \in UserTitles : Rename(id, title)
         \/ \E pinned \in BOOLEAN : SetPinned(id, pinned)
         \/ \E msgs \in Seq(Message) : HealMessages(id, msgs)
         \/ \E effort \in Efforts \cup {None} : SetReasoningOverride(id, effort)
         \/ \E model \in Models \cup {None} : SetModelOverride(id, model)
  PROVE  StepOK
<1> DEFINE SameToken(row) == /\ row \in Row
                             /\ row.revision = rows[id].revision
                             /\ row.updatedAt = rows[id].updatedAt
                             /\ row.forkedFrom = rows[id].forkedFrom
<1>1. CASE ~Exists(id)
  <2>1. rows' = rows
    BY <1>1 DEF Rename, SetPinned, HealMessages, SetReasoningOverride, SetModelOverride
  <2> QED
    BY <2>1 DEF StepOK, IInv, StoreTypeOK, RowsAreDated, Live, Exists
<1>2. CASE Exists(id)
  <2>1. rows[id] \in Row
    BY <1>2 DEF IInv, StoreTypeOK, Exists
  <2>2. ASSUME NEW row, SameToken(row), rows' = [rows EXCEPT ![id] = row] PROVE StepOK
    BY <1>2, <2>2, ColumnStep
  <2>3. ASSUME NEW title \in UserTitles, Rename(id, title) PROVE StepOK
    <3>1. SameToken([rows[id] EXCEPT !.title = title])
      BY <2>1 DEF Row, Titles
    <3> QED
      BY <1>2, <2>2, <2>3, <3>1 DEF Rename
  <2>4. ASSUME NEW pinned \in BOOLEAN, SetPinned(id, pinned) PROVE StepOK
    <3>1. SameToken([rows[id] EXCEPT !.pinned = pinned])
      BY <2>1 DEF Row
    <3> QED
      BY <1>2, <2>2, <2>4, <3>1 DEF SetPinned
  <2>5. ASSUME NEW msgs \in Seq(Message), HealMessages(id, msgs) PROVE StepOK
    <3>1. SameToken([rows[id] EXCEPT !.messages = msgs])
      BY <2>1 DEF Row
    <3> QED
      BY <1>2, <2>2, <2>5, <3>1 DEF HealMessages
  <2>6. ASSUME NEW effort \in Efforts \cup {None}, SetReasoningOverride(id, effort) PROVE StepOK
    <3>1. SameToken([rows[id] EXCEPT !.reasoning = effort])
      BY <2>1 DEF Row
    <3> QED
      BY <1>2, <2>2, <2>6, <3>1 DEF SetReasoningOverride
  <2>7. ASSUME NEW model \in Models \cup {None}, SetModelOverride(id, model) PROVE StepOK
    <3>1. SameToken([rows[id] EXCEPT !.model = model])
      BY <2>1 DEF Row
    <3> QED
      BY <1>2, <2>2, <2>7, <3>1 DEF SetModelOverride
  <2> QED
    BY <2>3, <2>4, <2>5, <2>6, <2>7
<1> QED
  BY <1>1, <1>2

(* Any conversations are deleted. *)
LEMMA DeleteStep ==
  ASSUME IInv, NEW ids \in SUBSET Ids, Delete(ids), UNCHANGED <<activeId, clock>>
  PROVE  StepOK
<1>1. rows' = [id \in Ids |-> IF id \in ids THEN None ELSE rows[id]]
  BY DEF Delete
<1>2. Contract!Deleted
  BY <1>1 DEF Contract!Deleted
<1>3. StoreTypeOK' /\ RowsAreDated'
  BY <1>1 DEF IInv, StoreTypeOK, RowsAreDated, Live, Exists
<1> QED
  BY <1>2, <1>3 DEF StepOK, Contract!Next

(* The pointer moves, or nothing does. *)
LEMMA PointerStep ==
  ASSUME IInv, activeId' \in Ids \cup {None}, UNCHANGED <<rows, clock>>
  PROVE  StepOK
  BY DEF StepOK, IInv, StoreTypeOK, RowsAreDated, Live, Exists

-----------------------------------------------------------------------------
LEMMA StoreStep == IInv /\ [StoreNext]_storeVars => StepOK
<1> SUFFICES ASSUME IInv, [StoreNext]_storeVars PROVE StepOK
  OBVIOUS
<1>1. CASE CallSaveTurn
  BY <1>1, SaveTurnStep, StoreAssumption DEF CallSaveTurn
<1>2. CASE CallBranch
  BY <1>2, BranchStep DEF CallBranch
<1>3. CASE CallColumnUpdate
  BY <1>3, ColumnUpdateStep, StoreAssumption DEF CallColumnUpdate
<1>4. CASE CallDelete
  BY <1>4, DeleteStep DEF CallDelete
<1>5. CASE CallSetActive
  BY <1>5, PointerStep DEF CallSetActive, SetActiveId
<1>6. CASE Tick
  <2>1. clock \in Nat /\ clock' = clock + 1 /\ clock' \in 0 .. MaxClock /\ UNCHANGED <<rows, activeId>>
    BY <1>6, StoreAssumption DEF Tick, IInv, StoreTypeOK
  <2>2. \A id \in Live : rows[id] \in Row
    BY DEF Live, Exists, IInv, StoreTypeOK
  <2>3. \A id \in Live : rows[id].updatedAt \in Nat
    BY <2>2 DEF Row
  <2> QED
    BY <2>1, <2>3 DEF StepOK, IInv, StoreTypeOK, RowsAreDated, Live, Exists
<1>7. CASE UNCHANGED storeVars
  BY <1>7 DEF storeVars, StepOK, IInv, StoreTypeOK, RowsAreDated, Live, Exists
<1> QED
  BY <1>1, <1>2, <1>3, <1>4, <1>5, <1>6, <1>7 DEF StoreNext

LEMMA StoreInitIInv == StoreInit => IInv
  BY StoreAssumption DEF StoreInit, IInv, StoreTypeOK, RowsAreDated, Live, Exists

LEMMA Invariance == StoreSpec => []IInv
<1>1. IInv /\ [StoreNext]_storeVars => IInv'
  BY StoreStep DEF StepOK, IInv
<1> QED
  BY <1>1, StoreInitIInv, PTL DEF StoreSpec

(* The table, the pointer and the clock keep their types. *)
THEOREM StoreTypes == StoreSpec => []StoreTypeOK
<1>1. IInv => StoreTypeOK
  BY DEF IInv
<1> QED
  BY <1>1, Invariance, PTL

(* The table implements the port's contract on which columns move together. *)
THEOREM ImplementsPortContract == StoreSpec => PortContract
<1>1. StoreInit => Contract!Init
  BY DEF StoreInit, Contract!Init
<1>2. IInv /\ [StoreNext]_storeVars => [Contract!Next]_rows
  BY StoreStep DEF StepOK
<1> QED
  BY <1>1, <1>2, Invariance, PTL DEF StoreSpec, PortContract, Contract!Spec
=============================================================================
