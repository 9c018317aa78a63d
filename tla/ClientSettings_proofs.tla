------------------------- MODULE ClientSettings_proofs -------------------------
(***************************************************************************)
(* The settings writes of a browser tab keep the promise of WriteLane, for *)
(* any connections and any number of writes and loads: a user's writes     *)
(* reach the server one at a time, each at most once and in order.  That   *)
(* only the head of the queue runs, LaneInv, is why.  And a tab at rest    *)
(* shows the stored settings.                                              *)
(***************************************************************************)
EXTENDS ClientSettings, SequenceTheorems, TLAPS

-----------------------------------------------------------------------------
(* Every write has a number within the bound. *)
LEMMA WriteNumber ==
  ASSUME NEW write \in SettingsWrite
  PROVE  write.n \in WriteNumbers
BY DEF SettingsWrite

(* The numbers of a queue of writes. *)
LEMMA NumbersSeq ==
  ASSUME NEW queue \in Seq(SettingsWrite)
  PROVE  /\ NumbersOf(queue) \in Seq(WriteNumbers) /\ Len(NumbersOf(queue)) = Len(queue)
         /\ \A i \in 1 .. Len(queue) : NumbersOf(queue)[i] = queue[i].n
<1>1. \A i \in 1 .. Len(queue) : queue[i].n \in WriteNumbers
  BY WriteNumber
<1>2. NumbersOf(queue) \in [1 .. Len(queue) -> WriteNumbers] /\ Len(queue) \in Nat
  BY <1>1 DEF NumbersOf
<1>3. NumbersOf(queue) \in Seq(WriteNumbers)
  BY <1>2, SeqDef
<1>4. Len(NumbersOf(queue)) = Len(queue)
  BY <1>2, <1>3, LenProperties
<1> QED
  BY <1>3, <1>4 DEF NumbersOf

(* Joining the queue and taking the numbers commute; so do leaving it and taking them. *)
LEMMA NumbersAppend ==
  ASSUME NEW queue \in Seq(SettingsWrite), NEW write \in SettingsWrite
  PROVE  NumbersOf(Append(queue, write)) = Append(NumbersOf(queue), write.n)
<1>1. Append(queue, write) \in Seq(SettingsWrite) /\ write.n \in WriteNumbers
     /\ Len(Append(queue, write)) = Len(queue) + 1
  BY WriteNumber
<1> DEFINE more == NumbersOf(Append(queue, write))
           then == Append(NumbersOf(queue), write.n)
<1>2. /\ more \in Seq(WriteNumbers) /\ Len(more) = Len(queue) + 1
      /\ \A i \in 1 .. Len(more) : more[i] = Append(queue, write)[i].n
  <2>1. /\ more \in Seq(WriteNumbers) /\ Len(more) = Len(Append(queue, write))
        /\ \A i \in 1 .. Len(Append(queue, write)) : more[i] = Append(queue, write)[i].n
    BY <1>1, NumbersSeq
  <2> QED
    BY <1>1, <2>1
<1>3. /\ then \in Seq(WriteNumbers) /\ Len(then) = Len(queue) + 1
      /\ \A i \in 1 .. Len(then) : then[i] = IF i <= Len(queue) THEN queue[i].n ELSE write.n
  <2>1. NumbersOf(queue) \in Seq(WriteNumbers) /\ Len(NumbersOf(queue)) = Len(queue)
        /\ \A i \in 1 .. Len(queue) : NumbersOf(queue)[i] = queue[i].n
    BY NumbersSeq
  <2> QED
    BY <1>1, <2>1
<1>4. \A i \in 1 .. Len(more) : more[i] = then[i]
  BY <1>2, <1>3
<1> HIDE DEF more, then
<1>5. more = then
  BY <1>2, <1>3, <1>4, SeqEqual
<1> QED
  BY <1>5 DEF more, then

LEMMA NumbersTail ==
  ASSUME NEW queue \in Seq(SettingsWrite), queue # <<>>
  PROVE  /\ NumbersOf(queue) # <<>> /\ Head(NumbersOf(queue)) = queue[1].n
         /\ NumbersOf(Tail(queue)) = Tail(NumbersOf(queue))
<1>1. Tail(queue) \in Seq(SettingsWrite) /\ Len(Tail(queue)) = Len(queue) - 1 /\ Len(queue) > 0
  OBVIOUS
<1>2. NumbersOf(queue) # <<>> /\ Head(NumbersOf(queue)) = queue[1].n
  BY <1>1, NumbersSeq
<1> DEFINE less == NumbersOf(Tail(queue))
           rest == Tail(NumbersOf(queue))
<1>3. /\ less \in Seq(WriteNumbers) /\ Len(less) = Len(queue) - 1
      /\ \A i \in 1 .. Len(less) : less[i] = queue[i + 1].n
  <2>1. /\ less \in Seq(WriteNumbers) /\ Len(less) = Len(Tail(queue))
        /\ \A i \in 1 .. Len(Tail(queue)) : less[i] = Tail(queue)[i].n
    BY <1>1, NumbersSeq
  <2>2. \A i \in 1 .. Len(Tail(queue)) : Tail(queue)[i] = queue[i + 1]
    BY HeadTailProperties
  <2> QED
    BY <1>1, <2>1, <2>2
<1>4. /\ rest \in Seq(WriteNumbers) /\ Len(rest) = Len(queue) - 1
      /\ \A i \in 1 .. Len(rest) : rest[i] = queue[i + 1].n
  <2>1. NumbersOf(queue) \in Seq(WriteNumbers) /\ Len(NumbersOf(queue)) = Len(queue)
        /\ \A i \in 1 .. Len(queue) : NumbersOf(queue)[i] = queue[i].n
    BY NumbersSeq
  <2>2. /\ rest \in Seq(WriteNumbers) /\ Len(rest) = Len(NumbersOf(queue)) - 1
        /\ \A i \in 1 .. Len(rest) : rest[i] = NumbersOf(queue)[i + 1]
    BY <1>2, <2>1, HeadTailProperties
  <2> QED
    BY <1>1, <2>1, <2>2
<1> HIDE DEF less, rest
<1>5. less = rest
  BY <1>3, <1>4, SeqEqual
<1> QED
  BY <1>2, <1>5 DEF less, rest

(* Moving a write on does not renumber the queue. *)
LEMMA NumbersKept ==
  ASSUME NEW queue \in Seq(SettingsWrite), NEW moved \in Seq(SettingsWrite), Len(moved) = Len(queue),
         \A i \in 1 .. Len(queue) : moved[i].n = queue[i].n
  PROVE  NumbersOf(moved) = NumbersOf(queue)
BY DEF NumbersOf

(* A settled write leaves from the head. *)
LEMMA RemoveHead ==
  ASSUME NEW queue \in Seq(SettingsWrite), queue # <<>>
  PROVE  RemoveAt(queue, 1) = Tail(queue)
<1>1. SubSeq(queue, 1, 0) = <<>>
  BY SubSeqEmpty
<1>2. SubSeq(queue, 2, Len(queue)) = Tail(queue) /\ Tail(queue) \in Seq(SettingsWrite)
  BY TailIsSubSeq
<1>3. <<>> \o Tail(queue) = Tail(queue)
  BY <1>2, ConcatEmptySeq
<1> QED
  BY <1>1, <1>2, <1>3 DEF RemoveAt

-----------------------------------------------------------------------------
(* The settings stay settings, whatever a write makes of them. *)
LEMMA TreeTypes ==
  ASSUME NEW tree \in SettingsTree, NEW write \in SettingsWrite
  PROVE  PatchedTree(tree, write) \in SettingsTree /\ Optimistic(tree, write) \in SettingsTree
<1>1. /\ write.n \in 0 .. MaxSettingsWrites /\ write.link \in Links /\ write.to \in LinkStates
      /\ write.wire \in [Links -> LinkStates]
  BY ClientSettingsAssumption DEF SettingsWrite, WriteNumbers
<1>2. /\ tree.on \in [Links -> LinkStates] /\ tree.keys \in SUBSET Links
      /\ tree.pref \in 0 .. MaxSettingsWrites /\ tree.fresh \in BOOLEAN
  BY DEF SettingsTree
<1>3. PatchedTree(tree, write) \in SettingsTree
  BY <1>1, <1>2 DEF PatchedTree, SettingsTree
<1>4. [tree.on EXCEPT ![write.link] = write.to] \in [Links -> LinkStates]
  BY <1>1, <1>2
<1>5. tree.keys \ {write.link} \in SUBSET Links /\ tree.keys \cup {write.link} \in SUBSET Links
  BY <1>1, <1>2
<1>6. Optimistic(tree, write) \in SettingsTree
  BY <1>1, <1>2, <1>4, <1>5 DEF Optimistic, SettingsTree
<1> QED
  BY <1>3, <1>6

(* The defaults are settings. *)
LEMMA DefaultTreeType == DefaultTree \in SettingsTree
BY ClientSettingsAssumption DEF DefaultTree, SettingsTree, LinkStates

(* A new write is well typed and takes the next number. *)
LEMMA QueuedType ==
  ASSUME ClientSettingsTypeOK, issuedSoFar < MaxSettingsWrites,
         NEW kind \in {"edit", "pref", "fx", "key"}, NEW link \in Links, NEW to \in LinkStates,
         NEW secret \in BOOLEAN
  PROVE  /\ Queued(kind, link, to, secret) \in SettingsWrite
         /\ Queued(kind, link, to, secret).n = issuedSoFar + 1
         /\ Queued(kind, link, to, secret).at = "queued"
<1>1. issuedSoFar + 1 \in WriteNumbers
  BY ClientSettingsAssumption DEF ClientSettingsTypeOK, WriteNumbers
<1>2. [view.on EXCEPT ![link] = to] \in [Links -> LinkStates]
  BY DEF ClientSettingsTypeOK, SettingsTree
<1> QED
  BY <1>1, <1>2, DefaultTreeType DEF Queued, SettingsWrite

-----------------------------------------------------------------------------
(* What holds of the queue in one state. *)
LEMMA LaneFacts ==
  ASSUME ClientSettingsTypeOK, LaneInv
  PROVE  /\ lane \in Seq(SettingsWrite) /\ Len(lane) \in Nat /\ inOrder \in Seq(WriteNumbers)
         /\ \A i \in 1 .. Len(lane) : lane[i] \in SettingsWrite /\ lane[i].n \in Nat
         /\ \A k \in 1 .. Len(inOrder) : inOrder[k] \in Nat
         /\ \A i \in 1 .. Len(lane) : lane[i].at # "queued" => i = 1
         /\ issuedSoFar \in Nat /\ MaxSettingsWrites \in Nat
<1>1. \A i \in 1 .. Len(lane) : lane[i] \in SettingsWrite
  BY DEF ClientSettingsTypeOK
<1>2. \A i \in 1 .. Len(lane) : lane[i].n \in Nat
  BY <1>1, WriteNumber DEF WriteNumbers
<1>3. \A k \in 1 .. Len(inOrder) : inOrder[k] \in Nat
  <2>1. \A k \in 1 .. Len(inOrder) : inOrder[k] \in WriteNumbers
    BY ElementOfSeq DEF ClientSettingsTypeOK
  <2> QED
    BY <2>1 DEF WriteNumbers
<1> QED
  BY <1>1, <1>2, <1>3, ClientSettingsAssumption DEF ClientSettingsTypeOK, LaneInv

(* The queue after a step keeps its type and its order, and the step is    *)
(* one of WriteLane's.                                                     *)
LaneOK ==
  /\ lane' \in Seq(SettingsWrite) /\ issuedSoFar' \in 0 .. MaxSettingsWrites /\ inOrder' \in Seq(WriteNumbers)
  /\ LaneInv'
  /\ Promise!LaneNext \/ UNCHANGED Promise!LaneVars

(* A step that leaves the queue alone keeps it in order. *)
LEMMA NothingMoved ==
  ASSUME ClientSettingsTypeOK, LaneInv, UNCHANGED <<lane, issuedSoFar, inOrder>>
  PROVE  LaneOK
BY DEF LaneOK, ClientSettingsTypeOK, LaneInv, Promise!LaneVars

(* A new write joins the end of the queue. *)
LEMMA Joined ==
  ASSUME ClientSettingsTypeOK, LaneInv, issuedSoFar < MaxSettingsWrites,
         NEW write \in SettingsWrite, write.n = issuedSoFar + 1, write.at = "queued",
         JoinLane(write), UNCHANGED inOrder
  PROVE  LaneOK
<1>0. /\ lane \in Seq(SettingsWrite) /\ Len(lane) \in Nat
      /\ \A i \in 1 .. Len(lane) : lane[i].n \in Nat
      /\ \A k \in 1 .. Len(inOrder) : inOrder[k] \in Nat
      /\ issuedSoFar \in Nat /\ MaxSettingsWrites \in Nat
  BY LaneFacts
<1>1. /\ lane' = Append(lane, write) /\ issuedSoFar' = issuedSoFar + 1
      /\ issuedSoFar' \in 0 .. MaxSettingsWrites
  BY LaneFacts DEF JoinLane, ClientSettingsTypeOK
<1>2. /\ lane' \in Seq(SettingsWrite) /\ Len(lane') = Len(lane) + 1
      /\ \A i \in 1 .. Len(lane) : lane'[i] = lane[i]
      /\ lane'[Len(lane')] = write
  BY <1>1, LaneFacts
<1>3. LaneInv'
  <2>0. Len(lane') \in Nat /\ \A i \in 1 .. Len(lane') : i \in 1 .. Len(lane) \/ i = Len(lane) + 1
    BY <1>0, <1>2
  <2>1. \A i \in 1 .. Len(lane') : lane'[i].at = "queued" \/ i = 1
    BY <1>0, <1>2, <2>0 DEF LaneInv
  <2>2. ASSUME NEW i \in 1 .. Len(lane'), NEW j \in 1 .. Len(lane'), i < j
        PROVE  lane'[i].n < lane'[j].n
    <3>1. i \in 1 .. Len(lane) /\ lane'[i] = lane[i] /\ lane[i].n <= issuedSoFar /\ lane[i].n \in Nat
      BY <1>0, <1>2, <2>2 DEF LaneInv
    <3>2. CASE j \in 1 .. Len(lane)
      BY <1>2, <2>2, <3>1, <3>2 DEF LaneInv
    <3>3. CASE j = Len(lane')
      BY <1>0, <1>2, <3>1, <3>3
    <3> QED
      BY <1>2, <2>0, <3>2, <3>3
  <2>3. \A i \in 1 .. Len(lane') : lane'[i].n <= issuedSoFar'
    BY <1>0, <1>1, <1>2, <2>0 DEF LaneInv
  <2>4. ASSUME NEW k \in 1 .. Len(inOrder), NEW i \in 1 .. Len(lane'), lane'[i].at # "applied"
        PROVE  inOrder[k] < lane'[i].n
    <3>1. inOrder[k] \in Nat /\ inOrder[k] <= issuedSoFar
      BY <1>0 DEF LaneInv
    <3>2. CASE i \in 1 .. Len(lane)
      BY <1>2, <2>4, <3>2 DEF LaneInv
    <3>3. CASE i = Len(lane')
      BY <1>0, <1>2, <3>1, <3>3
    <3> QED
      BY <1>2, <2>0, <3>2, <3>3
  <2>5. \A k \in 1 .. Len(inOrder) : inOrder[k] <= issuedSoFar'
    BY <1>0, <1>1 DEF LaneInv
  <2> QED
    BY <2>1, <2>2, <2>3, <2>4, <2>5 DEF LaneInv
<1>4. Promise!Issue
  BY <1>1, NumbersAppend, LaneFacts, WriteNumber DEF Promise!Issue
<1> QED
  BY <1>1, <1>2, <1>3, <1>4 DEF LaneOK, Promise!LaneNext, ClientSettingsTypeOK

(* The head settles. *)
LEMMA Settled ==
  ASSUME ClientSettingsTypeOK, LaneInv, lane # <<>>,
         lane' = Tail(lane), UNCHANGED <<issuedSoFar, inOrder>>
  PROVE  LaneOK
<1>0. /\ lane \in Seq(SettingsWrite) /\ Len(lane) \in Nat
      /\ \A i \in 1 .. Len(lane) : lane[i].n \in Nat
      /\ \A k \in 1 .. Len(inOrder) : inOrder[k] \in Nat
      /\ issuedSoFar \in Nat /\ MaxSettingsWrites \in Nat
  BY LaneFacts
<1>1. /\ lane' \in Seq(SettingsWrite) /\ Len(lane') = Len(lane) - 1
      /\ \A i \in 1 .. Len(lane') : i + 1 \in 1 .. Len(lane) /\ lane'[i] = lane[i + 1]
  BY <1>0, HeadTailProperties
<1>2. LaneInv'
  <2>1. \A i \in 1 .. Len(lane') : lane'[i].at = "queued" /\ lane'[i].n <= issuedSoFar'
    BY <1>0, <1>1 DEF LaneInv
  <2>2. \A i, j \in 1 .. Len(lane') : i < j => lane'[i].n < lane'[j].n
    BY <1>0, <1>1 DEF LaneInv
  <2>3. \A k \in 1 .. Len(inOrder) :
          /\ inOrder[k] <= issuedSoFar'
          /\ \A i \in 1 .. Len(lane') : lane'[i].at # "applied" => inOrder[k] < lane'[i].n
    BY <1>0, <1>1 DEF LaneInv
  <2> QED
    BY <2>1, <2>2, <2>3 DEF LaneInv
<1>3. Promise!Settle
  BY <1>0, NumbersTail DEF Promise!Settle
<1> QED
  BY <1>1, <1>2, <1>3 DEF LaneOK, Promise!LaneNext, ClientSettingsTypeOK

(* The queue after one more write. *)
LEMMA AppendedWrite ==
  ASSUME NEW rest \in Seq(SettingsWrite), NEW write \in SettingsWrite
  PROVE  /\ Append(rest, write) \in Seq(SettingsWrite) /\ Len(Append(rest, write)) = Len(rest) + 1
         /\ \A i \in 1 .. Len(rest) : Append(rest, write)[i] = rest[i]
         /\ Append(rest, write)[Len(rest) + 1] = write
OBVIOUS

(* A queue that lost its head and got a new last write is in order. *)
LEMMA ShiftedInv ==
  ASSUME ClientSettingsTypeOK, LaneInv, lane # <<>>,
         NEW write, write.n = issuedSoFar + 1, write.at = "queued",
         issuedSoFar' = issuedSoFar + 1, inOrder' = inOrder, Len(lane') = Len(lane),
         \A i \in 1 .. Len(lane) : i < Len(lane) => i + 1 \in 1 .. Len(lane) /\ lane'[i] = lane[i + 1],
         lane'[Len(lane)] = write
  PROVE  LaneInv'
<1>0. /\ lane \in Seq(SettingsWrite) /\ Len(lane) \in Nat
      /\ \A i \in 1 .. Len(lane) : lane[i].n \in Nat
      /\ \A k \in 1 .. Len(inOrder) : inOrder[k] \in Nat
      /\ issuedSoFar \in Nat /\ MaxSettingsWrites \in Nat
  BY LaneFacts
<1>order. \A i \in 1 .. Len(lane) : i < Len(lane) \/ i = Len(lane)
  BY <1>0
<1>1. \A i \in 1 .. Len(lane) : lane'[i].at = "queued" /\ lane'[i].n <= issuedSoFar'
  BY <1>0 DEF LaneInv
<1>2. ASSUME NEW i \in 1 .. Len(lane), NEW j \in 1 .. Len(lane), i < j
      PROVE  lane'[i].n < lane'[j].n
  <2>1. i + 1 \in 1 .. Len(lane) /\ lane'[i] = lane[i + 1] /\ lane[i + 1].n <= issuedSoFar /\ lane[i + 1].n \in Nat
    BY <1>0, <1>2 DEF LaneInv
  <2>2. CASE j < Len(lane)
    BY <1>0, <1>2, <2>1, <2>2 DEF LaneInv
  <2>3. CASE j = Len(lane)
    BY <1>0, <2>1, <2>3
  <2> QED
    BY <2>2, <2>3
<1>3. ASSUME NEW k \in 1 .. Len(inOrder), NEW i \in 1 .. Len(lane)
      PROVE  inOrder[k] < lane'[i].n
  <2>1. inOrder[k] \in Nat /\ inOrder[k] <= issuedSoFar
    BY <1>0 DEF LaneInv
  <2>2. CASE i < Len(lane)
    <3>1. i + 1 \in 1 .. Len(lane) /\ i + 1 # 1 /\ lane'[i] = lane[i + 1]
      BY <1>0, <2>2
    <3>2. lane[i + 1].at = "queued"
      BY <3>1 DEF LaneInv
    <3> QED
      BY <3>1, <3>2 DEF LaneInv
  <2>3. CASE i = Len(lane)
    BY <1>0, <2>1, <2>3
  <2> QED
    BY <2>2, <2>3
<1>4. \A k \in 1 .. Len(inOrder) : inOrder[k] <= issuedSoFar'
  BY <1>0 DEF LaneInv
<1> QED
  BY <1>1, <1>2, <1>3, <1>4 DEF LaneInv

(* The head settles and brings a follow-up write with it. *)
LEMMA SettledWithFollowUp ==
  ASSUME ClientSettingsTypeOK, LaneInv, lane # <<>>, issuedSoFar < MaxSettingsWrites,
         NEW write \in SettingsWrite, write.n = issuedSoFar + 1, write.at = "queued",
         lane' = Append(Tail(lane), write), issuedSoFar' = issuedSoFar + 1, UNCHANGED inOrder
  PROVE  LaneOK
<1>0. /\ lane \in Seq(SettingsWrite) /\ Len(lane) \in Nat
      /\ \A i \in 1 .. Len(lane) : lane[i].n \in Nat
      /\ \A k \in 1 .. Len(inOrder) : inOrder[k] \in Nat
      /\ issuedSoFar \in Nat /\ MaxSettingsWrites \in Nat
  BY LaneFacts
<1>1. /\ Tail(lane) \in Seq(SettingsWrite) /\ Len(Tail(lane)) = Len(lane) - 1
      /\ \A i \in 1 .. Len(Tail(lane)) : Tail(lane)[i] = lane[i + 1]
  BY <1>0, HeadTailProperties
<1>2. /\ lane' \in Seq(SettingsWrite) /\ Len(lane') = Len(lane)
      /\ \A i \in 1 .. Len(lane) : i < Len(lane) => i + 1 \in 1 .. Len(lane) /\ lane'[i] = lane[i + 1]
      /\ lane'[Len(lane)] = write
  <2>1. /\ lane' \in Seq(SettingsWrite) /\ Len(lane') = Len(Tail(lane)) + 1
        /\ \A i \in 1 .. Len(Tail(lane)) : lane'[i] = Tail(lane)[i]
        /\ lane'[Len(Tail(lane)) + 1] = write
    BY <1>1, AppendedWrite
  <2>2. \A i \in 1 .. Len(lane) : i < Len(lane) => i \in 1 .. Len(Tail(lane)) /\ i + 1 \in 1 .. Len(lane)
    BY <1>0, <1>1
  <2>3. Len(Tail(lane)) + 1 = Len(lane)
    BY <1>0, <1>1
  <2> QED
    BY <1>1, <2>1, <2>2, <2>3, Zenon
<1>3. LaneInv'
  BY <1>2, ShiftedInv
<1>4. NumbersOf(lane') = Append(NumbersOf(Tail(lane)), write.n) /\ write.n \in WriteNumbers
  BY <1>1, NumbersAppend, WriteNumber
<1>5. NumbersOf(lane) # <<>> /\ NumbersOf(Tail(lane)) = Tail(NumbersOf(lane))
  BY <1>0, NumbersTail
<1>6. Promise!Settle
  BY <1>4, <1>5 DEF Promise!Settle
<1>7. issuedSoFar' \in 0 .. MaxSettingsWrites
  BY <1>0
<1> QED
  BY <1>2, <1>3, <1>6, <1>7 DEF LaneOK, Promise!LaneNext, ClientSettingsTypeOK

(* The head moves on and stays the write it was. *)
LEMMA MovedHead ==
  ASSUME ClientSettingsTypeOK, lane # <<>>,
         NEW write \in SettingsWrite, write.n = lane[1].n, lane' = [lane EXCEPT ![1] = write]
  PROVE  /\ lane' \in Seq(SettingsWrite) /\ Len(lane') = Len(lane) /\ lane'[1] = write
         /\ 1 \in 1 .. Len(lane)
         /\ \A i \in 1 .. Len(lane) : lane'[i].n = lane[i].n /\ (i # 1 => lane'[i] = lane[i])
         /\ NumbersOf(lane') = NumbersOf(lane)
<1>1. lane \in Seq(SettingsWrite) /\ 1 \in 1 .. Len(lane)
  BY EmptySeq DEF ClientSettingsTypeOK
<1>2. /\ lane' \in Seq(SettingsWrite) /\ Len(lane') = Len(lane)
      /\ \A i \in 1 .. Len(lane) : lane'[i] = IF i = 1 THEN write ELSE lane[i]
  BY <1>1, ExceptSeq
<1>3. \A i \in 1 .. Len(lane) : lane'[i].n = lane[i].n
  BY <1>2
<1>4. NumbersOf(lane') = NumbersOf(lane)
  BY <1>1, <1>2, <1>3, NumbersKept
<1> QED
  BY <1>1, <1>2, <1>3, <1>4

(* The head starts. *)
LEMMA Started ==
  ASSUME ClientSettingsTypeOK, LaneInv, lane # <<>>, lane[1].at = "queued",
         NEW write \in SettingsWrite, write.n = lane[1].n, write.at = "sent",
         lane' = [lane EXCEPT ![1] = write], UNCHANGED <<issuedSoFar, inOrder>>
  PROVE  LaneOK
<1>0. /\ lane \in Seq(SettingsWrite) /\ Len(lane) \in Nat
      /\ \A i \in 1 .. Len(lane) : lane[i].n \in Nat
      /\ \A k \in 1 .. Len(inOrder) : inOrder[k] \in Nat
      /\ issuedSoFar \in Nat /\ MaxSettingsWrites \in Nat
  BY LaneFacts
<1>1. /\ lane' \in Seq(SettingsWrite) /\ Len(lane') = Len(lane) /\ lane'[1] = write /\ 1 \in 1 .. Len(lane)
      /\ \A i \in 1 .. Len(lane) : lane'[i].n = lane[i].n /\ (i # 1 => lane'[i] = lane[i])
      /\ NumbersOf(lane') = NumbersOf(lane)
  BY MovedHead
<1>2. LaneInv'
  BY <1>0, <1>1 DEF LaneInv
<1> QED
  BY <1>1, <1>2 DEF LaneOK, Promise!LaneVars, ClientSettingsTypeOK

(* The head takes effect. *)
LEMMA Landed ==
  ASSUME ClientSettingsTypeOK, LaneInv, lane # <<>>, lane[1].at = "sent",
         NEW write \in SettingsWrite, write.n = lane[1].n, write.at = "applied",
         lane' = [lane EXCEPT ![1] = write], UNCHANGED issuedSoFar,
         inOrder' = Append(inOrder, lane[1].n)
  PROVE  LaneOK
<1>0. /\ lane \in Seq(SettingsWrite) /\ Len(lane) \in Nat
      /\ \A i \in 1 .. Len(lane) : lane[i].n \in Nat
      /\ \A k \in 1 .. Len(inOrder) : inOrder[k] \in Nat
      /\ issuedSoFar \in Nat /\ MaxSettingsWrites \in Nat
  BY LaneFacts
<1>1. /\ lane' \in Seq(SettingsWrite) /\ Len(lane') = Len(lane) /\ lane'[1] = write /\ 1 \in 1 .. Len(lane)
      /\ \A i \in 1 .. Len(lane) : lane'[i].n = lane[i].n /\ (i # 1 => lane'[i] = lane[i])
      /\ NumbersOf(lane') = NumbersOf(lane)
  BY MovedHead
<1>2. inOrder \in Seq(WriteNumbers) /\ lane[1].n \in WriteNumbers
  BY <1>1, LaneFacts, WriteNumber
<1>3. /\ inOrder' \in Seq(WriteNumbers) /\ Len(inOrder') = Len(inOrder) + 1 /\ Len(inOrder) \in Nat
      /\ \A k \in 1 .. Len(inOrder') : inOrder'[k] = IF k \in 1 .. Len(inOrder) THEN inOrder[k] ELSE lane[1].n
  BY <1>2
<1>4. \A k \in 1 .. Len(inOrder) : inOrder[k] < lane[1].n
  BY <1>0, <1>1 DEF LaneInv
<1>5. LaneInv'
  <2>1. /\ \A i \in 1 .. Len(lane') : lane'[i].at = "queued" \/ i = 1
        /\ \A i, j \in 1 .. Len(lane') : i < j => lane'[i].n < lane'[j].n
        /\ \A i \in 1 .. Len(lane') : lane'[i].n <= issuedSoFar'
    BY <1>0, <1>1 DEF LaneInv
  <2>2. ASSUME NEW k \in 1 .. Len(inOrder')
        PROVE  inOrder'[k] <= issuedSoFar' /\ \A i \in 1 .. Len(lane') : lane'[i].at # "applied" => inOrder'[k] < lane'[i].n
    <3>1. inOrder'[k] <= lane[1].n /\ inOrder'[k] \in Nat /\ lane[1].n <= issuedSoFar
      <4>1. inOrder'[k] = IF k \in 1 .. Len(inOrder) THEN inOrder[k] ELSE lane[1].n
        BY <1>3
      <4>2. lane[1].n \in Nat /\ lane[1].n <= issuedSoFar
        BY <1>0, <1>1 DEF LaneInv
      <4>3. CASE k \in 1 .. Len(inOrder)
        <5>1. inOrder[k] < lane[1].n /\ inOrder[k] \in Nat
          BY <1>0, <1>4, <4>3
        <5> QED
          BY <4>1, <4>2, <4>3, <5>1
      <4>4. CASE k \notin 1 .. Len(inOrder)
        BY <4>1, <4>2, <4>4
      <4> QED
        BY <4>3, <4>4
    <3>2. ASSUME NEW i \in 1 .. Len(lane), lane'[i].at # "applied"
          PROVE  inOrder'[k] < lane'[i].n
      <4>1. i # 1 /\ 1 < i /\ lane'[i] = lane[i]
        BY <1>0, <1>1, <3>2
      <4>2. lane[1].n < lane[i].n
        BY <1>1, <4>1 DEF LaneInv
      <4> QED
        BY <1>0, <1>1, <3>1, <4>1, <4>2
    <3> QED
      BY <1>0, <1>1, <3>1, <3>2
  <2> QED
    BY <2>1, <2>2 DEF LaneInv
<1>6. Promise!Land
  <2>1. NumbersOf(lane) # <<>> /\ Head(NumbersOf(lane)) = lane[1].n
    BY <1>0, NumbersTail
  <2>2. \A k \in 1 .. Len(inOrder) : inOrder[k] # lane[1].n
    BY <1>0, <1>1, <1>4
  <2> QED
    BY <1>1, <2>1, <2>2 DEF Promise!Land
<1> QED
  BY <1>1, <1>3, <1>5, <1>6 DEF LaneOK, Promise!LaneNext, ClientSettingsTypeOK

-----------------------------------------------------------------------------
(* What a step leaves of the types besides the queue. *)
RestOK ==
  /\ kept' \in SettingsTree /\ view' \in SettingsTree /\ fileBad' \in BOOLEAN /\ adrift' \in BOOLEAN
  /\ overwritePrompt' \in Seq(SettingsWrite) /\ Len(overwritePrompt') <= 1
  /\ pageLoads' \in Seq([at: {"asked", "answered", "done"}, answer: SettingsTree])

(* Now the actions, one by one. *)
LEMMA StartWriteStep ==
  ASSUME ClientSettingsTypeOK, LaneInv, StartWrite
  PROVE  LaneOK /\ RestOK
<1>1. PICK i \in 1 .. Len(lane) :
        /\ MayStart(i)
        /\ lane' = [lane EXCEPT ![i].at = "sent", ![i].previous = view]
        /\ view' = Optimistic(view, lane[i])
  BY DEF StartWrite
<1>2. i = 1 /\ lane[1].at = "queued" /\ lane # <<>> /\ lane[1] \in SettingsWrite
  BY <1>1, LaneFacts DEF MayStart
<1> DEFINE started == [lane[1] EXCEPT !.at = "sent", !.previous = view]
<1>3. started \in SettingsWrite /\ started.n = lane[1].n /\ started.at = "sent"
  BY <1>2 DEF SettingsWrite, ClientSettingsTypeOK
<1>4. lane' = [lane EXCEPT ![1] = started]
  BY <1>1, <1>2
<1> HIDE DEF started
<1>5. LaneOK
  BY <1>2, <1>3, <1>4, Started DEF StartWrite
<1>6. view' \in SettingsTree
  BY <1>1, <1>2, TreeTypes DEF ClientSettingsTypeOK
<1> QED
  BY <1>5, <1>6 DEF StartWrite, RestOK, ClientSettingsTypeOK

LEMMA ServerAppliesStep ==
  ASSUME ClientSettingsTypeOK, LaneInv, ServerApplies
  PROVE  LaneOK /\ RestOK
<1>1. PICK i \in 1 .. Len(lane) :
        /\ lane[i].at = "sent"
        /\ kept' = PatchedTree(IF fileBad THEN DefaultTree ELSE kept, lane[i])
        /\ fileBad' = FALSE
        /\ lane' = [lane EXCEPT ![i].at = "applied"]
        /\ inOrder' = Append(inOrder, lane[i].n)
        /\ UNCHANGED <<view, overwritePrompt, pageLoads, issuedSoFar, adrift>>
  BY DEF ServerApplies
<1>2. i = 1 /\ lane # <<>> /\ lane[1] \in SettingsWrite
  BY <1>1, LaneFacts
<1> DEFINE applied == [lane[1] EXCEPT !.at = "applied"]
<1>3. applied \in SettingsWrite /\ applied.n = lane[1].n /\ applied.at = "applied"
  BY <1>2 DEF SettingsWrite
<1>4. lane' = [lane EXCEPT ![1] = applied]
  BY <1>1, <1>2
<1> HIDE DEF applied
<1>5. LaneOK
  BY <1>1, <1>2, <1>3, <1>4, Landed
<1>6. kept' \in SettingsTree
  BY <1>1, <1>2, TreeTypes, DefaultTreeType DEF ClientSettingsTypeOK
<1> QED
  BY <1>1, <1>5, <1>6 DEF RestOK, ClientSettingsTypeOK

LEMMA WriteSucceedsStep ==
  ASSUME ClientSettingsTypeOK, LaneInv, WriteSucceeds
  PROVE  LaneOK /\ RestOK
<1>1. PICK i \in 1 .. Len(lane) :
        /\ lane[i].at = "applied"
        /\ view' = kept
        /\ IF lane[i].secret /\ issuedSoFar < MaxSettingsWrites
           THEN /\ lane' = Append(RemoveAt(lane, i), [Queued("key", lane[i].link, "on", FALSE) EXCEPT !.wire = kept.on])
                /\ issuedSoFar' = issuedSoFar + 1
           ELSE lane' = RemoveAt(lane, i) /\ UNCHANGED issuedSoFar
        /\ overwritePrompt' = IF lane[i].kind = "overwrite" THEN <<>> ELSE overwritePrompt
        /\ adrift' = (adrift \/ Loading)
        /\ UNCHANGED <<kept, fileBad, pageLoads, inOrder>>
  BY DEF WriteSucceeds
<1>2. i = 1 /\ lane # <<>> /\ lane[1] \in SettingsWrite
  BY <1>1, LaneFacts
<1>3. RemoveAt(lane, 1) = Tail(lane)
  BY <1>2, LaneFacts, RemoveHead
<1>4. LaneOK
  <2>1. CASE lane[1].secret /\ issuedSoFar < MaxSettingsWrites
    <3> DEFINE asked == Queued("key", lane[1].link, "on", FALSE)
               followUp == [asked EXCEPT !.wire = kept.on]
    <3>1. lane[1].link \in Links
      BY <1>2 DEF SettingsWrite
    <3>2. asked \in SettingsWrite /\ asked.n = issuedSoFar + 1 /\ asked.at = "queued"
      BY <2>1, <3>1, QueuedType DEF LinkStates
    <3>3. kept.on \in [Links -> LinkStates]
      BY DEF ClientSettingsTypeOK, SettingsTree
    <3>4. lane' = Append(Tail(lane), followUp) /\ issuedSoFar' = issuedSoFar + 1
      BY <1>1, <1>2, <1>3, <2>1
    <3> HIDE DEF asked
    <3>5. followUp \in SettingsWrite /\ followUp.n = issuedSoFar + 1 /\ followUp.at = "queued"
      BY <3>2, <3>3 DEF SettingsWrite
    <3> HIDE DEF followUp
    <3> QED
      BY <1>1, <1>2, <2>1, <3>4, <3>5, SettledWithFollowUp
  <2>2. CASE ~(lane[1].secret /\ issuedSoFar < MaxSettingsWrites)
    BY <1>1, <1>2, <1>3, <2>2, Settled
  <2> QED
    BY <2>1, <2>2
<1>5. overwritePrompt' \in Seq(SettingsWrite) /\ Len(overwritePrompt') <= 1
  BY <1>1, EmptySeq DEF ClientSettingsTypeOK
<1> QED
  BY <1>1, <1>4, <1>5 DEF RestOK, ClientSettingsTypeOK

LEMMA WriteFailsStep ==
  ASSUME ClientSettingsTypeOK, LaneInv, WriteFails
  PROVE  LaneOK /\ RestOK
<1>1. PICK i \in 1 .. Len(lane) :
        /\ lane[i].at # "queued"
        /\ view' = Restored(lane[i])
        /\ lane' = RemoveAt(lane, i)
        /\ overwritePrompt' = <<>> \/ overwritePrompt' = overwritePrompt \/ overwritePrompt' = <<lane[i]>>
        /\ adrift' = (adrift \/ lane[i].at = "applied" \/ Loading)
        /\ UNCHANGED <<kept, fileBad, pageLoads, issuedSoFar, inOrder>>
  BY DEF WriteFails
<1>2. i = 1 /\ lane # <<>> /\ lane[1] \in SettingsWrite
  BY <1>1, LaneFacts
<1>3. RemoveAt(lane, 1) = Tail(lane)
  BY <1>2, LaneFacts, RemoveHead
<1>4. LaneOK
  BY <1>1, <1>2, <1>3, Settled
<1>5. view' \in SettingsTree
  BY <1>1, <1>2 DEF Restored, ClientSettingsTypeOK, SettingsWrite
<1>6. overwritePrompt' \in Seq(SettingsWrite) /\ Len(overwritePrompt') <= 1
  <2>1. <<lane[1]>> \in Seq(SettingsWrite) /\ Len(<<lane[1]>>) = 1
    BY <1>2
  <2>2. overwritePrompt \in Seq(SettingsWrite) /\ Len(overwritePrompt) <= 1
    BY DEF ClientSettingsTypeOK
  <2>3. <<>> \in Seq(SettingsWrite) /\ Len(<<>>) <= 1
    OBVIOUS
  <2> QED
    <3>1. CASE overwritePrompt' = <<>>
      BY <2>3, <3>1
    <3>2. CASE UNCHANGED overwritePrompt
      BY <2>2, <3>2
    <3>3. CASE overwritePrompt' = <<lane[i]>>
      BY <1>2, <2>1, <3>3
    <3> QED
      BY <1>1, <3>1, <3>2, <3>3
<1> QED
  BY <1>1, <1>4, <1>5, <1>6 DEF RestOK, ClientSettingsTypeOK

LEMMA WriteStep ==
  ASSUME ClientSettingsTypeOK, LaneInv, Write
  PROVE  LaneOK /\ RestOK
<1>1. PICK link \in Links, to \in LinkStates, kind \in {"edit", "pref", "fx"}, secret \in BOOLEAN :
        JoinLane(Queued(kind, link, to, secret))
  BY DEF Write
<1> DEFINE write == Queued(kind, link, to, secret)
<1>2. issuedSoFar < MaxSettingsWrites /\ UNCHANGED <<kept, fileBad, view, overwritePrompt, pageLoads, inOrder, adrift>>
  BY DEF Write
<1>3. write \in SettingsWrite /\ write.n = issuedSoFar + 1 /\ write.at = "queued"
  BY <1>2, QueuedType
<1> HIDE DEF write
<1>4. LaneOK
  BY <1>1, <1>2, <1>3, Joined DEF write
<1> QED
  BY <1>2, <1>4 DEF RestOK, ClientSettingsTypeOK

LEMMA ConfirmOverwriteStep ==
  ASSUME ClientSettingsTypeOK, LaneInv, ConfirmOverwrite
  PROVE  LaneOK /\ RestOK
<1> DEFINE write == [overwritePrompt[1] EXCEPT !.n = issuedSoFar + 1, !.kind = "overwrite", !.secret = FALSE,
                                               !.at = "queued"]
<1>1. /\ overwritePrompt # <<>> /\ issuedSoFar < MaxSettingsWrites /\ JoinLane(write)
      /\ UNCHANGED <<kept, fileBad, view, overwritePrompt, pageLoads, inOrder, adrift>>
  BY DEF ConfirmOverwrite
<1>2. overwritePrompt[1] \in SettingsWrite /\ issuedSoFar + 1 \in WriteNumbers
  <2>1. 1 \in 1 .. Len(overwritePrompt)
    BY <1>1, EmptySeq DEF ClientSettingsTypeOK
  <2> QED
    BY <1>1, <2>1, ElementOfSeq, ClientSettingsAssumption DEF ClientSettingsTypeOK, WriteNumbers
<1>3. write \in SettingsWrite /\ write.n = issuedSoFar + 1 /\ write.at = "queued"
  BY <1>2 DEF SettingsWrite
<1> HIDE DEF write
<1>4. LaneOK
  BY <1>1, <1>3, Joined
<1> QED
  BY <1>1, <1>4 DEF RestOK, ClientSettingsTypeOK

(* A load changes what is shown and no write. *)
LEMMA LoadStep ==
  ASSUME ClientSettingsTypeOK, LaneInv,
         \/ LoadSettingsPage
         \/ \E i \in 1 .. Len(pageLoads) : LoadAnswered(i) \/ LoadArrives(i) \/ PageLoadFails(i)
  PROVE  LaneOK /\ RestOK
<1> DEFINE Loads == [at : {"asked", "answered", "done"}, answer : SettingsTree]
<1>1. UNCHANGED <<lane, issuedSoFar, inOrder, kept, fileBad>>
  BY DEF LoadSettingsPage, LoadAnswered, LoadArrives, PageLoadFails
<1>2. LaneOK
  BY <1>1, NothingMoved
<1>3. pageLoads \in Seq(Loads)
  BY DEF ClientSettingsTypeOK
<1>4. CASE LoadSettingsPage
  <2>1. [at |-> "asked", answer |-> DefaultTree] \in Loads
    BY DefaultTreeType
  <2> HIDE DEF Loads
  <2>2. pageLoads' \in Seq(Loads)
    BY <1>3, <1>4, <2>1 DEF LoadSettingsPage
  <2> QED
    BY <1>1, <1>2, <1>4, <2>2 DEF LoadSettingsPage, RestOK, ClientSettingsTypeOK, Loads
<1>5. ASSUME NEW i \in 1 .. Len(pageLoads), LoadAnswered(i) \/ LoadArrives(i) \/ PageLoadFails(i)
      PROVE  LaneOK /\ RestOK
  <2>1. pageLoads[i] \in Loads
    BY <1>3, ElementOfSeq
  <2>2. PICK load \in Loads : pageLoads' = [pageLoads EXCEPT ![i] = load]
    <3>1. CASE LoadAnswered(i)
      BY <2>1, <3>1, DefaultTreeType DEF LoadAnswered, ClientSettingsTypeOK
    <3>2. CASE LoadArrives(i)
      <4>1. [pageLoads[i] EXCEPT !.at = "done"] \in Loads
        BY <2>1
      <4> QED
        BY <3>2, <4>1 DEF LoadArrives
    <3>3. CASE PageLoadFails(i)
      <4>1. [pageLoads[i] EXCEPT !.at = "done"] \in Loads
        BY <2>1
      <4> QED
        BY <3>3, <4>1 DEF PageLoadFails
    <3> QED
      BY <1>5, <3>1, <3>2, <3>3
  <2>3. view' \in SettingsTree
    <3>1. pageLoads[i].answer \in SettingsTree
      BY <2>1
    <3> QED
      BY <1>5, <3>1 DEF LoadAnswered, LoadArrives, PageLoadFails, ClientSettingsTypeOK
  <2>4. adrift' \in BOOLEAN
    <3>1. CASE LoadAnswered(i)
      BY <3>1 DEF LoadAnswered
    <3>2. CASE LoadArrives(i)
      BY <3>2 DEF LoadArrives
    <3>3. CASE PageLoadFails(i)
      BY <3>3 DEF PageLoadFails, ClientSettingsTypeOK
    <3> QED
      BY <1>5, <3>1, <3>2, <3>3
  <2>5. overwritePrompt' \in Seq(SettingsWrite) /\ Len(overwritePrompt') <= 1
    <3>1. overwritePrompt' = overwritePrompt \/ overwritePrompt' = <<>>
      BY <1>5 DEF LoadAnswered, LoadArrives, PageLoadFails
    <3>2. overwritePrompt \in Seq(SettingsWrite) /\ Len(overwritePrompt) <= 1
      BY DEF ClientSettingsTypeOK
    <3>3. <<>> \in Seq(SettingsWrite) /\ Len(<<>>) <= 1
      OBVIOUS
    <3> QED
      BY <3>1, <3>2, <3>3
  <2> HIDE DEF Loads
  <2>6. pageLoads' \in Seq(Loads)
    BY <1>3, <2>2, ExceptSeq
  <2> QED
    BY <1>1, <1>2, <2>3, <2>4, <2>5, <2>6 DEF RestOK, ClientSettingsTypeOK, Loads
<1> QED
  BY <1>4, <1>5

(* Together: every step of the tab. *)
LEMMA EveryStep ==
  ASSUME ClientSettingsTypeOK, LaneInv, [ClientSettingsNext]_settingsVars
  PROVE  LaneOK /\ RestOK
<1>1. CASE CancelOverwrite
  BY <1>1, NothingMoved, EmptySeq DEF CancelOverwrite, RestOK, ClientSettingsTypeOK
<1>2. CASE BreakFile
  BY <1>2, NothingMoved DEF BreakFile, RestOK, ClientSettingsTypeOK
<1>3. CASE UNCHANGED settingsVars
  BY <1>3, NothingMoved DEF settingsVars, RestOK, ClientSettingsTypeOK
<1> QED
  BY <1>1, <1>2, <1>3, StartWriteStep, ServerAppliesStep, WriteSucceedsStep, WriteFailsStep, WriteStep,
     ConfirmOverwriteStep, LoadStep DEF ClientSettingsNext, LaneStep

-----------------------------------------------------------------------------
(* What the tab shows, as long as no answer was lost and no load crossed a *)
(* write: the stored settings when no write is under way; when one is,     *)
(* what is shown after its refusal is the stored settings; and a load      *)
(* waiting to arrive carries them until the server takes a write.          *)
Underway(state) == lane # <<>> /\ lane[1].at = state

ShownInv ==
  ~adrift /\ ~fileBad =>
    /\ lane = <<>> \/ Underway("queued") => view = kept
    /\ Underway("sent") => Restored(lane[1]) = kept
    /\ ~Underway("applied") =>
         \A i \in 1 .. Len(pageLoads) : pageLoads[i].at = "answered" => pageLoads[i].answer = kept

(* A write joins the end of the queue: the head, if there is one, stays. *)
LEMMA JoinKeepsShown ==
  ASSUME ClientSettingsTypeOK, LaneInv, ShownInv, NEW write, write.at = "queued",
         JoinLane(write), UNCHANGED <<kept, fileBad, view, pageLoads, adrift>>
  PROVE  ShownInv'
<1>1. lane \in Seq(SettingsWrite) /\ Len(lane) \in Nat /\ lane' = Append(lane, write)
  BY LaneFacts DEF JoinLane
<1>2. lane' # <<>> /\ (lane = <<>> => lane'[1] = write) /\ (lane # <<>> => lane'[1] = lane[1])
  BY <1>1
<1>3. /\ Underway("queued")' => lane = <<>> \/ Underway("queued")
      /\ Underway("sent")' => Underway("sent") /\ lane'[1] = lane[1]
      /\ ~Underway("applied")' => ~Underway("applied")
  BY <1>2 DEF Underway
<1> QED
  BY <1>2, <1>3 DEF ShownInv, Restored

(* When the head settles, whatever comes next in the queue has not started. *)
LEMMA SettledShown ==
  ASSUME ClientSettingsTypeOK, LaneInv, lane # <<>>,
         lane' = Tail(lane) \/ \E write : lane' = Append(Tail(lane), write) /\ write.at = "queued",
         ~adrift' /\ ~fileBad' => view' = kept'
                     /\ \A i \in 1 .. Len(pageLoads') :
                          pageLoads'[i].at = "answered" => pageLoads'[i].answer = kept'
  PROVE  ShownInv'
<1>1. /\ lane \in Seq(SettingsWrite) /\ Len(lane) \in Nat
      /\ \A i \in 1 .. Len(lane) : lane[i].at # "queued" => i = 1
  BY LaneFacts
<1>2. /\ Tail(lane) \in Seq(SettingsWrite) /\ Len(Tail(lane)) = Len(lane) - 1
      /\ \A i \in 1 .. Len(Tail(lane)) : i + 1 \in 1 .. Len(lane) /\ Tail(lane)[i] = lane[i + 1]
  BY <1>1, HeadTailProperties
<1>3. Tail(lane) # <<>> => Tail(lane)[1].at = "queued"
  BY <1>1, <1>2
<1>4. lane' = <<>> \/ lane'[1].at = "queued"
  <2>1. CASE lane' = Tail(lane)
    BY <1>3, <2>1
  <2>2. ASSUME NEW write, lane' = Append(Tail(lane), write), write.at = "queued"
        PROVE  lane'[1].at = "queued"
    <3> DEFINE rest == Tail(lane)
    <3>1. /\ rest \in Seq(SettingsWrite) /\ Len(rest) \in Nat
          /\ rest # <<>> => rest[1].at = "queued"
          /\ lane' = Append(rest, write)
      <4>1. rest \in Seq(SettingsWrite)
        BY <1>2
      <4>2. Len(rest) \in Nat
        BY <4>1, LenProperties
      <4> QED
        BY <1>3, <2>2, <4>1, <4>2, Zenon
    <3> HIDE DEF rest
    <3>2. (rest = <<>> => lane'[1] = write) /\ (rest # <<>> => lane'[1] = rest[1])
      BY <3>1
    <3> QED
      BY <2>2, <3>1, <3>2
  <2> QED
    BY <2>1, <2>2
<1> QED
  BY <1>4 DEF ShownInv, Underway

LEMMA StartWriteShown ==
  ASSUME ClientSettingsTypeOK, LaneInv, ShownInv, StartWrite
  PROVE  ShownInv'
<1>1. PICK i \in 1 .. Len(lane) :
        /\ MayStart(i)
        /\ lane' = [lane EXCEPT ![i].at = "sent", ![i].previous = view]
        /\ view' = Optimistic(view, lane[i])
  BY DEF StartWrite
<1>2. i = 1 /\ lane[1].at = "queued" /\ lane # <<>> /\ lane[1] \in SettingsWrite
  BY <1>1, LaneFacts DEF MayStart
<1> DEFINE started == [lane[1] EXCEPT !.at = "sent", !.previous = view]
<1>3. /\ started.at = "sent" /\ started.previous = view
      /\ started.kind = lane[1].kind
  BY <1>2 DEF SettingsWrite
<1>4. lane' # <<>> /\ lane'[1] = started
  <2>1. lane' = [lane EXCEPT ![1] = started] /\ lane \in Seq(SettingsWrite) /\ Len(lane) \in Nat
    BY <1>1, <1>2, LaneFacts
  <2>2. 1 \in 1 .. Len(lane)
    BY <1>1, <1>2
  <2> HIDE DEF started
  <2>3. Len(lane') = Len(lane) /\ lane'[1] = started
    BY <2>1, <2>2
  <2> QED
    BY <2>2, <2>3
<1> HIDE DEF started
<1>5. UNCHANGED <<kept, fileBad, pageLoads, adrift>>
  BY DEF StartWrite
<1>6. ~adrift /\ ~fileBad => view = kept
  BY <1>2 DEF ShownInv, Underway
<1>7. lane[1].kind \notin {"edit", "pref"} => view' = view
  BY <1>1, <1>2 DEF Optimistic
<1>8. ~adrift' /\ ~fileBad' => Restored(lane[1])' = kept'
  BY <1>3, <1>4, <1>5, <1>6, <1>7 DEF Restored
<1>9. ~Underway("applied") /\ Underway("sent")' /\ ~Underway("queued")'
  BY <1>2, <1>3, <1>4 DEF Underway
<1> QED
  BY <1>4, <1>5, <1>8, <1>9 DEF ShownInv

(* A write whose answer is on its way: no load waits, or the tab is adrift. *)
LEMMA AnswerShown ==
  ASSUME ClientSettingsTypeOK, LaneInv, ShownInv, WriteSucceeds \/ WriteFails
  PROVE  ShownInv'
<1>1. ~Loading => \A i \in 1 .. Len(pageLoads) : pageLoads[i].at # "answered"
  BY DEF Loading
<1>2. CASE WriteSucceeds
  <2>1. PICK i \in 1 .. Len(lane) :
          /\ lane[i].at = "applied"
          /\ view' = kept
          /\ IF lane[i].secret /\ issuedSoFar < MaxSettingsWrites
             THEN /\ lane' = Append(RemoveAt(lane, i), [Queued("key", lane[i].link, "on", FALSE) EXCEPT !.wire = kept.on])
                  /\ issuedSoFar' = issuedSoFar + 1
             ELSE lane' = RemoveAt(lane, i) /\ UNCHANGED issuedSoFar
          /\ adrift' = (adrift \/ Loading)
          /\ UNCHANGED <<kept, pageLoads>>
    BY <1>2 DEF WriteSucceeds
  <2>2. i = 1 /\ lane # <<>> /\ RemoveAt(lane, 1) = Tail(lane)
    BY <2>1, LaneFacts, RemoveHead
  <2> DEFINE followUp == [Queued("key", lane[1].link, "on", FALSE) EXCEPT !.wire = kept.on]
  <2>3. followUp.at = "queued"
    BY DEF Queued
  <2>4. lane' = Tail(lane) \/ lane' = Append(Tail(lane), followUp)
    BY <2>1, <2>2
  <2> HIDE DEF followUp
  <2>5. lane' = Tail(lane) \/ \E write : lane' = Append(Tail(lane), write) /\ write.at = "queued"
    BY <2>3, <2>4
  <2> QED
    BY <1>1, <2>1, <2>2, <2>5, SettledShown
<1>3. CASE WriteFails
  <2>1. PICK i \in 1 .. Len(lane) :
          /\ lane[i].at # "queued"
          /\ view' = Restored(lane[i])
          /\ lane' = RemoveAt(lane, i)
          /\ adrift' = (adrift \/ lane[i].at = "applied" \/ Loading)
          /\ UNCHANGED <<kept, fileBad, pageLoads>>
    BY <1>3 DEF WriteFails
  <2>2. i = 1 /\ lane # <<>> /\ lane[1] \in SettingsWrite /\ RemoveAt(lane, 1) = Tail(lane)
    BY <2>1, LaneFacts, RemoveHead
  <2>3. ~adrift' => ~adrift /\ Underway("sent") /\ ~Loading
    BY <2>1, <2>2 DEF Underway, SettingsWrite
  <2>4. ~adrift' /\ ~fileBad' => view' = kept'
    BY <2>1, <2>2, <2>3 DEF ShownInv
  <2> QED
    BY <1>1, <2>1, <2>2, <2>3, <2>4, SettledShown
<1> QED
  BY <1>2, <1>3

(* Loads: one that arrives while the tab is not adrift finds no write      *)
(* under way and brings the stored settings.                               *)
LEMMA LoadShown ==
  ASSUME ClientSettingsTypeOK, LaneInv, ShownInv, NEW i \in 1 .. Len(pageLoads),
         LoadAnswered(i) \/ LoadArrives(i) \/ PageLoadFails(i)
  PROVE  ShownInv'
<1> DEFINE Loads == [at : {"asked", "answered", "done"}, answer : SettingsTree]
<1>1. pageLoads \in Seq(Loads)
  BY DEF ClientSettingsTypeOK
<1>2. pageLoads[i] \in Loads
  BY <1>1, ElementOfSeq
<1>3. UNCHANGED <<kept, fileBad, lane>>
  BY DEF LoadAnswered, LoadArrives, PageLoadFails
<1>4. \A s : Underway(s)' = Underway(s)
  BY <1>3 DEF Underway
<1>5. CASE LoadAnswered(i)
  <2> DEFINE load == [at |-> "answered", answer |-> IF fileBad THEN DefaultTree ELSE kept]
  <2>1. /\ pageLoads' = [pageLoads EXCEPT ![i] = load] /\ view' = view
        /\ adrift' = (adrift \/ lane # <<>>)
    BY <1>5 DEF LoadAnswered
  <2>2. /\ Len(pageLoads') = Len(pageLoads)
        /\ \A j \in 1 .. Len(pageLoads) : pageLoads'[j] = IF j = i THEN load ELSE pageLoads[j]
    BY <1>1, <2>1
  <2>3. ~adrift' /\ ~fileBad' => ~adrift /\ ~fileBad /\ load.answer = kept /\ lane = <<>>
    BY <1>3, <2>1
  <2> HIDE DEF load
  <2> QED
    BY <1>3, <1>4, <2>1, <2>2, <2>3 DEF ShownInv, Underway, Restored
<1>6. CASE LoadArrives(i) \/ PageLoadFails(i)
  <2> DEFINE load == [pageLoads[i] EXCEPT !.at = "done"]
  <2>1. pageLoads' = [pageLoads EXCEPT ![i] = load] /\ load.at = "done"
    BY <1>2, <1>6 DEF LoadArrives, PageLoadFails
  <2> HIDE DEF load
  <2>2. /\ Len(pageLoads') = Len(pageLoads)
        /\ \A j \in 1 .. Len(pageLoads) : pageLoads'[j] = IF j = i THEN load ELSE pageLoads[j]
    BY <1>1, <2>1
  <2>3. CASE LoadArrives(i)
    <3>1. /\ view' = pageLoads[i].answer /\ pageLoads[i].at = "answered"
          /\ adrift' = (adrift \/ lane # <<>>)
      BY <2>3 DEF LoadArrives
    <3>2. ~adrift' /\ ~fileBad' => ~adrift /\ ~fileBad /\ lane = <<>> /\ view' = kept
      BY <1>3, <3>1 DEF ShownInv, Underway
    <3> QED
      BY <1>3, <1>4, <2>1, <2>2, <3>2 DEF ShownInv, Underway
  <2>4. CASE PageLoadFails(i)
    <3>1. UNCHANGED <<view, adrift>>
      BY <2>4 DEF PageLoadFails
    <3> QED
      BY <1>3, <1>4, <2>1, <2>2, <3>1 DEF ShownInv, Restored
  <2> QED
    BY <1>6, <2>3, <2>4
<1> QED
  BY <1>5, <1>6

LEMMA ShownStep ==
  ASSUME ClientSettingsTypeOK, LaneInv, ShownInv, [ClientSettingsNext]_settingsVars
  PROVE  ShownInv'
<1>1. CASE Write
  <2>1. PICK link \in Links, to \in LinkStates, kind \in {"edit", "pref", "fx"}, secret \in BOOLEAN :
          JoinLane(Queued(kind, link, to, secret))
    BY <1>1 DEF Write
  <2>2. Queued(kind, link, to, secret).at = "queued"
    BY DEF Queued
  <2> QED
    BY <1>1, <2>1, <2>2, JoinKeepsShown DEF Write
<1>2. CASE ConfirmOverwrite
  <2> DEFINE write == [overwritePrompt[1] EXCEPT !.n = issuedSoFar + 1, !.kind = "overwrite",
                                                 !.secret = FALSE, !.at = "queued"]
  <2>1. /\ overwritePrompt # <<>> /\ JoinLane(write)
        /\ UNCHANGED <<kept, fileBad, view, pageLoads, adrift>>
    BY <1>2 DEF ConfirmOverwrite
  <2>2. overwritePrompt[1] \in SettingsWrite
    <3>1. 1 \in 1 .. Len(overwritePrompt)
      BY <2>1, EmptySeq DEF ClientSettingsTypeOK
    <3> QED
      BY <3>1, ElementOfSeq DEF ClientSettingsTypeOK
  <2>3. write.at = "queued"
    BY <2>2 DEF SettingsWrite
  <2> HIDE DEF write
  <2> QED
    BY <2>1, <2>3, JoinKeepsShown
<1>3. CASE ServerApplies
  <2>1. PICK i \in 1 .. Len(lane) :
          /\ lane[i].at = "sent"
          /\ lane' = [lane EXCEPT ![i].at = "applied"]
    BY <1>3 DEF ServerApplies
  <2>2. i = 1 /\ lane # <<>> /\ lane[1] \in SettingsWrite
    BY <2>1, LaneFacts
  <2>3. lane' # <<>> /\ lane'[1].at = "applied"
    BY <2>1, <2>2, LaneFacts DEF SettingsWrite
  <2> QED
    BY <2>3 DEF ShownInv, Underway
<1>4. CASE LoadSettingsPage
  <2> DEFINE load == [at |-> "asked", answer |-> DefaultTree]
             Loads == [at : {"asked", "answered", "done"}, answer : SettingsTree]
  <2>1. /\ pageLoads' = Append(pageLoads, load) /\ load.at # "answered"
        /\ UNCHANGED <<kept, fileBad, view, lane>> /\ adrift' = (adrift \/ lane # <<>>)
    BY <1>4 DEF LoadSettingsPage
  <2>2. pageLoads \in Seq(Loads)
    BY DEF ClientSettingsTypeOK
  <2> HIDE DEF load, Loads
  <2>3. /\ Len(pageLoads') = Len(pageLoads) + 1 /\ Len(pageLoads) \in Nat
        /\ \A j \in 1 .. Len(pageLoads') :
             pageLoads'[j] = IF j = Len(pageLoads) + 1 THEN load ELSE pageLoads[j]
    BY <2>1, <2>2
  <2>4. \A j \in 1 .. Len(pageLoads') :
          pageLoads'[j].at = "answered" => j \in 1 .. Len(pageLoads) /\ pageLoads'[j] = pageLoads[j]
    BY <2>1, <2>3
  <2> QED
    BY <2>1, <2>4 DEF ShownInv, Underway, Restored
<1>5. CASE CancelOverwrite \/ BreakFile \/ UNCHANGED settingsVars
  <2>1. UNCHANGED <<kept, view, lane, pageLoads, adrift>> /\ (fileBad' \/ UNCHANGED fileBad)
    BY <1>5 DEF CancelOverwrite, BreakFile, settingsVars
  <2> QED
    BY <2>1 DEF ShownInv, Underway, Restored
<1> QED
  BY <1>1, <1>2, <1>3, <1>4, <1>5, StartWriteShown, AnswerShown, LoadShown
  DEF ClientSettingsNext, LaneStep

-----------------------------------------------------------------------------
(* Every reachable state of the settings writes is well typed, only the    *)
(* head of the queue runs, and the queue is in order                       *)
(* (createSingleFlight, stores/singleFlight.ts).                           *)
THEOREM LaneInvariant == ClientSettingsSpec => [](ClientSettingsTypeOK /\ LaneInv)
<1>1. ClientSettingsInit => ClientSettingsTypeOK /\ LaneInv
  <2> SUFFICES ASSUME ClientSettingsInit PROVE ClientSettingsTypeOK /\ LaneInv
    OBVIOUS
  <2>1. kept \in SettingsTree
    BY DefaultTreeType DEF ClientSettingsInit, SettingsTree, LinkStates
  <2>2. issuedSoFar \in 0 .. MaxSettingsWrites
    BY ClientSettingsAssumption DEF ClientSettingsInit
  <2>3. ClientSettingsTypeOK
    <3>1. lane = <<>> /\ overwritePrompt = <<>> /\ pageLoads = <<>> /\ inOrder = <<>>
      BY DEF ClientSettingsInit
    <3>2. /\ lane \in Seq(SettingsWrite) /\ overwritePrompt \in Seq(SettingsWrite) /\ Len(overwritePrompt) <= 1
          /\ pageLoads \in Seq([at : {"asked", "answered", "done"}, answer : SettingsTree])
          /\ inOrder \in Seq(WriteNumbers)
      BY <3>1
    <3>3. view \in SettingsTree /\ fileBad \in BOOLEAN /\ adrift \in BOOLEAN
      BY <2>1 DEF ClientSettingsInit
    <3> QED
      BY <2>1, <2>2, <3>2, <3>3 DEF ClientSettingsTypeOK
  <2>4. LaneInv
    BY DEF ClientSettingsInit, LaneInv
  <2> QED
    BY <2>3, <2>4
<1>2. ClientSettingsTypeOK /\ LaneInv /\ [ClientSettingsNext]_settingsVars => (ClientSettingsTypeOK /\ LaneInv)'
  BY EveryStep DEF LaneOK, RestOK, ClientSettingsTypeOK
<1> QED
  BY <1>1, <1>2, PTL DEF ClientSettingsSpec

(* With no write waiting the tab shows the stored settings, through        *)
(* refusals and their rollbacks, overwrites and loads, unless an answer    *)
(* was lost or a load crossed a write (settingsStore.ts).                  *)
THEOREM QuietTabShowsStored == ClientSettingsSpec => []QuietSettingsAgree
<1>1. ClientSettingsInit => ShownInv
  BY DEF ClientSettingsInit, ShownInv, Underway
<1>2. ShownInv => QuietSettingsAgree
  BY DEF ShownInv, QuietSettingsAgree
<1>3. (ClientSettingsTypeOK /\ LaneInv) /\ ShownInv /\ [ClientSettingsNext]_settingsVars => ShownInv'
  BY ShownStep
<1> QED
  BY <1>1, <1>2, <1>3, LaneInvariant, PTL DEF ClientSettingsSpec

(* The queue implements WriteLane: the writes of a tab take effect in the  *)
(* order they were made, one at a time and each at most once, through      *)
(* refusals, overwrites and follow-up writes (stores/singleFlight.ts).     *)
THEOREM LaneKeepsPromise == ClientSettingsSpec => KeepsWriteOrder
<1>1. ClientSettingsInit => Promise!LaneInit
  <2>1. NumbersOf(<<>>) = <<>>
    BY DEF NumbersOf
  <2> QED
    BY <2>1 DEF ClientSettingsInit, Promise!LaneInit
<1>2. ClientSettingsTypeOK /\ LaneInv /\ [ClientSettingsNext]_settingsVars => [Promise!LaneNext]_(Promise!LaneVars)
  BY EveryStep DEF LaneOK
<1> QED
  BY <1>1, <1>2, LaneInvariant, PTL DEF ClientSettingsSpec, KeepsWriteOrder, Promise!LaneSpec
=============================================================================
