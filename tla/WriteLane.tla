------------------------------ MODULE WriteLane ------------------------------
(***************************************************************************)
(* What a browser's settings writes promise, whatever they write: they     *)
(* reach the server in the order the user made them, one at a time and     *)
(* each at most once, and a write that failed holds up none after it       *)
(* (createSingleFlight, stores/singleFlight.ts).                           *)
(***************************************************************************)
EXTENDS Naturals, Sequences

CONSTANT Writes   \* what names a write

VARIABLES
  waiting,   \* the writes not yet answered, in order
  landed     \* the writes that took effect, in order

LaneVars == <<waiting, landed>>

LaneInit == waiting = <<>> /\ landed = <<>>

Issue == \E n \in Writes : waiting' = Append(waiting, n) /\ UNCHANGED landed

(* Only the first in line can take effect, and only once. *)
Land ==
  /\ waiting # <<>>
  /\ \A i \in 1 .. Len(landed) : landed[i] # Head(waiting)
  /\ landed' = Append(landed, Head(waiting))
  /\ UNCHANGED waiting

(* An answer, good or bad, may bring a follow-up write with it. *)
Settle ==
  /\ waiting # <<>>
  /\ \/ waiting' = Tail(waiting)
     \/ \E n \in Writes : waiting' = Append(Tail(waiting), n)
  /\ UNCHANGED landed

LaneNext == Issue \/ Land \/ Settle

LaneSpec == LaneInit /\ [][LaneNext]_LaneVars
=============================================================================
