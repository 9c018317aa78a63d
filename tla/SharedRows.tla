----------------------------- MODULE SharedRows -----------------------------
(***************************************************************************)
(* What a chat turn may do to a table of conversations that others change  *)
(* under it, whoever keeps the table: the promise behind the 409.  A       *)
(* request names a row, may name the revision it was made from, and says   *)
(* what it may store.  It is let in when that base is the revision of the  *)
(* row, or there is no base or no row; what it stores it stores in one     *)
(* step, with the next revision, when the same still holds.  Otherwise it  *)
(* ends and leaves the table as it is.  A transcript is replaced in no     *)
(* other way: rows are born with revision 1 and go, and that is all.       *)
(*                                                                         *)
(* ChatServer implements this with its handlers and its store, CrossTab    *)
(* with the one row that stands there for all of the server.               *)
(***************************************************************************)
EXTENDS Naturals

CONSTANTS
  Rows,      \* what conversations are known by
  Senders,   \* who has at most one request at a time
  Absent,    \* no such row
  NoBase     \* a request that was made from no revision

VARIABLES
  shared,    \* Rows -> [revision, log], or Absent
  pending    \* Senders -> [at, id, base, stores], or NoRequest

sharedVars == <<shared, pending>>

NoRequest == [at |-> "none"]

Stale(s) == LET r == pending[s]
            IN  /\ r.base # NoBase
                /\ shared[r.id] # Absent /\ shared[r.id].revision # r.base

(* Whatever an earlier build left in the table; no request yet. *)
Init == DOMAIN shared = Rows /\ pending = [s \in Senders |-> NoRequest]

Ask(s) ==
  /\ pending[s] = NoRequest
  /\ pending' = [pending EXCEPT ![s] = pending'[s]]
  /\ pending'[s].at = "posted" /\ pending'[s].id \in Rows
  /\ UNCHANGED shared

Accept(s) ==
  /\ pending[s].at = "posted" /\ ~Stale(s)
  /\ pending' = [pending EXCEPT ![s].at = "accepted"]
  /\ UNCHANGED shared

NextRevision(row) == IF row = Absent THEN 1 ELSE row.revision + 1

Save(s) ==
  LET r == pending[s]
  IN  /\ r.at = "accepted" /\ ~Stale(s)
      /\ \E log \in r.stores :
           shared' = [shared EXCEPT ![r.id] = [revision |-> NextRevision(shared[r.id]), log |-> log]]
      /\ pending' = [pending EXCEPT ![s] = NoRequest]

(* Requests are refused, fail, are stopped, or go down with the server. *)
Ended == \E ended \in SUBSET Senders :
           pending' = [s \in Senders |-> IF s \in ended THEN NoRequest ELSE pending[s]]

Create(id) ==
  /\ shared[id] = Absent
  /\ shared' = [shared EXCEPT ![id] = shared'[id]]
  /\ shared'[id] # Absent /\ shared'[id].revision = 1
  /\ UNCHANGED pending

(* Rows go, perhaps none; a tab that deletes one gives up its request.  A  *)
(* request that stays finds no row, which is no reason to refuse it.       *)
Remove ==
  /\ \E ids \in SUBSET Rows : shared' = [id \in Rows |-> IF id \in ids THEN Absent ELSE shared[id]]
  /\ Ended

Next ==
  \/ Remove
  \/ \E s \in Senders : Ask(s) \/ Accept(s) \/ Save(s)
  \/ \E id \in Rows : Create(id)

Spec == Init /\ [][Next]_sharedVars
=============================================================================
