--------------------------- MODULE TurnContract ----------------------------
(***************************************************************************)
(* What the MultiConversationStore port promises about one table of        *)
(* conversations (persistence/ports.ts): which columns move together,      *)
(* whatever the sequence of calls.  `revision' and `updatedAt' advance     *)
(* only with a saved turn, by exactly one save; a saved turn touches no    *)
(* override, pin or lineage and keeps a title somebody chose; every other  *)
(* update leaves the concurrency token and the recency order alone; a row  *)
(* is born at revision 1; a row born or saved is listed first; and a call  *)
(* writes at most one row unless it only deletes.                          *)
(***************************************************************************)
EXTENDS Naturals

CONSTANTS Ids, None

VARIABLE rows

Present(id)      == rows[id] # None /\ rows'[id] # None
OthersKept(id)   == \A o \in Ids \ {id} : rows'[o] = rows[o]
Keeps(id, field) == rows'[id][field] = rows[id][field]

(* Nothing in the table is listed ahead of `id'. *)
Newest(id) == \A o \in Ids : rows'[o] # None => rows'[o].updatedAt <= rows'[id].updatedAt

(* Whatever an earlier build left in the table. *)
Init == DOMAIN rows = Ids

Born(id) ==
  /\ rows[id] = None /\ rows'[id] # None
  /\ rows'[id].revision = 1
  /\ rows'[id].model = None /\ ~rows'[id].pinned
  /\ OthersKept(id) /\ Newest(id)

TurnSaved(id) ==
  /\ Present(id)
  /\ rows'[id].revision = rows[id].revision + 1
  /\ rows'[id].messages # <<>>
  /\ \A f \in {"reasoning", "model", "pinned", "forkedFrom"} : Keeps(id, f)
  /\ rows[id].title \notin {"", "New conversation"} => Keeps(id, "title")
  /\ OthersKept(id) /\ Newest(id)

ColumnUpdated(id) ==
  /\ Present(id)
  /\ \A f \in {"revision", "updatedAt", "forkedFrom"} : Keeps(id, f)
  /\ OthersKept(id)

Deleted == \A id \in Ids : rows'[id] \in {rows[id], None}

Next == Deleted \/ \E id \in Ids : Born(id) \/ TurnSaved(id) \/ ColumnUpdated(id)

Spec == Init /\ [][Next]_rows
=============================================================================
