---------------------------- MODULE MCChatServer ----------------------------
(* Model-checking instances of ChatServer. *)
EXTENDS ChatServer, TLC

(* What an older build may have left in the table: an assistant message    *)
(* with a blank id, and one the current schema rejects.  Revision 0 is the *)
(* value the migration backfilled.                                         *)
OldMessage(blank, sound) ==
  [turn |-> 0, role |-> "assistant", mark |-> "complete", blank |-> blank, sound |-> sound]

OldRow(msgs) ==
  [title |-> "derived", messages |-> msgs, reasoning |-> None, model |-> None,
   pinned |-> FALSE, forkedFrom |-> None, revision |-> 0, updatedAt |-> 0]

MCLegacyRows == {OldRow(<<OldMessage(TRUE, TRUE)>>), OldRow(<<OldMessage(FALSE, FALSE)>>)}

(* One conversation: two turns of two tabs between healing reads, deletes, *)
(* overrides, titles and pins.                                             *)
MCTabs ==
  {[operations |-> {"chat", "detail", "delete", "override", "title", "pin"}, adverse |-> FALSE,
    legacy |-> MCLegacyRows, turns |-> 2, births |-> 2]}

(* Two conversations: turns and branches of them; and, with and without    *)
(* crashes and failing store calls, whatever moves the pointer.            *)
MCRequests ==
  {[operations |-> {"chat", "detail", "branch"}, adverse |-> FALSE,
    legacy |-> MCLegacyRows, turns |-> 2, births |-> 1]}
  \cup {[operations |-> {"chat", "list", "delete", "activate", "override"}, adverse |-> adversity,
         legacy |-> {}, turns |-> 1, births |-> 2] : adversity \in BOOLEAN}

(* Three turns around a delete. *)
MCRecreated ==
  {[operations |-> {"chat", "detail", "delete"}, adverse |-> FALSE, legacy |-> {}, turns |-> 3, births |-> 2]}

(* Tabs are interchangeable, and so are conversation ids. *)
Interchangeable == Permutations(Tabs) \cup Permutations(Ids)
=============================================================================
