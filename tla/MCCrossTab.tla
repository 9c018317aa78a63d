---------------------------- MODULE MCCrossTab ----------------------------
(* CrossTab for TLC: the tabs are interchangeable, nothing distinguishes   *)
(* one from another.  Bound: when the conversation is deleted, before its  *)
(* last turn is sent, that turn is not sent any more.                      *)
EXTENDS CrossTab, TLC

InterchangeableViewers == Permutations(Viewers)

TurnLeft == \E n \in TurnIds : sent[n].at = "unused"

MCCrossTabNext == CrossTabNext /\ (server.born # 0 => TurnLeft)'

MCCrossTabSpec == CrossTabInit /\ [][MCCrossTabNext]_tabVars
=============================================================================
