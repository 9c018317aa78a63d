--------------------------- MODULE ClientSettings ---------------------------
(***************************************************************************)
(* The settings store of one browser tab (stores/), the connection forms   *)
(* that write through it, and as much of the settings service as they see. *)
(*                                                                         *)
(* Every write goes through one queue and shows its result before the      *)
(* server has it; a refusal puts the earlier settings back.  Loads do not  *)
(* go through the queue.  A connection edit sends the whole list, built    *)
(* from what is shown when the user acts and not when the write runs.      *)
(*                                                                         *)
(* Settings are the connections, each on, off or gone, the connections     *)
(* that have a key, one preference, and whether the exchange rate is new.  *)
(***************************************************************************)
EXTENDS Naturals, Sequences, SequencesExt

CONSTANTS
  Links,               \* connection ids
  MaxSettingsWrites,   \* bound: writes issued, follow-ups included
  MaxSettingsLoads     \* bound: loads of the settings page

ASSUME ClientSettingsAssumption == MaxSettingsWrites \in Nat /\ MaxSettingsLoads \in Nat

VARIABLES
  kept,       \* the settings the server has
  fileBad,    \* settings.json was broken by hand: reads give the defaults
  view,       \* the settings the tab shows
  lane,       \* the writes not yet answered, in order
  overwritePrompt,     \* the refused write the overwrite prompt is about, <<>> for none
  pageLoads,  \* the loads, in order: [at, answer]
  issuedSoFar, inOrder,     \* history: how many writes; which took effect, in order
  adrift      \* history: an answer was lost, or a load overlapped a write

settingsVars == <<kept, fileBad, view, lane, overwritePrompt, pageLoads, issuedSoFar, inOrder, adrift>>

WriteNumbers == 1 .. MaxSettingsWrites
LinkStates   == {"on", "off", "gone"}

SettingsTree == [on: [Links -> LinkStates], keys: SUBSET Links, pref: 0 .. MaxSettingsWrites, fresh: BOOLEAN]

DefaultTree == [on |-> [l \in Links |-> "gone"], keys |-> {}, pref |-> 0, fresh |-> FALSE]

(* `to' is the state a connection edit asks for, `wire' the list it sends, *)
(* `secret' whether a key is to be saved after it, `edits' that it is an   *)
(* edit or an overwrite that repeats one.                                  *)
SettingsWrite == [n: WriteNumbers, kind: {"edit", "pref", "fx", "key", "overwrite"}, link: Links, to: LinkStates,
                  wire: [Links -> LinkStates], secret: BOOLEAN, edits: BOOLEAN,
                  at: {"queued", "sent", "applied"}, previous: SettingsTree]

-----------------------------------------------------------------------------
Queued(kind, link, to, secret) ==
  [n |-> issuedSoFar + 1, kind |-> kind, link |-> link, to |-> to,
   wire |-> [view.on EXCEPT ![link] = to], secret |-> secret, edits |-> kind = "edit",
   at |-> "queued", previous |-> DefaultTree]

JoinLane(write) == lane' = Append(lane, write) /\ issuedSoFar' = issuedSoFar + 1

(* toggleEnabled, confirmRemove and handleSubmit (a new connection, an     *)
(* edit with or without a key), a plain preference, the rate refresh.      *)
Write ==
  /\ issuedSoFar < MaxSettingsWrites
  /\ \E link \in Links, to \in LinkStates, kind \in {"edit", "pref", "fx"}, secret \in BOOLEAN :
       /\ kind = "edit" => view.on[link] # to
       /\ kind # "edit" => to = view.on[link] /\ link = CHOOSE l \in Links : TRUE
       /\ secret => kind = "edit" /\ to = "on"
       /\ JoinLane(Queued(kind, link, to, secret))
  /\ UNCHANGED <<kept, fileBad, view, overwritePrompt, pageLoads, inOrder, adrift>>

(* What a write makes of the settings it is merged into.  The service      *)
(* keeps the keys of the connections that stay.                            *)
PatchedTree(tree, write) ==
  CASE write.edits          -> [tree EXCEPT !.on = write.wire, !.keys = {l \in @ : write.wire[l] # "gone"}]
    [] write.kind = "key"   -> [tree EXCEPT !.keys = @ \cup {write.link}]
    [] write.kind = "fx"    -> [tree EXCEPT !.fresh = TRUE]
    [] OTHER                -> [tree EXCEPT !.pref = write.n]

(* The change shown while the write runs: one connection, not the list. *)
Optimistic(tree, write) ==
  CASE write.kind = "edit" -> [tree EXCEPT !.on[write.link] = write.to,
                                           !.keys = IF write.to = "gone" THEN @ \ {write.link}
                                                    ELSE IF write.secret THEN @ \cup {write.link} ELSE @]
    [] write.kind = "pref" -> [tree EXCEPT !.pref = write.n]
    [] OTHER               -> tree

(* Mutant: a write starts as soon as it is made. *)
MayStartAny(i) == lane[i].at = "queued"

(* Mutant: a write starts only if every earlier one took effect. *)
MayStartOnSuccess(i) == i = 1 /\ lane[i].at = "queued" /\ lane[i].n = Len(inOrder) + 1

(* createSingleFlight: the next write starts when the one before settled. *)
MayStart(i) == i = 1 /\ lane[i].at = "queued"

StartWrite ==
  /\ \E i \in 1 .. Len(lane) :
       /\ MayStart(i)
       /\ lane' = [lane EXCEPT ![i].at = "sent", ![i].previous = view]
       /\ view' = Optimistic(view, lane[i])
  /\ UNCHANGED <<kept, fileBad, overwritePrompt, pageLoads, issuedSoFar, inOrder, adrift>>

(* A broken file refuses all writes but the confirmed overwrite, which     *)
(* starts from the defaults; a key needs its connection.                   *)
Accepts(write) ==
  /\ fileBad => write.kind = "overwrite"
  /\ write.kind = "key" => kept.on[write.link] # "gone"

ServerApplies ==
  \E i \in 1 .. Len(lane) :
    /\ lane[i].at = "sent" /\ Accepts(lane[i])
    /\ kept' = PatchedTree(IF fileBad THEN DefaultTree ELSE kept, lane[i])
    /\ fileBad' = FALSE
    /\ lane' = [lane EXCEPT ![i].at = "applied"]
    /\ inOrder' = Append(inOrder, lane[i].n)
    /\ UNCHANGED <<view, overwritePrompt, pageLoads, issuedSoFar, adrift>>

Loading == \E i \in 1 .. Len(pageLoads) : pageLoads[i].at # "done"

-----------------------------------------------------------------------------
(* The answer carries the settings; a new connection's key follows as a    *)
(* write of its own, at the end of the queue.                              *)
WriteSucceeds ==
  \E i \in 1 .. Len(lane) :
    /\ lane[i].at = "applied"
    /\ view' = kept
    /\ IF lane[i].secret /\ issuedSoFar < MaxSettingsWrites
       THEN /\ lane' = Append(RemoveAt(lane, i), [Queued("key", lane[i].link, "on", FALSE) EXCEPT !.wire = kept.on])
            /\ issuedSoFar' = issuedSoFar + 1
       ELSE lane' = RemoveAt(lane, i) /\ UNCHANGED issuedSoFar
    /\ overwritePrompt' = IF lane[i].kind = "overwrite" THEN <<>> ELSE overwritePrompt
    /\ adrift' = (adrift \/ Loading)
    /\ UNCHANGED <<kept, fileBad, pageLoads, inOrder>>

(* Mutant: a write that failed is not put back. *)
RestoredNot(write) == view

(* A patch goes back to what was shown when it started; a key or a rate    *)
(* refresh showed nothing.                                                 *)
Restored(write) == IF write.kind \in {"edit", "pref"} THEN write.previous ELSE view

(* The 409 of a broken file arms the prompt; any other failure leaves it.  *)
RefusedAsBroken(write) == fileBad /\ write.at = "sent" /\ write.kind \in {"edit", "pref"}

WriteFails ==
  \E i \in 1 .. Len(lane) :
    /\ lane[i].at # "queued"
    /\ view' = Restored(lane[i])
    /\ lane' = RemoveAt(lane, i)
    /\ \/ lane[i].kind = "overwrite" /\ overwritePrompt' = <<>>
       \/ lane[i].kind # "overwrite" /\ UNCHANGED overwritePrompt
       \/ RefusedAsBroken(lane[i]) /\ overwritePrompt' = <<lane[i]>>
    /\ adrift' = (adrift \/ lane[i].at = "applied" \/ Loading)
    /\ UNCHANGED <<kept, fileBad, pageLoads, issuedSoFar, inOrder>>

ConfirmOverwrite ==
  /\ overwritePrompt # <<>> /\ issuedSoFar < MaxSettingsWrites
  /\ JoinLane([overwritePrompt[1] EXCEPT !.n = issuedSoFar + 1, !.kind = "overwrite", !.secret = FALSE,
                                          !.at = "queued"])
  /\ UNCHANGED <<kept, fileBad, view, overwritePrompt, pageLoads, inOrder, adrift>>

CancelOverwrite ==
  /\ overwritePrompt # <<>> /\ overwritePrompt' = <<>>
  /\ UNCHANGED <<kept, fileBad, view, lane, pageLoads, issuedSoFar, inOrder, adrift>>

-----------------------------------------------------------------------------
(* hydrate and reload: outside the queue. *)
LoadSettingsPage ==
  /\ Len(pageLoads) < MaxSettingsLoads
  /\ pageLoads' = Append(pageLoads, [at |-> "asked", answer |-> DefaultTree])
  /\ adrift' = (adrift \/ lane # <<>>)
  /\ UNCHANGED <<kept, fileBad, view, lane, overwritePrompt, issuedSoFar, inOrder>>

LoadAnswered(i) ==
  /\ pageLoads[i].at = "asked"
  /\ pageLoads' = [pageLoads EXCEPT ![i] = [at |-> "answered", answer |-> IF fileBad THEN DefaultTree ELSE kept]]
  /\ adrift' = (adrift \/ lane # <<>>)
  /\ UNCHANGED <<kept, fileBad, view, lane, overwritePrompt, issuedSoFar, inOrder>>

LoadArrives(i) ==
  /\ pageLoads[i].at = "answered"
  /\ view' = pageLoads[i].answer
  /\ pageLoads' = [pageLoads EXCEPT ![i].at = "done"]
  /\ overwritePrompt' = <<>>
  /\ adrift' = (adrift \/ lane # <<>>)
  /\ UNCHANGED <<kept, fileBad, lane, issuedSoFar, inOrder>>

PageLoadFails(i) ==
  /\ pageLoads[i].at \in {"asked", "answered"}
  /\ pageLoads' = [pageLoads EXCEPT ![i].at = "done"]
  /\ UNCHANGED <<kept, fileBad, view, lane, overwritePrompt, issuedSoFar, inOrder, adrift>>

(* The file is edited by hand and does not parse any more. *)
BreakFile ==
  /\ ~fileBad /\ fileBad' = TRUE
  /\ UNCHANGED <<kept, view, lane, overwritePrompt, pageLoads, issuedSoFar, inOrder, adrift>>

ClientSettingsInit ==
  /\ \E there \in SUBSET Links :
       kept = [DefaultTree EXCEPT !.on = [l \in Links |-> IF l \in there THEN "on" ELSE "gone"]]
  /\ view = kept /\ fileBad = FALSE /\ lane = <<>> /\ overwritePrompt = <<>> /\ pageLoads = <<>>
  /\ issuedSoFar = 0 /\ inOrder = <<>> /\ adrift = FALSE

LaneStep == StartWrite \/ ServerApplies \/ WriteSucceeds \/ WriteFails

ClientSettingsNext ==
  \/ Write \/ LaneStep \/ ConfirmOverwrite \/ CancelOverwrite \/ LoadSettingsPage \/ BreakFile
  \/ \E i \in 1 .. Len(pageLoads) : LoadAnswered(i) \/ LoadArrives(i) \/ PageLoadFails(i)

(* Requests are answered or fail. *)
LaneFairness == WF_settingsVars(LaneStep)

ClientSettingsSpec == ClientSettingsInit /\ [][ClientSettingsNext]_settingsVars /\ LaneFairness

-----------------------------------------------------------------------------
ClientSettingsTypeOK ==
  /\ kept \in SettingsTree /\ view \in SettingsTree /\ fileBad \in BOOLEAN /\ adrift \in BOOLEAN
  /\ lane \in Seq(SettingsWrite)
  /\ overwritePrompt \in Seq(SettingsWrite) /\ Len(overwritePrompt) <= 1
  /\ pageLoads \in Seq([at: {"asked", "answered", "done"}, answer: SettingsTree])
  /\ issuedSoFar \in 0 .. MaxSettingsWrites /\ inOrder \in Seq(WriteNumbers)

(* Only the head of the queue runs, the queue is in the order of the       *)
(* writes, and what took effect is older than what waits.                  *)
LaneInv ==
  /\ \A i \in 1 .. Len(lane) : lane[i].at = "queued" \/ i = 1
  /\ \A i, j \in 1 .. Len(lane) : i < j => lane[i].n < lane[j].n
  /\ \A i \in 1 .. Len(lane) : lane[i].n <= issuedSoFar
  /\ \A k \in 1 .. Len(inOrder) :
       /\ inOrder[k] <= issuedSoFar
       /\ \A i \in 1 .. Len(lane) : lane[i].at # "applied" => inOrder[k] < lane[i].n

(* With no write waiting the tab shows the stored settings, through        *)
(* refusals and their rollbacks, overwrites and loads, unless an answer    *)
(* was lost or a load crossed a write (settingsStore.hydrate is not in the *)
(* write queue).                                                           *)
QuietSettingsAgree == lane = <<>> /\ ~adrift /\ ~fileBad => view = kept

(* The queue keeps the promise of WriteLane: `waiting' is the queue,       *)
(* `landed' the writes as the server saw them (createSingleFlight).        *)
NumbersOf(queue) == [i \in 1 .. Len(queue) |-> queue[i].n]

Promise == INSTANCE WriteLane WITH Writes <- WriteNumbers, waiting <- NumbersOf(lane), landed <- inOrder

KeepsWriteOrder == Promise!LaneSpec

(* Every write is answered and the next one gets its turn, also after a    *)
(* failure.                                                                *)
LaneDrains == \A n \in WriteNumbers :
  (\E i \in 1 .. Len(lane) : lane[i].n = n) ~> (\A i \in 1 .. Len(lane) : lane[i].n # n)
=============================================================================
