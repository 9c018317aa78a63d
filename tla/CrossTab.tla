------------------------------ MODULE CrossTab ------------------------------
(***************************************************************************)
(* The browser side of one conversation open in several tabs: the query    *)
(* caches (lib/conversation), the chat surface and its hooks (hooks/chat,  *)
(* ConversationView) and the cross-tab channel (hooks/crosstab), over a    *)
(* server reduced to what ChatServer shows of it: one row with a revision  *)
(* and a transcript, a 409 for a stale base, a save that checks again.     *)
(*                                                                         *)
(* A tab keeps three things that ought to agree: the revision in the       *)
(* cached list, which every send carries as its base; the cached detail;   *)
(* and the transcript `useChat' shows and sends.  The two caches have an   *)
(* infinite stale time: only an invalidation refetches them, each with a   *)
(* request of its own, and an invalidation that finds a refetch under way  *)
(* starts it again.  The transcript follows the detail when the tab is     *)
(* neither busy nor editing.                                               *)
(*                                                                         *)
(* A transcript is the sequence of its turns; a turn's number stands for   *)
(* the user message and the answer to it.  React effects run with the      *)
(* render that causes them, so they are part of each step (Synced).        *)
(***************************************************************************)
EXTENDS Naturals, Sequences, SequencesExt

CONSTANTS
  Viewers,         \* the tabs with the conversation on screen
  MaxTabTurns,     \* bound: turns sent by all tabs together
  MaxFailures,     \* bound: refetches and turns that fail, answers that are lost
  MaxDeletions     \* bound: deletions that take effect

ASSUME CrossTabAssumption == MaxTabTurns \in Nat /\ MaxFailures \in Nat /\ MaxDeletions \in Nat

VARIABLES
  server,     \* the stored row: [revision, log]; revision 0 when there is none
  tab,        \* per tab: its caches, its chat and its flags
  sent,       \* every turn: who sent it, with which base and transcript
  channel,    \* per tab: broadcast events not yet handled, in order
  failures,
  deleting    \* per tab: its request to delete, from its effect to its answer

tabVars == <<server, tab, sent, channel, failures, deleting>>

TurnIds == 1 .. MaxTabTurns

(* `born' is history: the number of deletions before this incarnation. *)
SavedRow == [revision: Nat, log: Seq(TurnIds), born: Nat]
Gone     == [revision |-> 0, log |-> <<>>, born |-> 0]

Events == {"list-changed", "conversation-updated", "conversation-deleted"}

(* A query: the data it holds and its refetch.  `answer' is the response   *)
(* on its way, Gone while there is none.                                   *)
Query == [data: SavedRow, fetch: {"idle", "asked", "answered"}, answer: SavedRow]

(* `intent' is the action waiting for the send gate; `target' the turn an  *)
(* edit or a regenerate was aimed at.  History: `redone', the turns edits  *)
(* and regenerates took out of what the tab shows since it adopted that;   *)
(* `strayed', it shows a turn that was stopped, refused or failed since;   *)
(* `unheard', something happened that no refresh has told the tab of.      *)
TabState == [view: {"open", "deleted", "left"},
             phase: {"ready", "gated", "busy"},
             intent: {"send", "redo"}, target: Nat, turn: Nat,
             editing: BOOLEAN, list: Query, detail: Query, shown: Seq(TurnIds), applied: Nat,
             redone: SUBSET TurnIds, strayed: BOOLEAN, unheard: BOOLEAN]

(* History: `drops', the turns its tab had redone; `agreed', whether the   *)
(* base and the transcript were of one revision.                           *)
SentTurn == [at: {"unused", "posted", "streaming", "aborting", "saved", "ended"},
             base: Nat, log: Seq(TurnIds), drops: SUBSET TurnIds, agreed: BOOLEAN]

Unused == [at |-> "unused", base |-> 0, log |-> <<>>, drops |-> {}, agreed |-> FALSE]

Loaded(row) == [data |-> row, fetch |-> "idle", answer |-> Gone]

Left == [view |-> "left", phase |-> "ready", intent |-> "send", target |-> 0,
         turn |-> 0, editing |-> FALSE,
         list |-> Loaded(Gone), detail |-> Loaded(Gone), shown |-> <<>>,
         applied |-> 0, redone |-> {}, strayed |-> FALSE, unheard |-> FALSE]

-----------------------------------------------------------------------------
(***************************************************************************)
(* Caches and channel                                                      *)
(***************************************************************************)
Invalidated(query) == [query EXCEPT !.fetch = "asked", !.answer = Gone]

InvalidateList(s)   == [s EXCEPT !.list = Invalidated(@)]
InvalidateDetail(s) == [s EXCEPT !.detail = Invalidated(@)]

InvalidateConversation(s) == InvalidateDetail(InvalidateList(s))

(* useBaseRevision: the revision of the cached row, none when the list has *)
(* no such row.                                                            *)
BaseRevision(s) == s.list.data.revision

(* useSyncMessagesFromDetail: a detail of a later revision than the one    *)
(* applied last is adopted and shown, never under a turn or an editor.     *)
Synced(s) ==
  IF /\ s.view = "open" /\ s.phase # "busy" /\ ~s.editing
     /\ s.detail.data.revision > s.applied
  THEN [s EXCEPT !.applied = s.detail.data.revision, !.shown = s.detail.data.log,
                 !.redone = {}, !.strayed = FALSE]
  ELSE s

Becomes(t, s) == tab' = [tab EXCEPT ![t] = Synced(s)]

(* A channel hands every event to the other tabs, in order. *)
Post(t, events) ==
  channel' = [v \in Viewers |-> IF v = t \/ tab[v].view = "left" THEN channel[v]
                                ELSE channel[v] \o events]

-----------------------------------------------------------------------------
(***************************************************************************)
(* Sending                                                                 *)
(***************************************************************************)
Idle(t) == tab[t].view = "open" /\ tab[t].phase = "ready"

(* handleSend, handleRetry, regenerateMessage, editMessage: the action is  *)
(* chosen now and runs behind the send gate.                               *)
Act(t) ==
  /\ Idle(t)
  /\ \/ ~tab[t].editing /\ Becomes(t, [tab[t] EXCEPT !.phase = "gated", !.intent = "send"])
     \/ /\ tab[t].shown # <<>>
        /\ Becomes(t, [tab[t] EXCEPT !.phase = "gated", !.intent = "redo",
                                     !.target = Last(tab[t].shown), !.editing = FALSE])
  /\ UNCHANGED <<server, sent, channel, failures>>

PostTurn(t, redone, log) ==
  LET s == tab[t]
  IN  \E n \in TurnIds :
        /\ \A m \in TurnIds : sent[m].at = "unused" <=> m >= n
        /\ sent' = [sent EXCEPT ![n] = [at |-> "posted", base |-> BaseRevision(s), log |-> Append(log, n),
                                        drops |-> redone, agreed |-> BaseRevision(s) = s.applied]]
        /\ Becomes(t, [s EXCEPT !.phase = "busy", !.turn = n, !.target = 0, !.intent = "send",
                                !.redone = redone, !.shown = Append(log, n)])

PassGate(t) ==
  LET s == tab[t]
  IN  /\ s.view # "left" /\ s.phase = "gated"
      /\ \/ s.intent = "send" /\ PostTurn(t, s.redone, s.shown)
         \/ /\ s.intent = "redo" /\ s.shown # <<>> /\ Last(s.shown) = s.target
            /\ PostTurn(t, s.redone \cup {s.target}, Front(s.shown))
      /\ UNCHANGED <<server, channel, failures>>

(* The message an edit or a regenerate was aimed at is no longer there:    *)
(* the SDK throws before anything is sent.                                 *)
MessageActionFails(t) ==
  LET s == tab[t]
  IN  /\ s.view # "left" /\ s.phase = "gated" /\ s.intent = "redo"
      /\ s.target \notin Range(s.shown)
      /\ Becomes(t, [s EXCEPT !.phase = "ready", !.target = 0, !.intent = "send"])
      /\ UNCHANGED <<server, sent, channel, failures>>

(* handleStop, and useAbortOnLeave for a tab that goes: the tab is ready   *)
(* at once and refreshes nothing, whatever the server stores later.        *)
AbortTurn(t) ==
  IF tab[t].phase = "busy"
  THEN sent' = [sent EXCEPT ![tab[t].turn].at = IF @ = "streaming" THEN "aborting" ELSE "ended"]
  ELSE UNCHANGED sent

(* The turn was stored and its tab will not tell. *)
Untold(t) == tab[t].phase = "busy" /\ sent[tab[t].turn].at = "saved"

AllUnheard(tabs) == [v \in Viewers |-> IF tabs[v].view = "left" THEN tabs[v]
                                        ELSE [tabs[v] EXCEPT !.unheard = TRUE]]

BecomesAnd(t, s, untold) ==
  LET tabs == [tab EXCEPT ![t] = Synced(s)]
  IN  tab' = IF untold THEN AllUnheard(tabs) ELSE tabs

StopTurn(t) ==
  /\ tab[t].view # "left" /\ tab[t].phase = "busy"
  /\ AbortTurn(t)
  /\ BecomesAnd(t, [tab[t] EXCEPT !.phase = "ready", !.turn = 0, !.strayed = TRUE, !.unheard = TRUE], Untold(t))
  /\ UNCHANGED <<server, channel, failures>>

Leave(t) ==
  /\ tab[t].view # "left"
  /\ AbortTurn(t)
  /\ BecomesAnd(t, Left, Untold(t))
  /\ channel' = [channel EXCEPT ![t] = <<>>]
  /\ UNCHANGED <<server, failures>>

OpenEditor(t) ==
  /\ Idle(t) /\ ~tab[t].editing /\ tab[t].shown # <<>>
  /\ Becomes(t, [tab[t] EXCEPT !.editing = TRUE])
  /\ UNCHANGED <<server, sent, channel, failures>>

CloseEditor(t) ==
  /\ tab[t].view = "open" /\ tab[t].editing
  /\ Becomes(t, [tab[t] EXCEPT !.editing = FALSE])
  /\ UNCHANGED <<server, sent, channel, failures>>

-----------------------------------------------------------------------------
(***************************************************************************)
(* The server's half of a turn                                             *)
(***************************************************************************)
(* Mutant: the base of a request is not looked at. *)
StaleNever(n) == FALSE

(* resolveChatPersistenceTarget and saveTurn: a base that was given must   *)
(* be the revision of the row there is.                                    *)
Stale(n) == sent[n].base # 0 /\ server.revision # 0 /\ server.revision # sent[n].base

(* Mutant: only the save checks the base.                                  *)
AcceptSentUnchecked(n) ==
  /\ sent[n].at = "posted"
  /\ sent' = [sent EXCEPT ![n].at = "streaming"]
  /\ UNCHANGED <<server, tab, channel, failures>>

AcceptSent(n) ==
  /\ sent[n].at = "posted" /\ ~Stale(n)
  /\ sent' = [sent EXCEPT ![n].at = "streaming"]
  /\ UNCHANGED <<server, tab, channel, failures>>

(* Mutant: only the request is checked. *)
StoredAnyway(n) == server' = [server EXCEPT !.revision = @ + 1, !.log = sent[n].log]

(* A save whose base went stale during the stream is only logged. *)
Stored(n) ==
  server' = IF Stale(n) THEN server ELSE [server EXCEPT !.revision = @ + 1, !.log = sent[n].log]

SaveSent(n) ==
  /\ sent[n].at = "streaming"
  /\ Stored(n)
  /\ sent' = [sent EXCEPT ![n].at = "saved"]
  /\ UNCHANGED <<tab, channel, failures>>

(* After an abort the partial answer is stored if there is content. *)
SavePartial(n) ==
  /\ sent[n].at = "aborting"
  /\ \/ Stored(n) /\ tab' = AllUnheard(tab)
     \/ UNCHANGED <<server, tab>>
  /\ sent' = [sent EXCEPT ![n].at = "ended"]
  /\ UNCHANGED <<channel, failures>>

-----------------------------------------------------------------------------
(***************************************************************************)
(* The end of a turn in its tab                                            *)
(***************************************************************************)
Ends(t, at) == tab[t].view # "left" /\ tab[t].phase = "busy" /\ sent[tab[t].turn].at = at

(* onFinish after a success: refresh both caches, tell the other tabs. *)
TurnFinishes(t) ==
  /\ Ends(t, "saved")
  /\ sent' = [sent EXCEPT ![tab[t].turn].at = "ended"]
  /\ Becomes(t, InvalidateConversation([tab[t] EXCEPT !.phase = "ready", !.turn = 0, !.unheard = FALSE]))
  /\ Post(t, <<"conversation-updated", "list-changed">>)
  /\ UNCHANGED <<server, failures>>

(* Mutants: a refused turn leaves the tab busy; a conflict is announced    *)
(* and nothing is refreshed.                                               *)
TurnRefusedStaysBusy(t) ==
  /\ Ends(t, "posted") /\ Stale(tab[t].turn)
  /\ sent' = [sent EXCEPT ![tab[t].turn].at = "ended"]
  /\ Becomes(t, InvalidateConversation([tab[t] EXCEPT !.turn = 0, !.strayed = TRUE, !.unheard = FALSE]))
  /\ UNCHANGED <<server, channel, failures>>

TurnRefusedKeepsCaches(t) ==
  /\ Ends(t, "posted") /\ Stale(tab[t].turn)
  /\ sent' = [sent EXCEPT ![tab[t].turn].at = "ended"]
  /\ Becomes(t, [tab[t] EXCEPT !.phase = "ready", !.turn = 0, !.strayed = TRUE, !.unheard = FALSE])
  /\ UNCHANGED <<server, channel, failures>>

(* The 409: useChatConflict refreshes both caches. *)
TurnRefused(t) ==
  /\ Ends(t, "posted") /\ Stale(tab[t].turn)
  /\ sent' = [sent EXCEPT ![tab[t].turn].at = "ended"]
  /\ Becomes(t, InvalidateConversation([tab[t] EXCEPT !.phase = "ready", !.turn = 0,
                                                      !.strayed = TRUE, !.unheard = FALSE]))
  /\ UNCHANGED <<server, channel, failures>>

(* Any other error, before or during the stream: announced, no refresh.    *)
(* What came before an error in the stream is stored.                      *)
TurnFails(t) ==
  /\ failures < MaxFailures /\ failures' = failures + 1
  /\ \/ Ends(t, "posted") /\ UNCHANGED server
     \/ Ends(t, "streaming") /\ Stored(tab[t].turn)
  /\ sent' = [sent EXCEPT ![tab[t].turn].at = "ended"]
  /\ BecomesAnd(t, [tab[t] EXCEPT !.phase = "ready", !.turn = 0, !.strayed = TRUE, !.unheard = TRUE],
                sent[tab[t].turn].at = "streaming")
  /\ UNCHANGED channel

-----------------------------------------------------------------------------
(***************************************************************************)
(* Deleting, and events from the other tabs                                *)
(***************************************************************************)
(* useDeleteConversation on the conversation in view.  The row goes while  *)
(* the tab awaits the answer and is used on.                               *)
DeleteHere(t) ==
  /\ tab[t].view = "open" /\ deleting[t] = "no" /\ server.revision # 0
  /\ server.born < MaxDeletions
  /\ server' = [Gone EXCEPT !.born = server.born + 1]
  /\ deleting' = [deleting EXCEPT ![t] = "stored"]
  /\ UNCHANGED <<tab, sent, channel, failures>>

(* The answer: the other tabs are told, the tab navigates away, wherever   *)
(* it is by now, and a turn in flight is aborted.                          *)
DeleteSucceeds(t) ==
  /\ deleting[t] = "stored"
  /\ deleting' = [deleting EXCEPT ![t] = "no"]
  /\ AbortTurn(t)
  /\ tab' = [tab EXCEPT ![t] = Left]
  /\ channel' = [v \in Viewers |-> IF v = t \/ tab[v].view = "left" THEN <<>>
                                   ELSE channel[v] \o <<"conversation-deleted", "list-changed">>]
  /\ UNCHANGED <<server, failures>>

(* The answer is lost, or the tab is closed before it comes: the failure   *)
(* is announced and nothing else is done, so nobody is told of a deletion  *)
(* that took effect; the tab does not try again.  A request that fails     *)
(* before it takes effect changes nothing at all.                          *)
DeleteFails(t) ==
  /\ deleting[t] = "stored"
  /\ deleting' = [deleting EXCEPT ![t] = "lost"]
  /\ failures < MaxFailures /\ failures' = failures + 1
  /\ UNCHANGED <<server, tab, sent, channel>>

(* useConversationBroadcast.  An update that arrives under a turn is       *)
(* dropped: the end of that turn refreshes the detail.                     *)
Handle(s, event) ==
  CASE event = "list-changed"         -> InvalidateList(s)
    [] event = "conversation-updated" -> IF s.phase # "busy" THEN InvalidateDetail(s) ELSE s
    [] OTHER                          -> [s EXCEPT !.view = "deleted"]

StillUnheard(s, event) == IF event = "conversation-updated" THEN s.phase = "busy" ELSE s.unheard

Receive(t) ==
  /\ channel[t] # <<>>
  /\ channel' = [channel EXCEPT ![t] = Tail(@)]
  /\ LET event == Head(channel[t])
     IN  Becomes(t, [Handle(tab[t], event) EXCEPT !.unheard = StillUnheard(tab[t], event)])
  /\ UNCHANGED <<server, sent, failures>>

-----------------------------------------------------------------------------
(***************************************************************************)
(* Refetches                                                               *)
(***************************************************************************)
Answered(query) == [query EXCEPT !.fetch = "answered", !.answer = server]

AnswerList(t)   == /\ tab[t].view # "left" /\ tab[t].list.fetch = "asked"
                   /\ Becomes(t, [tab[t] EXCEPT !.list = Answered(@)])
                   /\ UNCHANGED <<server, sent, channel, failures>>
AnswerDetail(t) == /\ tab[t].view # "left" /\ tab[t].detail.fetch = "asked"
                   /\ Becomes(t, [tab[t] EXCEPT !.detail = Answered(@)])
                   /\ UNCHANGED <<server, sent, channel, failures>>

LoadList(t)   == /\ tab[t].list.fetch = "answered"
                 /\ Becomes(t, [tab[t] EXCEPT !.list = Loaded([@.answer EXCEPT !.log = <<>>])])
                 /\ UNCHANGED <<server, sent, channel, failures>>
LoadDetail(t) == /\ tab[t].detail.fetch = "answered"
                 /\ Becomes(t, [tab[t] EXCEPT !.detail = Loaded(@.answer)])
                 /\ UNCHANGED <<server, sent, channel, failures>>

(* A failed refetch keeps the data there is. *)
RefetchFails(t) ==
  /\ failures < MaxFailures /\ failures' = failures + 1
  /\ \/ /\ tab[t].list.fetch = "asked"
        /\ Becomes(t, [tab[t] EXCEPT !.list = Loaded(@.data), !.unheard = TRUE])
     \/ /\ tab[t].detail.fetch = "asked"
        /\ Becomes(t, [tab[t] EXCEPT !.detail = Loaded(@.data), !.unheard = TRUE])
  /\ UNCHANGED <<server, sent, channel>>

-----------------------------------------------------------------------------
(* Every tab has loaded a conversation that was just created. *)
CrossTabInit ==
  LET row == [Gone EXCEPT !.revision = 1]
  IN  /\ server = row
      /\ tab = [t \in Viewers |-> [Left EXCEPT !.view = "open", !.list = Loaded(row),
                                               !.detail = Loaded(row), !.applied = 1]]
      /\ sent = [n \in TurnIds |-> Unused]
      /\ channel = [t \in Viewers |-> <<>>]
      /\ failures = 0
      /\ deleting = [t \in Viewers |-> "no"]

TurnStep(n) == AcceptSent(n) \/ SaveSent(n) \/ SavePartial(n)

CacheStep(t) == AnswerList(t) \/ AnswerDetail(t) \/ LoadList(t) \/ LoadDetail(t)

DeleteStep(t) == DeleteHere(t) \/ DeleteSucceeds(t) \/ DeleteFails(t)

CrossTabNext ==
  \/ \E t \in Viewers : DeleteStep(t)
  \/ /\ UNCHANGED deleting
     /\ \/ \E t \in Viewers :
             \/ Act(t) \/ PassGate(t) \/ MessageActionFails(t) \/ StopTurn(t) \/ Leave(t)
             \/ OpenEditor(t) \/ CloseEditor(t)
             \/ TurnFinishes(t) \/ TurnRefused(t) \/ TurnFails(t)
             \/ Receive(t) \/ CacheStep(t) \/ RefetchFails(t)
        \/ \E n \in TurnIds : TurnStep(n)

CrossTabSpec == CrossTabInit /\ [][CrossTabNext]_tabVars

-----------------------------------------------------------------------------
(* Types; and a tab is busy exactly while it has a turn. *)
CrossTabTypeOK ==
  /\ server \in SavedRow
  /\ tab \in [Viewers -> TabState]
  /\ \A t \in Viewers : tab[t].phase = "busy" <=> tab[t].turn \in TurnIds
  /\ sent \in [TurnIds -> SentTurn]
  /\ channel \in [Viewers -> Seq(Events)]
  /\ failures \in Nat
  /\ deleting \in [Viewers -> {"no", "stored", "lost"}]

InFlight == \E n \in TurnIds : sent[n].at \in {"posted", "streaming", "aborting", "saved"}

Still(t) == /\ tab[t].phase = "ready" /\ ~tab[t].editing /\ channel[t] = <<>>
            /\ tab[t].list.fetch = "idle" /\ tab[t].detail.fetch = "idle"

(* Somebody has deleted the conversation and has not told, or never will.  *)
DeletionUntold == \E t \in Viewers : deleting[t] # "no"

(* Tabs converge: with nothing on its way, an open tab that no silent end  *)
(* of a turn, failed refetch or lost answer to a deletion has left behind  *)
(* holds the stored revision in both caches, and shows the stored          *)
(* transcript unless its own turn was stopped, refused or failed since     *)
(* (useConversationBroadcast drops updates under a turn,                   *)
(* useSyncMessagesFromDetail holds them back: neither loses one).          *)
QuietTabsAgree ==
  \A t \in Viewers :
    (~InFlight /\ ~DeletionUntold /\ Still(t) /\ tab[t].view = "open" /\ ~tab[t].unheard) =>
      /\ tab[t].list.data.revision = server.revision
      /\ tab[t].detail.data = server
      /\ ~tab[t].strayed => tab[t].shown = server.log

(* A save takes nothing out of the stored transcript but turns that were   *)
(* edited or regenerated in its own tab.                                   *)
KeepsStored(n) ==
  server.revision # 0 => Range(server.log) \subseteq Range(sent[n].log) \cup sent[n].drops

Saves(n) == sent[n].at # sent'[n].at /\ server'.log = sent[n].log /\ server'.revision > server.revision

(* A turn sent while the list's revision was that of the transcript shown  *)
(* never takes away a turn that was stored, whatever the other tabs did    *)
(* meanwhile, short of deleting the conversation.                          *)
AgreedSendKeepsStored ==
  [][\A n \in TurnIds : Saves(n) /\ sent[n].agreed /\ server.born = 0 => KeepsStored(n)]_tabVars

(* The row as SharedRows has it, and the turns as its requests.            *)
SharedRow ==
  [row \in {"row"} |-> [revision |-> server.revision, log |-> IF server.revision = 0 THEN <<>> ELSE server.log]]

Pending(turn, at) == [at |-> at, id |-> "row", base |-> turn.base, stores |-> {turn.log}]

PendingTurns ==
  [n \in TurnIds |-> CASE sent[n].at = "posted"                   -> Pending(sent[n], "posted")
                       [] sent[n].at \in {"streaming", "aborting"} -> Pending(sent[n], "accepted")
                       [] OTHER                                    -> [at |-> "none"]]

Shared == INSTANCE SharedRows WITH Rows <- {"row"}, Senders <- TurnIds, Absent <- [revision |-> 0, log |-> <<>>],
                                   NoBase <- 0, shared <- SharedRow, pending <- PendingTurns

(* The server that is left here does to its row what ChatServer's does to  *)
(* each of its rows: turns replace the transcript only under the revision  *)
(* they were made from, also when their tab stops, leaves or deletes.      *)
SharesRow == Shared!Spec

(* "A rare rapid resend that races that background refetch is safely       *)
(* rejected by the server - never data loss" (useChatConflict.ts): no save *)
(* takes away a stored turn, whenever the request was made.                *)
NoTurnLost == [][\A n \in TurnIds : Saves(n) => KeepsStored(n)]_tabVars

-----------------------------------------------------------------------------
(***************************************************************************)
(* Why they hold.  A deletion is the end of the story: no tab opens the    *)
(* conversation again, and those that have it open are about to hear, once *)
(* the tab that deleted it has its answer.                                 *)
(***************************************************************************)
Awaits(t, event) == \E i \in DOMAIN channel[t] : channel[t][i] = event

DeletionHeard ==
  server.born # 0 /\ ~DeletionUntold => \A t \in Viewers : tab[t].view = "open" => Awaits(t, "conversation-deleted")

(* Every update in a channel is followed by the news of the list.          *)
Paired(t) ==
  \A i \in DOMAIN channel[t] : channel[t][i] = "conversation-updated" =>
    \E j \in DOMAIN channel[t] : j > i /\ channel[t][j] = "list-changed"

(* A tab that has left is told nothing.                                    *)
Deaf(t) == tab[t].view = "left" => channel[t] = <<>>

(* Before a deletion, a revision stands for one row, in every cache and answer.    *)
Known(row) == row.revision <= server.revision /\ (row.revision = server.revision => row = server)

KnowsRows(s) ==
  /\ s.applied \in 1 .. server.revision
  /\ s.list.data.revision \in 1 .. server.revision
  /\ s.list.fetch = "answered" => s.list.answer.revision \in 1 .. server.revision
  /\ Known(s.detail.data)
  /\ s.detail.fetch = "answered" => Known(s.detail.answer)

(* What a tab shows under the stored revision is the stored transcript,    *)
(* but for what its own actions took out of it or added to it.             *)
ShowsStored(s) ==
  s.applied = server.revision =>
    /\ Range(server.log) \subseteq Range(s.shown) \cup s.redone
    /\ s.phase # "busy" /\ ~s.strayed => s.shown = server.log

(* A turn that the server took overtakes what its tab had adopted.         *)
Overtakes(s) ==
  s.phase = "busy" =>
    /\ sent[s.turn].at = "streaming" => s.applied <= sent[s.turn].base
    /\ sent[s.turn].at = "saved" => s.applied < server.revision

(* A cache is as recent as the row, or will be when its refetch is done,   *)
(* or news of the row are still on their way to it.                        *)
Fresh(query) ==
  \/ query.fetch = "asked"
  \/ query.fetch = "answered" /\ query.answer.revision = server.revision
  \/ query.fetch = "idle" /\ query.data.revision = server.revision

SomeUntold == \E n \in TurnIds : sent[n].at = "saved"

Hears(t) ==
  ~tab[t].unheard =>
    /\ Fresh(tab[t].list) \/ Awaits(t, "list-changed") \/ SomeUntold
    /\ Fresh(tab[t].detail) \/ Awaits(t, "conversation-updated") \/ SomeUntold

(* A request on its way that would pass the check takes nothing away.      *)
SentKeeps(n) ==
  sent[n].at \in {"posted", "streaming", "aborting"} =>
    /\ sent[n].base \in 1 .. server.revision
    /\ sent[n].agreed /\ sent[n].base = server.revision =>
         Range(server.log) \subseteq Range(sent[n].log) \cup sent[n].drops

BeforeDeletion ==
  /\ server.revision >= 1
  /\ \A n \in TurnIds : SentKeeps(n)
  /\ \A t \in Viewers : tab[t].view # "left" =>
       /\ Synced(tab[t]) = tab[t]
       /\ KnowsRows(tab[t]) /\ ShowsStored(tab[t]) /\ Overtakes(tab[t]) /\ Hears(t)

TabsInv ==
  /\ DeletionHeard
  /\ DeletionUntold => server.born # 0
  /\ \A t \in Viewers : Paired(t) /\ Deaf(t)
  /\ server.born = 0 => BeforeDeletion
=============================================================================
