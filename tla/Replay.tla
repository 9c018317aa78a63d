------------------------------- MODULE Replay -------------------------------
(***************************************************************************)
(* Interrupted turns of one tab and one conversation, and what the model   *)
(* is shown of them later (the server's chat/, docs/adr/0027).  The whole  *)
(* transcript travels with every request; the server stores what it was    *)
(* sent with the answer appended, and replays a copy from which it takes   *)
(* incomplete answers and provider artifacts.  The mark that says an       *)
(* answer is incomplete is made when the answer is stored.                 *)
(*                                                                         *)
(* An answer is the request it answers, how much text it has, its mark and *)
(* whether it carries reasoning or item references; a user's message is    *)
(* its turn.  Other tabs are the concern of CrossTab and ChatServer.       *)
(***************************************************************************)
EXTENDS Naturals, Sequences, SequencesExt

CONSTANT MaxAsked      \* bound: requests of the tab

ASSUME ReplayAssumption == MaxAsked \in Nat

VARIABLES
  saved,    \* the stored row, revision 0 while there is none
  talk,     \* the tab: [log, busy, base, refetch]
  flight,   \* the request under way
  prompt,   \* the transcript replayed to the model last
  asked,    \* requests made
  refused,  \* a request was rejected as invalid
  stopped   \* history: answers stored as incomplete, and not stored again from an unmarked copy

replayVars == <<saved, talk, flight, prompt, asked, refused, stopped>>

Marks == {"complete", "aborted", "error"}

(* `live': the answer was streamed to this tab, not loaded from the        *)
(* server.                                                                 *)
StreamedAnswer == [of: Nat, text: {"none", "part", "whole"}, mark: Marks, artifacts: BOOLEAN, live: BOOLEAN]

Silence == [of |-> 0, text |-> "none", mark |-> "complete", artifacts |-> FALSE, live |-> FALSE]

(* The answers of a transcript; Silence where a user's message has none.   *)
Answers == Seq(StreamedAnswer)

Heard(n, text, artifacts) ==
  [of |-> n, text |-> text, mark |-> "complete", artifacts |-> artifacts, live |-> TRUE]

NoFlight == [at |-> "none", base |-> 0, log |-> <<>>, server |-> Silence, client |-> Silence]

AnswerLast(log, answer) == Append(Front(log), answer)

-----------------------------------------------------------------------------
(* Mutant: content-free answers are validated with the rest. *)
WithoutEmptyNot(log) == log

(* stripEmptyAssistantTurns: an answer that never had a part is dropped,   *)
(* before the schema, which wants one, looks at the list.                  *)
WithoutEmpty(log) == [i \in 1 .. Len(log) |-> IF log[i].text = "none" THEN Silence ELSE log[i]]

ValidList(log) == \A i \in 1 .. Len(log) : log[i].of # 0 => log[i].text # "none"

(* Mutant: the marker is looked for in the last answer only. *)
WithoutIncompleteLast(log) ==
  [i \in 1 .. Len(log) |-> IF i = Len(log) - 1 /\ log[i].mark # "complete" THEN Silence ELSE log[i]]

(* stripIncompleteTurns *)
WithoutIncomplete(log) == [i \in 1 .. Len(log) |-> IF log[i].mark # "complete" THEN Silence ELSE log[i]]

(* stripItemReferences, pruneReasoningForReplay *)
WithoutArtifacts(log) == [i \in 1 .. Len(log) |-> [log[i] EXCEPT !.artifacts = FALSE]]

Replayed(log) == WithoutArtifacts(WithoutIncomplete(log))

(* assistantTurnHasContent *)
HasContent(answer) == answer.text # "none"

(* Mutant: what is replayed is what is stored. *)
ToStoreReplayed(status) ==
  LET sent == Replayed(flight.log)
  IN  IF status = "complete" THEN AnswerLast(sent, [flight.server EXCEPT !.text = "whole"])
      ELSE IF HasContent(flight.server) THEN AnswerLast(sent, [flight.server EXCEPT !.mark = status]) ELSE sent

(* turnMessagesToPersist, markIncompleteTurn: the list as it was sent, and *)
(* the answer, marked unless it is complete.                               *)
ToStore(status) ==
  IF status = "complete" THEN AnswerLast(flight.log, [flight.server EXCEPT !.text = "whole"])
  ELSE IF HasContent(flight.server) THEN AnswerLast(flight.log, [flight.server EXCEPT !.mark = status])
  ELSE flight.log

Conflicts == flight.base # 0 /\ saved.revision # 0 /\ flight.base # saved.revision

(* saveTurn: a stale base loses, which is only logged. *)
StoreAs(status) ==
  IF Conflicts THEN UNCHANGED <<saved, stopped>>
  ELSE /\ saved' = [revision |-> saved.revision + 1, log |-> ToStore(status)]
       /\ stopped' = (stopped \ {flight.log[i].of : i \in {j \in 1 .. Len(flight.log) : flight.log[j].live}})
                       \cup (IF status # "complete" /\ HasContent(flight.server) THEN {flight.server.of} ELSE {})

-----------------------------------------------------------------------------
(* A send, or a regenerate of the last answer. *)
Ask ==
  /\ asked < MaxAsked /\ ~talk.busy /\ flight = NoFlight
  /\ \E log \in {Append(talk.log, Silence)} \cup
                (IF talk.log = <<>> THEN {} ELSE {AnswerLast(talk.log, Silence)}) :
       /\ talk' = [talk EXCEPT !.log = log, !.busy = TRUE]
       /\ flight' = [NoFlight EXCEPT !.at = "posted", !.base = talk.base, !.log = log]
  /\ asked' = asked + 1
  /\ UNCHANGED <<saved, prompt, refused, stopped>>

(* POST /chat *)
ServeAsk ==
  /\ flight.at = "posted"
  /\ LET log == WithoutEmpty(flight.log)
     IN  IF ~ValidList(log)
         THEN /\ refused' = TRUE
              /\ flight' = [flight EXCEPT !.at = "refused"]
              /\ UNCHANGED prompt
         ELSE IF Conflicts
         THEN flight' = [flight EXCEPT !.at = "conflict"] /\ UNCHANGED <<prompt, refused>>
         ELSE /\ flight' = [flight EXCEPT !.at = "streaming", !.log = log, !.server = Heard(asked, "none", FALSE)]
              /\ prompt' = Replayed(log)
              /\ UNCHANGED refused
  /\ UNCHANGED <<saved, talk, asked, stopped>>

(* The model answers, with or without reasoning. *)
Streams ==
  /\ flight.at = "streaming" /\ flight.server.text = "none"
  /\ \E artifacts \in BOOLEAN : flight' = [flight EXCEPT !.server = Heard(asked, "part", artifacts)]
  /\ UNCHANGED <<saved, talk, prompt, asked, refused, stopped>>

(* The tab hears the start of the answer, then its text. *)
Hears ==
  /\ flight.at = "streaming" /\ talk.busy /\ flight.client # flight.server
  /\ \E heard \in {flight.server, Heard(asked, "none", FALSE)} : flight' = [flight EXCEPT !.client = heard]
  /\ flight'.client # flight.client /\ (flight.client.text = "part" => flight'.client.text = "part")
  /\ UNCHANGED <<saved, talk, prompt, asked, refused, stopped>>

ShowsHeard(refetch) ==
  talk' = [talk EXCEPT !.busy = FALSE, !.refetch = @ \/ refetch,
                       !.log = IF flight.client.of = 0 THEN @ ELSE AnswerLast(@, flight.client)]

(* Stop: the tab shows what it heard and refreshes nothing. *)
PressStop ==
  /\ talk.busy /\ flight.at \in {"posted", "streaming"}
  /\ ShowsHeard(FALSE)
  /\ flight' = IF flight.at = "streaming" THEN [flight EXCEPT !.at = "aborting"] ELSE NoFlight
  /\ UNCHANGED <<saved, prompt, asked, refused, stopped>>

(* The server hears of the abort, or had finished before. *)
AbortEnds ==
  /\ flight.at = "aborting"
  /\ \/ HasContent(flight.server) /\ StoreAs("aborted")
     \/ HasContent(flight.server) /\ StoreAs("complete")
     \/ ~HasContent(flight.server) /\ UNCHANGED <<saved, stopped>>
  /\ flight' = NoFlight
  /\ UNCHANGED <<talk, prompt, asked, refused>>

(* onFinish: the answer is stored, then the tab hears the end and          *)
(* refetches.                                                              *)
AnswerEnds ==
  /\ flight.at = "streaming" /\ talk.busy /\ HasContent(flight.server)
  /\ StoreAs("complete")
  /\ talk' = [talk EXCEPT !.busy = FALSE, !.refetch = TRUE,
                          !.log = AnswerLast(@, [flight.server EXCEPT !.text = "whole"])]
  /\ flight' = NoFlight
  /\ UNCHANGED <<prompt, asked, refused>>

(* An error of the provider: announced, nothing is refetched. *)
AnswerFails ==
  /\ flight.at = "streaming" /\ talk.busy
  /\ StoreAs("error")
  /\ ShowsHeard(FALSE)
  /\ flight' = NoFlight
  /\ UNCHANGED <<prompt, asked, refused>>

(* A 409 refetches, a 400 does not. *)
AskRejected ==
  /\ flight.at \in {"refused", "conflict"}
  /\ ShowsHeard(flight.at = "conflict")
  /\ flight' = NoFlight
  /\ UNCHANGED <<saved, prompt, asked, refused, stopped>>

-----------------------------------------------------------------------------
LoadedLog == [i \in 1 .. Len(saved.log) |-> [saved.log[i] EXCEPT !.live = FALSE]]

(* sameTranscript: ids, roles and text; the marks are not compared. *)
SameTranscript(log) ==
  /\ Len(log) = Len(saved.log)
  /\ \A i \in 1 .. Len(log) : log[i].of = saved.log[i].of /\ log[i].text = saved.log[i].text

(* The refetched detail is shown only if its transcript is another one. *)
RefetchTalk ==
  /\ talk.refetch /\ ~talk.busy
  /\ talk' = [talk EXCEPT !.refetch = FALSE, !.base = saved.revision,
                          !.log = IF SameTranscript(@) THEN @ ELSE LoadedLog]
  /\ UNCHANGED <<saved, flight, prompt, asked, refused, stopped>>

(* The page is loaded again. *)
ReloadTalk ==
  /\ ~talk.busy
  /\ talk' = [log |-> LoadedLog, busy |-> FALSE, base |-> saved.revision, refetch |-> FALSE]
  /\ UNCHANGED <<saved, flight, prompt, asked, refused, stopped>>

ReplayInit ==
  /\ saved = [revision |-> 0, log |-> <<>>]
  /\ talk = [log |-> <<>>, busy |-> FALSE, base |-> 0, refetch |-> FALSE]
  /\ flight = NoFlight /\ prompt = <<>> /\ asked = 0 /\ refused = FALSE /\ stopped = {}

ReplayNext ==
  \/ Ask \/ ServeAsk \/ Streams \/ Hears \/ PressStop \/ AbortEnds \/ AnswerEnds \/ AnswerFails
  \/ AskRejected \/ RefetchTalk \/ ReloadTalk

ReplaySpec == ReplayInit /\ [][ReplayNext]_replayVars

-----------------------------------------------------------------------------
ReplayTypeOK ==
  /\ {saved.log, talk.log, flight.log, prompt} \subseteq Answers
  /\ flight.at \in {"none", "posted", "streaming", "aborting", "refused", "conflict"}
  /\ stopped \subseteq 1 .. asked

(* However turns were stopped or failed, the next request of the tab is    *)
(* never rejected as invalid: a content-free answer does not poison the    *)
(* conversation (stripEmptyAssistantTurns), neither as the tab holds it    *)
(* nor once it is stored.                                                  *)
NeverPoisonedTalk == ~refused

(* An incomplete answer that the tab loaded is never replayed, and no      *)
(* answer with artifacts is, also after later turns stored it again (ADR   *)
(* 0027: "removes marked turns from the history sent to the model").       *)
LoadedStopsStayOut ==
  \A i \in 1 .. Len(prompt) : ~prompt[i].artifacts /\ (~prompt[i].live => prompt[i].of \notin stopped)

(* A stored incomplete answer that a later request carries stays stored,   *)
(* with its mark, although the prompt of that request leaves it out;       *)
(* excepted is the unmarked copy of the tab it was streamed to (ADR 0027:  *)
(* "while persistence and the transcript keep them").                      *)
TranscriptKeepsStops ==
  [][\A i \in DOMAIN saved.log \cap DOMAIN flight.log :
       saved' # saved /\ saved.log[i].of \in stopped' /\ flight.log[i].of = saved.log[i].of =>
         saved'.log[i].of = saved.log[i].of /\ saved'.log[i].mark = saved.log[i].mark]_replayVars

(* ADR 0027: "a persisted incomplete turn is display-only with respect to  *)
(* the model".                                                             *)
StoppedNotReplayed == \A i \in 1 .. Len(prompt) : prompt[i].of \notin stopped
=============================================================================
