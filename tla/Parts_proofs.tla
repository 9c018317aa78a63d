---------------------------- MODULE Parts_proofs ----------------------------
(***************************************************************************)
(* Proofs about three of the parts that share no state: the keep-alive     *)
(* stream, for every interval, timeout and number of chunks, the replay of *)
(* interrupted turns, for every number of requests, and the model catalog, *)
(* for any number of callers, loads and busts and any lifetime.            *)
(***************************************************************************)
EXTENDS KeepAlive, Replay, CatalogCache, SequenceTheorems, TLAPS

-----------------------------------------------------------------------------
(***************************************************************************)
(* KeepAlive.  The ping has to come before the timeout, which is all that  *)
(* is assumed.                                                             *)
(***************************************************************************)
(* The timer runs exactly while the stream is open, and shows how long it  *)
(* has been silent (sse-keep-alive.ts, rearm).                             *)
THEOREM KeepAliveInvariant == KeepAliveSpec => []KeepAliveInv
<1>0. KeepInterval \in Nat /\ IdleTimeout \in Nat /\ MaxStreamChunks \in Nat
      /\ KeepInterval > 0 /\ MaxStreamChunks > 0 /\ KeepInterval < IdleTimeout
  BY KeepAliveAssumption
<1>1. KeepAliveInit => KeepAliveInv
  BY <1>0 DEF KeepAliveInit, KeepAliveInv, KeepAliveTypeOK, Armed
<1>2. KeepAliveInv /\ [KeepAliveNext]_keepAliveVars => KeepAliveInv'
  <2> SUFFICES ASSUME KeepAliveInv, [KeepAliveNext]_keepAliveVars
               PROVE  KeepAliveInv'
    OBVIOUS
  <2> USE DEF KeepAliveInv, KeepAliveTypeOK, Armed, Cleared
  <2>1. CASE ChunkArrives
    <3>1. CASE outlet = "cancelled"
      <4>1. outlet' = outlet /\ silentFor' = silentFor /\ timer' = Cleared
        BY <2>1, <3>1 DEF ChunkArrives
      <4>2. pump' = [pump EXCEPT !.at = "stopped"]
        BY <2>1, <3>1 DEF ChunkArrives
      <4>3. pump' \in [at : {"reading", "stopped"}, chunks : 0 .. MaxStreamChunks] /\ pump'.at = "stopped"
        BY <4>2
      <4> QED
        BY <1>0, <3>1, <4>1, <4>3
    <3>2. CASE outlet # "cancelled"
      <4>1. outlet = "open" /\ outlet' = "open" /\ silentFor' = 0 /\ timer' = Armed
        BY <2>1, <3>2 DEF ChunkArrives, AfterChunk
      <4>2. pump.chunks + 1 \in 0 .. MaxStreamChunks /\ pump' = [pump EXCEPT !.chunks = @ + 1]
        BY <1>0, <2>1, <3>2 DEF ChunkArrives
      <4>3. pump' \in [at : {"reading", "stopped"}, chunks : 0 .. MaxStreamChunks] /\ pump'.at = "reading"
        BY <4>2, <2>1 DEF ChunkArrives
      <4> QED
        BY <1>0, <4>1, <4>3
    <3> QED
      BY <3>1, <3>2
  <2>2. CASE AnswerOver
    BY <1>0, <2>2 DEF AnswerOver
  <2>3. CASE PingFires
    <3>1. outlet = "open" /\ timer' = Armed /\ silentFor' = 0 /\ pump' = pump /\ outlet' = outlet
      BY <2>3 DEF PingFires
    <3> QED
      BY <1>0, <3>1
  <2>4. CASE ConsumerLeaves
    BY <1>0, <2>4 DEF ConsumerLeaves
  <2>5. CASE StreamTick
    <3>0. timer.armed
      BY <2>5 DEF StreamTick
    <3>1. timer.age \in 0 .. KeepInterval - 1 /\ timer' = [timer EXCEPT !.age = @ + 1]
      BY <1>0, <2>5, <3>0 DEF StreamTick
    <3>2. timer' \in [armed : BOOLEAN, age : 0 .. KeepInterval]
      BY <1>0, <3>1
    <3>3. silentFor' = timer'.age /\ silentFor' \in 0 .. IdleTimeout
      BY <1>0, <2>5, <3>1 DEF StreamTick
    <3> QED
      BY <1>0, <2>5, <3>0, <3>1, <3>2, <3>3 DEF StreamTick
  <2>6. CASE UNCHANGED keepAliveVars
    BY <2>6 DEF keepAliveVars
  <2> QED
    BY <2>1, <2>2, <2>3, <2>4, <2>5, <2>6 DEF KeepAliveNext
<1> QED
  BY <1>1, <1>2, PTL DEF KeepAliveSpec

(* An open stream is written to in time, and one that is over has no timer *)
(* left (sse-keep-alive.ts against serve-options.ts' idle timeout).        *)
THEOREM KeepAliveSilence == KeepAliveSpec => []StreamStaysAlive
<1>1. KeepAliveInv => StreamStaysAlive
  BY KeepAliveAssumption DEF KeepAliveInv, KeepAliveTypeOK, StreamStaysAlive
<1> QED
  BY <1>1, KeepAliveInvariant, PTL

-----------------------------------------------------------------------------
(***************************************************************************)
(* Replay                                                                  *)
(***************************************************************************)
(* The answers of a transcript by the request they answer and their mark;  *)
(* and those of them that were loaded from the server.                     *)
MarksOf(log)   == {<<log[i].of, log[i].mark>> : i \in 1 .. Len(log)}
LoadedOf(log) == {<<log[i].of, log[i].mark>> : i \in {j \in 1 .. Len(log) : ~log[j].live}}

(* Every mark the server has given and that is stored or was loaded. *)
LoadedMarks == MarksOf(saved.log) \cup LoadedOf(talk.log) \cup LoadedOf(flight.log)

FlightStages == {"none", "posted", "streaming", "aborting", "refused", "conflict"}

ReplayTypes ==
  /\ saved \in [revision: Nat, log: Answers]
  /\ talk \in [log: Answers, busy: BOOLEAN, base: Nat, refetch: BOOLEAN]
  /\ flight \in [at: FlightStages, base: Nat, log: Answers, server: StreamedAnswer, client: StreamedAnswer]
  /\ prompt \in Answers /\ asked \in Nat /\ refused \in BOOLEAN
  /\ stopped \in SUBSET (1 .. asked)

(* The request under way ends in a place for its answer, which is newer    *)
(* than everything stored, loaded or sent.                                 *)
FlightNewest ==
  /\ talk.busy => talk.log # <<>>
  /\ \A p \in MarksOf(talk.log) \cup MarksOf(saved.log) : p[1] <= asked
  /\ flight.at # "none" =>
       /\ flight.log # <<>> /\ flight.log[Len(flight.log)].of = 0
       /\ asked \notin stopped
       /\ \A p \in LoadedMarks \cup MarksOf(flight.log) : p[1] < asked
  /\ flight.at \in {"posted", "conflict"} => talk.busy
  /\ flight.at \in {"streaming", "aborting"} => flight.server.of = asked /\ flight.server.live
  /\ flight.client.of # 0 => flight.client.live /\ flight.client.of <= asked

(* A stopped answer, wherever it was stored or loaded, has one mark, and   *)
(* it says that the answer is incomplete.                                  *)
StopsMarked ==
  \A p \in LoadedMarks : p[1] \in stopped =>
    /\ p[2] # "complete"
    /\ \A q \in LoadedMarks : q[1] = p[1] => q[2] = p[2]

(* The last prompt is older than the request under way. *)
PromptOlder == \A i \in 1 .. Len(prompt) : prompt[i].of < asked

ReplayInv ==
  /\ ReplayTypes /\ FlightNewest /\ StopsMarked /\ PromptOlder
  /\ LoadedStopsStayOut /\ NeverPoisonedTalk /\ flight.at # "refused"

(* What is said of an answer by its place in a transcript. *)
LEMMA MarkedAt ==
  ASSUME NEW log \in Answers
  PROVE  /\ Len(log) \in Nat /\ \A i \in 1 .. Len(log) : log[i] \in StreamedAnswer
         /\ \A i \in 1 .. Len(log) : <<log[i].of, log[i].mark>> \in MarksOf(log)
         /\ \A i \in 1 .. Len(log) : log[i].live \/ <<log[i].of, log[i].mark>> \in LoadedOf(log)
         /\ LoadedOf(log) \subseteq MarksOf(log)
         /\ \A p \in MarksOf(log) : p[1] \in Nat
<1>1. Len(log) \in Nat /\ \A i \in 1 .. Len(log) : log[i] \in StreamedAnswer
  BY DEF Answers
<1>2. \A p \in MarksOf(log) : p[1] \in Nat
  BY <1>1 DEF MarksOf, StreamedAnswer
<1> QED
  BY <1>1, <1>2 DEF MarksOf, LoadedOf

LEMMA NothingMarked == MarksOf(<<>>) = {} /\ LoadedOf(<<>>) = {} /\ <<>> \in Answers
BY DEF MarksOf, LoadedOf, Answers

LEMMA SilenceIsAnswer ==
  Silence \in StreamedAnswer /\ Silence.of = 0 /\ Silence.mark = "complete" /\ ~Silence.live
BY DEF Silence, StreamedAnswer, Marks

(* A transcript with its last answer given, or with one answer more, says  *)
(* nothing new but of that answer; and nothing new is loaded when that     *)
(* answer was streamed.                                                    *)
LEMMA AnsweredLast ==
  ASSUME NEW log \in Answers, log # <<>>, NEW a \in StreamedAnswer
  PROVE  /\ AnswerLast(log, a) \in Answers /\ AnswerLast(log, a) # <<>>
         /\ Len(AnswerLast(log, a)) = Len(log) /\ AnswerLast(log, a)[Len(log)] = a
         /\ \A i \in 1 .. Len(log) : i # Len(log) => AnswerLast(log, a)[i] = log[i]
         /\ MarksOf(AnswerLast(log, a)) \subseteq MarksOf(log) \cup {<<a.of, a.mark>>}
         /\ LoadedOf(AnswerLast(log, a)) \subseteq LoadedOf(log) \cup {<<a.of, a.mark>>}
         /\ a.live => LoadedOf(AnswerLast(log, a)) \subseteq LoadedOf(log)
<1> DEFINE k == Len(log) - 1
           answered == AnswerLast(log, a)
<1>1. Len(log) \in Nat /\ k \in Nat /\ k + 1 = Len(log) /\ k - 1 + 1 = k /\ 1 \in Int /\ k \in Int
  BY DEF Answers
<1>2. \A i \in 1 .. k : log[i] \in StreamedAnswer
  BY <1>1 DEF Answers
<1>3. Front(log) = SubSeq(log, 1, k)
  BY DEF Front
<1> HIDE DEF k
<1>4. /\ Front(log) \in Seq(StreamedAnswer) /\ Len(Front(log)) = k
      /\ \A i \in 1 .. k : Front(log)[i] = log[i]
  BY <1>1, <1>2, <1>3
<1>5. /\ answered \in Answers /\ Len(answered) = k + 1 /\ answered[k + 1] = a
      /\ \A i \in 1 .. k : answered[i] = log[i]
  BY <1>1, <1>4 DEF AnswerLast, Answers
<1> HIDE DEF answered
<1>6. answered # <<>> /\ Len(answered) = Len(log) /\ answered[Len(log)] = a
  BY <1>1, <1>5
<1>7. \A i \in 1 .. Len(log) : i # Len(log) => answered[i] = log[i]
  BY <1>1, <1>5
<1>8. MarksOf(answered) \subseteq MarksOf(log) \cup {<<a.of, a.mark>>}
  BY <1>6, <1>7 DEF MarksOf
<1>9. LoadedOf(answered) \subseteq LoadedOf(log) \cup {<<a.of, a.mark>>}
  BY <1>6, <1>7 DEF LoadedOf
<1>10. ASSUME a.live
       PROVE  LoadedOf(answered) \subseteq LoadedOf(log)
  BY <1>6, <1>7, <1>10 DEF LoadedOf
<1> QED
  BY <1>5, <1>6, <1>7, <1>8, <1>9, <1>10 DEF answered

LEMMA Lengthened ==
  ASSUME NEW log \in Answers, NEW a \in StreamedAnswer
  PROVE  /\ Append(log, a) \in Answers /\ Append(log, a) # <<>>
         /\ Append(log, a)[Len(Append(log, a))] = a
         /\ MarksOf(Append(log, a)) \subseteq MarksOf(log) \cup {<<a.of, a.mark>>}
         /\ LoadedOf(Append(log, a)) \subseteq LoadedOf(log) \cup {<<a.of, a.mark>>}
<1> DEFINE longer == Append(log, a)
<1>1. /\ Len(log) \in Nat /\ longer \in Answers /\ Len(longer) = Len(log) + 1
      /\ longer[Len(log) + 1] = a /\ \A i \in 1 .. Len(log) : longer[i] = log[i]
  BY DEF Answers
<1> HIDE DEF longer
<1>2. \A i \in 1 .. Len(longer) : i \in 1 .. Len(log) \/ i = Len(longer)
  BY <1>1
<1>3. MarksOf(longer) \subseteq MarksOf(log) \cup {<<a.of, a.mark>>}
  BY <1>1, <1>2 DEF MarksOf
<1>4. LoadedOf(longer) \subseteq LoadedOf(log) \cup {<<a.of, a.mark>>}
  BY <1>1, <1>2 DEF LoadedOf
<1>5. longer # <<>>
  BY <1>1
<1> QED
  BY <1>1, <1>3, <1>4, <1>5 DEF longer

(* What the request strips from a transcript before it is looked at, and   *)
(* what it shows the model: every answer is kept in its place, or silent.  *)
LEMMA Stripped ==
  ASSUME NEW log \in Answers
  PROVE  /\ WithoutEmpty(log) \in Answers /\ Len(WithoutEmpty(log)) = Len(log)
         /\ \A i \in 1 .. Len(log) : WithoutEmpty(log)[i] \in {log[i], Silence}
         /\ ValidList(WithoutEmpty(log))
         /\ MarksOf(WithoutEmpty(log)) \subseteq MarksOf(log) \cup {<<0, "complete">>}
         /\ LoadedOf(WithoutEmpty(log)) \subseteq LoadedOf(log) \cup {<<0, "complete">>}
<1> DEFINE kept == WithoutEmpty(log)
<1>1. Len(log) \in Nat /\ \A i \in 1 .. Len(log) : log[i] \in StreamedAnswer
  BY DEF Answers
<1>2. /\ kept \in Answers /\ Len(kept) = Len(log)
      /\ \A i \in 1 .. Len(log) : kept[i] = IF log[i].text = "none" THEN Silence ELSE log[i]
  BY <1>1, SilenceIsAnswer DEF WithoutEmpty, Answers
<1> HIDE DEF kept
<1>3. \A i \in 1 .. Len(log) : kept[i] \in {log[i], Silence}
  BY <1>2
<1>4. ValidList(kept)
  BY <1>2, SilenceIsAnswer DEF ValidList
<1>5. MarksOf(kept) \subseteq MarksOf(log) \cup {<<0, "complete">>}
  BY <1>2, <1>3, SilenceIsAnswer DEF MarksOf
<1>6. LoadedOf(kept) \subseteq LoadedOf(log) \cup {<<0, "complete">>}
  BY <1>2, <1>3, SilenceIsAnswer DEF LoadedOf
<1> QED
  BY <1>2, <1>3, <1>4, <1>5, <1>6 DEF kept

LEMMA ReplayedIs ==
  ASSUME NEW log \in Answers
  PROVE  /\ Replayed(log) \in Answers /\ Len(Replayed(log)) = Len(log)
         /\ \A i \in 1 .. Len(log) :
              /\ ~Replayed(log)[i].artifacts
              /\ \/ Replayed(log)[i].of = 0
                 \/ /\ Replayed(log)[i].of = log[i].of /\ log[i].mark = "complete"
                    /\ Replayed(log)[i].live = log[i].live
<1> DEFINE shown == WithoutIncomplete(log)
           bare  == WithoutArtifacts(shown)
<1>1. Len(log) \in Nat /\ \A i \in 1 .. Len(log) : log[i] \in StreamedAnswer
  BY DEF Answers
<1>2. /\ shown \in Answers /\ Len(shown) = Len(log)
      /\ \A i \in 1 .. Len(log) : shown[i] = IF log[i].mark # "complete" THEN Silence ELSE log[i]
  BY <1>1, SilenceIsAnswer DEF WithoutIncomplete, Answers
<1> HIDE DEF shown
<1>3. \A i \in 1 .. Len(log) : shown[i] \in StreamedAnswer
  BY <1>2, <1>1, SilenceIsAnswer
<1>4. \A i \in 1 .. Len(log) : [shown[i] EXCEPT !.artifacts = FALSE] \in StreamedAnswer
  BY <1>3 DEF StreamedAnswer
<1>5. /\ bare \in Answers /\ Len(bare) = Len(log)
      /\ \A i \in 1 .. Len(log) : bare[i] = [shown[i] EXCEPT !.artifacts = FALSE]
  BY <1>1, <1>2, <1>4 DEF WithoutArtifacts, Answers
<1>6. Replayed(log) = bare
  BY DEF Replayed, shown
<1> HIDE DEF bare
<1>7. \A i \in 1 .. Len(log) :
        ~bare[i].artifacts /\ bare[i].of = shown[i].of /\ bare[i].live = shown[i].live
  BY <1>3, <1>5 DEF StreamedAnswer
<1> QED
  BY <1>2, <1>5, <1>6, <1>7, SilenceIsAnswer

(* What is loaded is what is stored. *)
LEMMA LoadedLogIs ==
  ASSUME saved.log \in Answers
  PROVE  LoadedLog \in Answers /\ MarksOf(LoadedLog) = MarksOf(saved.log)
<1>1. Len(saved.log) \in Nat /\ \A i \in 1 .. Len(saved.log) : saved.log[i] \in StreamedAnswer
  BY DEF Answers
<1>2. \A i \in 1 .. Len(saved.log) : [saved.log[i] EXCEPT !.live = FALSE] \in StreamedAnswer
  BY <1>1 DEF StreamedAnswer
<1>3. /\ LoadedLog \in Answers /\ Len(LoadedLog) = Len(saved.log)
      /\ \A i \in 1 .. Len(saved.log) : LoadedLog[i] = [saved.log[i] EXCEPT !.live = FALSE]
  BY <1>1, <1>2 DEF LoadedLog, Answers
<1>4. \A i \in 1 .. Len(saved.log) : LoadedLog[i].of = saved.log[i].of /\ LoadedLog[i].mark = saved.log[i].mark
  BY <1>1, <1>3 DEF StreamedAnswer
<1> QED
  BY <1>3, <1>4 DEF MarksOf

(* A step that stops nothing and loads nothing new leaves the marks of the *)
(* stopped answers alone.                                                  *)
LEMMA MarksStay ==
  ASSUME ReplayInv, stopped' = stopped, LoadedMarks' \subseteq LoadedMarks \cup {<<0, "complete">>}
  PROVE  StopsMarked'
<1>1. stopped \subseteq 1 .. asked /\ asked \in Nat
  BY DEF ReplayInv, ReplayTypes
<1>2. \A p \in LoadedMarks' : p[1] \in stopped => p \in LoadedMarks
  BY <1>1
<1> QED
  BY <1>2 DEF ReplayInv, StopsMarked

LEMMA ReplayStarts == ReplayInit => ReplayInv
<1> SUFFICES ASSUME ReplayInit
             PROVE  ReplayInv
  OBVIOUS
<1>1. /\ saved.log = <<>> /\ talk.log = <<>> /\ flight.log = <<>> /\ prompt = <<>>
      /\ flight.at = "none" /\ flight.client.of = 0 /\ ~talk.busy /\ asked = 0 /\ stopped = {} /\ ~refused
  BY SilenceIsAnswer DEF ReplayInit, NoFlight
<1>2. ReplayTypes
  BY SilenceIsAnswer, NothingMarked DEF ReplayInit, ReplayTypes, NoFlight, FlightStages
<1>3. LoadedMarks = {} /\ MarksOf(talk.log) = {} /\ MarksOf(saved.log) = {}
  BY <1>1, NothingMarked DEF LoadedMarks
<1>4. FlightNewest
  BY <1>1, <1>3 DEF FlightNewest
<1>5. StopsMarked /\ PromptOlder /\ LoadedStopsStayOut /\ NeverPoisonedTalk
  BY <1>1, <1>3 DEF StopsMarked, PromptOlder, LoadedStopsStayOut, NeverPoisonedTalk
<1> QED
  BY <1>1, <1>2, <1>4, <1>5 DEF ReplayInv

LEMMA AskKeeps == ReplayInv /\ Ask => ReplayInv'
<1> SUFFICES ASSUME ReplayInv, Ask
             PROVE  ReplayInv'
  OBVIOUS
<1>0. ReplayTypes /\ FlightNewest /\ StopsMarked /\ PromptOlder
  BY DEF ReplayInv
<1>1. PICK log \in {Append(talk.log, Silence)} \cup
                   (IF talk.log = <<>> THEN {} ELSE {AnswerLast(talk.log, Silence)}) :
        /\ talk' = [talk EXCEPT !.log = log, !.busy = TRUE]
        /\ flight' = [NoFlight EXCEPT !.at = "posted", !.base = talk.base, !.log = log]
  BY DEF Ask
<1>2. UNCHANGED <<saved, prompt, refused, stopped>> /\ asked' = asked + 1 /\ asked \in Nat
  BY <1>0 DEF Ask, ReplayTypes
<1>3. /\ log \in Answers /\ log # <<>> /\ log[Len(log)] = Silence
      /\ MarksOf(log) \subseteq MarksOf(talk.log) \cup {<<0, "complete">>}
      /\ LoadedOf(log) \subseteq LoadedOf(talk.log) \cup {<<0, "complete">>}
  <2>1. talk.log \in Answers
    BY <1>0 DEF ReplayTypes
  <2>2. CASE log = Append(talk.log, Silence)
    BY <2>1, <2>2, Lengthened, SilenceIsAnswer
  <2>3. CASE talk.log # <<>> /\ log = AnswerLast(talk.log, Silence)
    BY <2>1, <2>3, AnsweredLast, SilenceIsAnswer
  <2> QED
    BY <2>2, <2>3
<1>4. /\ talk'.log = log /\ talk' \in [log: Answers, busy: BOOLEAN, base: Nat, refetch: BOOLEAN] /\ talk'.busy
  BY <1>0, <1>1, <1>3 DEF ReplayTypes
<1>5. /\ flight' \in [at: FlightStages, base: Nat, log: Answers, server: StreamedAnswer, client: StreamedAnswer]
      /\ flight'.log = log /\ flight'.at = "posted" /\ flight'.client.of = 0
  BY <1>0, <1>1, <1>3, SilenceIsAnswer DEF ReplayTypes, NoFlight, FlightStages
<1>6. ReplayTypes'
  BY <1>0, <1>2, <1>4, <1>5 DEF ReplayTypes
<1>7. /\ LoadedMarks' = MarksOf(saved.log) \cup LoadedOf(log)
      /\ LoadedMarks' \subseteq LoadedMarks \cup {<<0, "complete">>}
  BY <1>2, <1>3, <1>4, <1>5 DEF LoadedMarks
<1>8. \A p \in MarksOf(talk.log) \cup MarksOf(saved.log) : p[1] \in Nat /\ p[1] <= asked
  BY <1>0, MarkedAt DEF FlightNewest, ReplayTypes
<1>9. \A p \in MarksOf(log) \cup MarksOf(saved.log) \cup LoadedMarks' : p[1] \in Nat /\ p[1] < asked'
  BY <1>2, <1>3, <1>7, <1>8, MarkedAt DEF ReplayTypes
<1>10. FlightNewest'
  <2>1. asked' \notin stopped'
    BY <1>0, <1>2 DEF ReplayTypes
  <2>2. asked' \in Nat
    BY <1>2
  <2> QED
    BY <1>2, <1>3, <1>4, <1>5, <1>9, <2>1, <2>2, SilenceIsAnswer DEF FlightNewest
<1>11. StopsMarked'
  BY <1>2, <1>7, MarksStay
<1>12. PromptOlder'
  <2>1. \A i \in 1 .. Len(prompt) : prompt[i].of \in Nat /\ prompt[i].of < asked
    BY <1>0, MarkedAt DEF PromptOlder, ReplayTypes, StreamedAnswer
  <2> QED
    BY <1>2, <2>1 DEF PromptOlder
<1>13. LoadedStopsStayOut' /\ NeverPoisonedTalk'
  BY <1>2 DEF ReplayInv, LoadedStopsStayOut, NeverPoisonedTalk
<1> QED
  BY <1>5, <1>6, <1>10, <1>11, <1>12, <1>13 DEF ReplayInv

LEMMA ServeAskKeeps == ReplayInv /\ ServeAsk => ReplayInv'
<1> SUFFICES ASSUME ReplayInv, ServeAsk
             PROVE  ReplayInv'
  OBVIOUS
<1> DEFINE log == WithoutEmpty(flight.log)
<1>0. ReplayTypes /\ FlightNewest /\ StopsMarked /\ PromptOlder /\ flight.log \in Answers
  BY DEF ReplayInv, ReplayTypes
<1>1. /\ log \in Answers /\ Len(log) = Len(flight.log)
      /\ \A i \in 1 .. Len(flight.log) : log[i] \in {flight.log[i], Silence}
      /\ ValidList(log)
      /\ MarksOf(log) \subseteq MarksOf(flight.log) \cup {<<0, "complete">>}
      /\ LoadedOf(log) \subseteq LoadedOf(flight.log) \cup {<<0, "complete">>}
  BY <1>0, Stripped
<1>2. /\ UNCHANGED <<saved, talk, asked, stopped>> /\ flight.at = "posted" /\ refused' = refused
      /\ \/ flight' = [flight EXCEPT !.at = "conflict"] /\ UNCHANGED prompt
         \/ /\ flight' = [flight EXCEPT !.at = "streaming", !.log = log, !.server = Heard(asked, "none", FALSE)]
            /\ prompt' = Replayed(log)
  BY <1>1 DEF ServeAsk
<1> HIDE DEF log
<1>3. /\ asked \in Nat /\ asked \notin stopped
      /\ flight.log # <<>> /\ flight.log[Len(flight.log)].of = 0 /\ Len(flight.log) \in Nat
      /\ \A p \in LoadedMarks \cup MarksOf(flight.log) : p[1] \in Nat /\ p[1] < asked
  <2>1. \A p \in LoadedMarks \cup MarksOf(flight.log) : p[1] \in Nat
    BY <1>0, MarkedAt DEF LoadedMarks, ReplayTypes
  <2> QED
    BY <1>0, <1>2, <2>1, MarkedAt DEF FlightNewest, ReplayTypes
<1>4. CASE flight' = [flight EXCEPT !.at = "conflict"] /\ UNCHANGED prompt
  <2>1. /\ flight'.at = "conflict" /\ flight'.log = flight.log /\ flight'.client = flight.client
        /\ flight' \in [at: FlightStages, base: Nat, log: Answers, server: StreamedAnswer, client: StreamedAnswer]
    BY <1>0, <1>4 DEF ReplayTypes, FlightStages
  <2>2. ReplayTypes'
    BY <1>0, <1>2, <1>4, <2>1 DEF ReplayTypes
  <2>3. LoadedMarks' = LoadedMarks
    BY <1>2, <2>1 DEF LoadedMarks
  <2>4. FlightNewest'
    BY <1>0, <1>2, <2>1, <2>3 DEF FlightNewest
  <2> QED
    BY <1>2, <1>4, <2>1, <2>2, <2>3, <2>4, MarksStay
    DEF ReplayInv, PromptOlder, LoadedStopsStayOut, NeverPoisonedTalk
<1>5. CASE /\ flight' = [flight EXCEPT !.at = "streaming", !.log = log, !.server = Heard(asked, "none", FALSE)]
           /\ prompt' = Replayed(log)
  <2>1. Heard(asked, "none", FALSE) \in StreamedAnswer
        /\ Heard(asked, "none", FALSE).of = asked /\ Heard(asked, "none", FALSE).live
    BY <1>3 DEF Heard, StreamedAnswer, Marks
  <2>2. /\ flight'.at = "streaming" /\ flight'.log = log /\ flight'.client = flight.client
        /\ flight'.server.of = asked /\ flight'.server.live
        /\ flight' \in [at: FlightStages, base: Nat, log: Answers, server: StreamedAnswer, client: StreamedAnswer]
    BY <1>0, <1>1, <1>5, <2>1 DEF ReplayTypes, FlightStages
  <2>3. ReplayTypes'
    BY <1>0, <1>1, <1>2, <1>5, <2>2, ReplayedIs DEF ReplayTypes
  <2>4. LoadedMarks' \subseteq LoadedMarks \cup {<<0, "complete">>}
    BY <1>1, <1>2, <2>2 DEF LoadedMarks
  <2>5. StopsMarked'
    BY <1>2, <2>4, MarksStay
  <2>6. <<0, flight.log[Len(flight.log)].mark>> \in MarksOf(flight.log)
    <3>1. Len(flight.log) \in 1 .. Len(flight.log)
      BY <1>0, <1>3 DEF Answers
    <3> QED
      BY <1>0, <1>3, <3>1, MarkedAt
  <2>7. 0 < asked
    BY <1>3, <2>6
  <2>8. \A p \in LoadedMarks' \cup MarksOf(log) : p[1] \in Nat /\ p[1] < asked
    BY <1>1, <1>3, <2>4, <2>7
  <2>9. log # <<>> /\ log[Len(log)].of = 0
    <3>1. Len(flight.log) \in 1 .. Len(flight.log)
      BY <1>0, <1>3 DEF Answers
    <3>2. log[Len(log)] \in {flight.log[Len(flight.log)], Silence} /\ Len(log) # 0
      BY <1>1, <3>1
    <3> QED
      BY <1>3, <3>2, SilenceIsAnswer
  <2>10. FlightNewest'
    BY <1>0, <1>2, <1>3, <2>2, <2>8, <2>9 DEF FlightNewest
  <2>11. \A i \in 1 .. Len(prompt') : /\ ~prompt'[i].artifacts /\ prompt'[i].of < asked
                                      /\ ~prompt'[i].live => prompt'[i].of \notin stopped
    <3> SUFFICES ASSUME NEW i \in 1 .. Len(prompt')
                 PROVE  /\ ~prompt'[i].artifacts /\ prompt'[i].of < asked
                        /\ ~prompt'[i].live => prompt'[i].of \notin stopped
      OBVIOUS
    <3>1. /\ i \in 1 .. Len(log) /\ ~prompt'[i].artifacts
          /\ \/ prompt'[i].of = 0
             \/ prompt'[i].of = log[i].of /\ log[i].mark = "complete" /\ prompt'[i].live = log[i].live
      BY <1>1, <1>5, ReplayedIs
    <3>2. CASE prompt'[i].of = 0
      BY <1>0, <2>7, <3>1, <3>2 DEF ReplayTypes
    <3>3. CASE prompt'[i].of = log[i].of /\ log[i].mark = "complete" /\ prompt'[i].live = log[i].live
      <4>1. <<log[i].of, log[i].mark>> \in MarksOf(log)
        BY <1>1, <3>1, MarkedAt
      <4>2. log[i].of < asked
        BY <2>8, <4>1
      <4>3. ASSUME ~log[i].live
            PROVE  log[i].of \notin stopped
        <5>1. <<log[i].of, log[i].mark>> \in LoadedMarks'
          BY <1>1, <2>2, <3>1, <4>3, MarkedAt DEF LoadedMarks
        <5> QED
          BY <1>2, <2>5, <3>3, <5>1 DEF StopsMarked
      <4> QED
        BY <3>1, <3>3, <4>2, <4>3
    <3> QED
      BY <3>1, <3>2, <3>3
  <2>12. PromptOlder' /\ LoadedStopsStayOut'
    BY <1>2, <2>11 DEF PromptOlder, LoadedStopsStayOut
  <2> QED
    BY <1>2, <2>2, <2>3, <2>5, <2>10, <2>12 DEF ReplayInv, NeverPoisonedTalk
<1> QED
  BY <1>2, <1>4, <1>5

(* The answer grows, and the tab hears of it: only the request under way   *)
(* is another one.                                                         *)
LEMMA StreamKeeps == ReplayInv /\ (Streams \/ Hears) => ReplayInv'
<1> SUFFICES ASSUME ReplayInv, Streams \/ Hears
             PROVE  ReplayInv'
  OBVIOUS
<1>0. ReplayTypes /\ FlightNewest /\ StopsMarked /\ PromptOlder /\ asked \in Nat
  BY DEF ReplayInv, ReplayTypes
<1>1. UNCHANGED <<saved, talk, prompt, asked, refused, stopped>> /\ flight.at = "streaming"
  BY DEF Streams, Hears
<1>2. \A text \in {"none", "part", "whole"}, artifacts \in BOOLEAN :
        /\ Heard(asked, text, artifacts) \in StreamedAnswer
        /\ Heard(asked, text, artifacts).of = asked /\ Heard(asked, text, artifacts).live
  BY <1>0 DEF Heard, StreamedAnswer, Marks
<1>3. flight.server.of = asked /\ flight.server.live /\ flight.server \in StreamedAnswer
  BY <1>0, <1>1 DEF FlightNewest, ReplayTypes
<1>4. \E answer \in StreamedAnswer :
        /\ answer.of = asked /\ answer.live
        /\ flight' = [flight EXCEPT !.server = answer] \/ flight' = [flight EXCEPT !.client = answer]
  <2>1. CASE Streams
    BY <2>1, <1>2 DEF Streams
  <2>2. CASE Hears
    BY <2>2, <1>2, <1>3 DEF Hears
  <2> QED
    BY <2>1, <2>2
<1>5. /\ flight' \in [at: FlightStages, base: Nat, log: Answers, server: StreamedAnswer, client: StreamedAnswer]
      /\ flight'.at = "streaming" /\ flight'.log = flight.log
      /\ flight'.server.of = asked /\ flight'.server.live
      /\ (flight'.client.of = asked /\ flight'.client.live) \/ flight'.client = flight.client
  <2>1. flight \in [at: FlightStages, base: Nat, log: Answers, server: StreamedAnswer, client: StreamedAnswer]
    BY <1>0 DEF ReplayTypes
  <2> QED
    BY <1>1, <1>3, <1>4, <2>1
<1>6. ReplayTypes'
  BY <1>0, <1>1, <1>5 DEF ReplayTypes
<1>7. LoadedMarks' = LoadedMarks
  BY <1>1, <1>5 DEF LoadedMarks
<1>8. FlightNewest'
  BY <1>0, <1>1, <1>5, <1>7 DEF FlightNewest
<1> QED
  BY <1>1, <1>5, <1>6, <1>7, <1>8, MarksStay DEF ReplayInv, PromptOlder, LoadedStopsStayOut, NeverPoisonedTalk

LEMMA NoFlightIs ==
  /\ NoFlight \in [at: FlightStages, base: Nat, log: Answers, server: StreamedAnswer, client: StreamedAnswer]
  /\ NoFlight.at = "none" /\ NoFlight.log = <<>> /\ NoFlight.client.of = 0
BY SilenceIsAnswer, NothingMarked DEF NoFlight, FlightStages

(* The tab shows what it heard, as the last answer: nothing it loaded.     *)
LEMMA HeardIsShown ==
  ASSUME ReplayInv, NEW refetch \in BOOLEAN, talk.busy, ShowsHeard(refetch)
  PROVE  /\ talk' \in [log: Answers, busy: BOOLEAN, base: Nat, refetch: BOOLEAN] /\ ~talk'.busy
         /\ LoadedOf(talk'.log) \subseteq LoadedOf(talk.log)
         /\ \A p \in MarksOf(talk'.log) : p[1] <= asked
<1>1. /\ talk \in [log: Answers, busy: BOOLEAN, base: Nat, refetch: BOOLEAN] /\ talk.log # <<>>
      /\ talk.log \in Answers /\ flight.client \in StreamedAnswer
      /\ \A p \in MarksOf(talk.log) : p[1] <= asked
      /\ flight.client.of # 0 => flight.client.live /\ flight.client.of <= asked
  BY DEF ReplayInv, ReplayTypes, FlightNewest
<1> DEFINE shown == IF flight.client.of = 0 THEN talk.log ELSE AnswerLast(talk.log, flight.client)
<1>2. /\ shown \in Answers /\ LoadedOf(shown) \subseteq LoadedOf(talk.log)
      /\ \A p \in MarksOf(shown) : p[1] <= asked
  <2>1. CASE flight.client.of = 0
    BY <1>1, <2>1
  <2>2. CASE flight.client.of # 0
    <3>1. shown = AnswerLast(talk.log, flight.client)
      BY <2>2
    <3>2. /\ shown \in Answers /\ LoadedOf(shown) \subseteq LoadedOf(talk.log)
          /\ MarksOf(shown) \subseteq MarksOf(talk.log) \cup {<<flight.client.of, flight.client.mark>>}
      BY <1>1, <2>2, <3>1, AnsweredLast
    <3> QED
      BY <1>1, <2>2, <3>2
  <2> QED
    BY <2>1, <2>2
<1>3. talk' = [talk EXCEPT !.busy = FALSE, !.refetch = talk.refetch \/ refetch, !.log = shown]
  BY DEF ShowsHeard
<1> HIDE DEF shown
<1>4. talk'.log = shown /\ ~talk'.busy
  BY <1>1, <1>3
<1>5. talk.refetch \/ refetch \in BOOLEAN
  BY <1>1
<1>6. talk' \in [log: Answers, busy: BOOLEAN, base: Nat, refetch: BOOLEAN]
  BY <1>1, <1>2, <1>3, <1>5
<1> QED
  BY <1>2, <1>4, <1>6

(* A step of the tab that stores nothing, after which nothing of the       *)
(* request is left or it is only waiting for its end.                      *)
LEMMA TabStepKeeps ==
  ASSUME ReplayInv, UNCHANGED <<saved, prompt, asked, refused, stopped>>,
         talk' \in [log: Answers, busy: BOOLEAN, base: Nat, refetch: BOOLEAN], ~talk'.busy,
         \A p \in MarksOf(talk'.log) : p[1] <= asked,
         LoadedOf(talk'.log) \subseteq LoadedMarks,
         \/ flight' = NoFlight
         \/ flight.at \notin {"posted", "conflict"} /\ flight' = flight
         \/ flight.at = "streaming" /\ flight' = [flight EXCEPT !.at = "aborting"]
  PROVE  ReplayInv'
<1>0. ReplayTypes /\ FlightNewest /\ StopsMarked /\ PromptOlder /\ flight.at # "refused"
  BY DEF ReplayInv
<1>1. /\ flight' \in [at: FlightStages, base: Nat, log: Answers, server: StreamedAnswer, client: StreamedAnswer]
      /\ \/ flight'.at = "none" /\ flight'.log = <<>> /\ flight'.client.of = 0
         \/ /\ flight'.log = flight.log /\ flight'.server = flight.server /\ flight'.client = flight.client
            /\ flight'.at = flight.at \/ (flight'.at = "aborting" /\ flight.at = "streaming")
      /\ flight'.at \notin {"posted", "conflict", "refused"}
  <2>1. flight \in [at: FlightStages, base: Nat, log: Answers, server: StreamedAnswer, client: StreamedAnswer]
    BY <1>0 DEF ReplayTypes
  <2>2. CASE flight' = NoFlight
    BY <2>2, NoFlightIs
  <2>3. CASE flight.at \notin {"posted", "conflict"} /\ flight' = flight
    BY <1>0, <2>1, <2>3
  <2>4. CASE flight.at = "streaming" /\ flight' = [flight EXCEPT !.at = "aborting"]
    BY <2>1, <2>4 DEF FlightStages
  <2> QED
    BY <2>2, <2>3, <2>4
<1>2. ReplayTypes'
  BY <1>0, <1>1 DEF ReplayTypes
<1>3. LoadedMarks' \subseteq LoadedMarks
  BY <1>1, NothingMarked DEF LoadedMarks
<1>4. FlightNewest'
  BY <1>0, <1>1, <1>3 DEF FlightNewest
<1> QED
  BY <1>0, <1>1, <1>2, <1>3, <1>4, MarksStay DEF ReplayInv, PromptOlder, LoadedStopsStayOut, NeverPoisonedTalk

LEMMA PressStopKeeps == ReplayInv /\ PressStop => ReplayInv'
<1> SUFFICES ASSUME ReplayInv, PressStop
             PROVE  ReplayInv'
  OBVIOUS
<1>1. UNCHANGED <<saved, prompt, asked, refused, stopped>> /\ talk.busy /\ ShowsHeard(FALSE)
  BY DEF PressStop
<1>2. \/ flight' = NoFlight
      \/ flight.at = "streaming" /\ flight' = [flight EXCEPT !.at = "aborting"]
  BY DEF PressStop
<1>3. LoadedOf(talk.log) \subseteq LoadedMarks
  BY DEF LoadedMarks
<1> QED
  BY <1>1, <1>2, <1>3, HeardIsShown, TabStepKeeps

LEMMA AskRejectedKeeps == ReplayInv /\ AskRejected => ReplayInv'
<1> SUFFICES ASSUME ReplayInv, AskRejected
             PROVE  ReplayInv'
  OBVIOUS
<1>1. /\ UNCHANGED <<saved, prompt, asked, refused, stopped>> /\ flight' = NoFlight
      /\ ShowsHeard(flight.at = "conflict") /\ (flight.at = "conflict") \in BOOLEAN
  BY DEF AskRejected
<1>2. talk.busy
  BY DEF AskRejected, ReplayInv, FlightNewest
<1>3. LoadedOf(talk.log) \subseteq LoadedMarks
  BY DEF LoadedMarks
<1> QED
  BY <1>1, <1>2, <1>3, HeardIsShown, TabStepKeeps

LEMMA LoadKeeps == ReplayInv /\ (RefetchTalk \/ ReloadTalk) => ReplayInv'
<1> SUFFICES ASSUME ReplayInv, RefetchTalk \/ ReloadTalk
             PROVE  ReplayInv'
  OBVIOUS
<1>0. ReplayTypes /\ FlightNewest /\ saved.log \in Answers /\ talk.log \in Answers /\ saved.revision \in Nat
  BY DEF ReplayInv, ReplayTypes
<1>1. /\ UNCHANGED <<saved, flight, prompt, asked, refused, stopped>> /\ ~talk.busy
  BY DEF RefetchTalk, ReloadTalk
<1>2. /\ talk' \in [log: Answers, busy: BOOLEAN, base: Nat, refetch: BOOLEAN] /\ ~talk'.busy
      /\ talk'.log \in {talk.log, LoadedLog}
  <2>1. talk \in [log: Answers, busy: BOOLEAN, base: Nat, refetch: BOOLEAN] /\ LoadedLog \in Answers
    BY <1>0, LoadedLogIs DEF ReplayTypes
  <2>2. CASE RefetchTalk
    BY <1>0, <1>1, <2>1, <2>2 DEF RefetchTalk
  <2>3. CASE ReloadTalk
    BY <1>0, <2>1, <2>3 DEF ReloadTalk
  <2> QED
    BY <2>2, <2>3
<1>3. /\ LoadedOf(talk'.log) \subseteq LoadedMarks
      /\ \A p \in MarksOf(talk'.log) : p[1] <= asked
  <2>1. CASE talk'.log = talk.log
    BY <1>0, <2>1 DEF LoadedMarks, FlightNewest
  <2>2. CASE talk'.log = LoadedLog
    <3>1. LoadedLog \in Answers /\ MarksOf(LoadedLog) = MarksOf(saved.log)
      BY <1>0, LoadedLogIs
    <3>2. LoadedOf(LoadedLog) \subseteq MarksOf(LoadedLog)
      BY <3>1, MarkedAt
    <3> QED
      BY <1>0, <2>2, <3>1, <3>2 DEF LoadedMarks, FlightNewest
  <2> QED
    BY <1>2, <2>1, <2>2
<1>4. flight.at \notin {"posted", "conflict"} /\ flight' = flight
  BY <1>0, <1>1 DEF FlightNewest
<1> QED
  BY <1>1, <1>2, <1>3, <1>4, TabStepKeeps

(* What is known of the request whose answer ends. *)
LEMMA Newest ==
  ASSUME ReplayInv, flight.at \in {"streaming", "aborting"}
  PROVE  /\ asked \in Nat /\ 0 < asked /\ asked \notin stopped /\ stopped \subseteq 1 .. asked
         /\ flight.log \in Answers /\ flight.log # <<>> /\ Len(flight.log) \in Nat
         /\ flight.log[Len(flight.log)].of = 0
         /\ flight.server \in StreamedAnswer /\ flight.server.of = asked /\ flight.server.live
         /\ \A p \in LoadedMarks \cup MarksOf(flight.log) : p[1] \in Nat /\ p[1] < asked
<1>1. ReplayTypes /\ FlightNewest
  BY DEF ReplayInv
<1>2. /\ asked \in Nat /\ asked \notin stopped /\ stopped \subseteq 1 .. asked
      /\ flight.log \in Answers /\ flight.log # <<>> /\ flight.log[Len(flight.log)].of = 0
      /\ flight.server \in StreamedAnswer /\ flight.server.of = asked /\ flight.server.live
  BY <1>1 DEF FlightNewest, ReplayTypes
<1>3. \A p \in LoadedMarks \cup MarksOf(flight.log) : p[1] \in Nat
  BY <1>1, MarkedAt DEF LoadedMarks, ReplayTypes
<1>4. \A p \in LoadedMarks \cup MarksOf(flight.log) : p[1] < asked
  BY <1>1 DEF FlightNewest
<1>5. Len(flight.log) \in Nat /\ Len(flight.log) \in 1 .. Len(flight.log)
  BY <1>2 DEF Answers
<1>6. <<0, flight.log[Len(flight.log)].mark>> \in MarksOf(flight.log)
  BY <1>2, <1>5, MarkedAt
<1> QED
  BY <1>2, <1>3, <1>4, <1>5, <1>6

(* The list to store is the one that was sent, with the marked answer.     *)
LEMMA ToStoreIs ==
  ASSUME ReplayInv, flight.at \in {"streaming", "aborting"}, NEW status \in Marks
  PROVE  /\ ToStore(status) \in Answers /\ Len(ToStore(status)) = Len(flight.log)
         /\ \A i \in 1 .. Len(flight.log) : i # Len(flight.log) => ToStore(status)[i] = flight.log[i]
         /\ \A p \in MarksOf(ToStore(status)) :
              p \in MarksOf(flight.log) \/ (p[1] = asked /\ (status # "complete" => p[2] = status))
<1> DEFINE whole  == [flight.server EXCEPT !.text = "whole"]
           marked == [flight.server EXCEPT !.mark = status]
<1>1. /\ flight.log \in Answers /\ flight.log # <<>> /\ flight.server \in StreamedAnswer
      /\ flight.server.of = asked
  BY Newest
<1>2. /\ whole \in StreamedAnswer /\ whole.of = asked
      /\ marked \in StreamedAnswer /\ marked.of = asked /\ marked.mark = status
  BY <1>1 DEF StreamedAnswer
<1>3. \/ status = "complete" /\ ToStore(status) = AnswerLast(flight.log, whole)
      \/ status # "complete" /\ ToStore(status) = AnswerLast(flight.log, marked)
      \/ ToStore(status) = flight.log
  BY DEF ToStore
<1> HIDE DEF whole, marked
<1>4. CASE status = "complete" /\ ToStore(status) = AnswerLast(flight.log, whole)
  <2> DEFINE stored == AnswerLast(flight.log, whole)
  <2>1. /\ stored \in Answers /\ Len(stored) = Len(flight.log)
        /\ \A i \in 1 .. Len(flight.log) : i # Len(flight.log) => stored[i] = flight.log[i]
        /\ MarksOf(stored) \subseteq MarksOf(flight.log) \cup {<<whole.of, whole.mark>>}
    BY <1>1, <1>2, AnsweredLast
  <2> QED
    BY <1>2, <1>4, <2>1
<1>5. CASE status # "complete" /\ ToStore(status) = AnswerLast(flight.log, marked)
  <2> DEFINE stored == AnswerLast(flight.log, marked)
  <2>1. /\ stored \in Answers /\ Len(stored) = Len(flight.log)
        /\ \A i \in 1 .. Len(flight.log) : i # Len(flight.log) => stored[i] = flight.log[i]
        /\ MarksOf(stored) \subseteq MarksOf(flight.log) \cup {<<marked.of, marked.mark>>}
    BY <1>1, <1>2, AnsweredLast
  <2> QED
    BY <1>2, <1>5, <2>1
<1>6. CASE ToStore(status) = flight.log
  BY <1>1, <1>6
<1> QED
  BY <1>3, <1>4, <1>5, <1>6

(* What is stopped after an answer is stored: the answer itself, if it is  *)
(* incomplete, and nothing that was sent from an unmarked copy.            *)
LEMMA StoreAsIs ==
  ASSUME ReplayInv, flight.at \in {"streaming", "aborting"}, NEW status \in Marks,
         StoreAs(status), ~Conflicts
  PROVE  /\ saved' = [revision |-> saved.revision + 1, log |-> ToStore(status)]
         /\ stopped' \subseteq stopped \cup {asked} /\ (asked \in stopped' => status # "complete")
         /\ \A i \in 1 .. Len(flight.log) : flight.log[i].of \in stopped' => ~flight.log[i].live
         /\ \A p \in MarksOf(flight.log) : p[1] \in stopped' => p \in LoadedMarks
<1>1. /\ saved' = [revision |-> saved.revision + 1, log |-> ToStore(status)]
      /\ stopped' = (stopped \ {flight.log[i].of : i \in {j \in 1 .. Len(flight.log) : flight.log[j].live}})
                       \cup (IF status # "complete" /\ HasContent(flight.server) THEN {flight.server.of} ELSE {})
  BY DEF StoreAs
<1>2. flight.server.of = asked /\ asked \notin stopped /\ flight.log \in Answers
  BY Newest
<1>3. ASSUME NEW i \in 1 .. Len(flight.log), flight.log[i].of \in stopped'
      PROVE  ~flight.log[i].live
  <2>1. <<flight.log[i].of, flight.log[i].mark>> \in MarksOf(flight.log)
    BY <1>2, MarkedAt
  <2>2. flight.log[i].of \in Nat /\ flight.log[i].of < asked /\ asked \in Nat
    BY <2>1, Newest
  <2> QED
    BY <1>1, <1>2, <1>3, <2>2
<1>4. ASSUME NEW p \in MarksOf(flight.log), p[1] \in stopped'
      PROVE  p \in LoadedMarks
  <2>1. PICK i \in 1 .. Len(flight.log) : p = <<flight.log[i].of, flight.log[i].mark>>
    BY DEF MarksOf
  <2>2. ~flight.log[i].live
    BY <1>3, <1>4, <2>1
  <2> QED
    BY <1>2, <2>1, <2>2, MarkedAt DEF LoadedMarks
<1> QED
  BY <1>1, <1>2, <1>3, <1>4

(* The end of a request, with or without an answer to store.               *)
LEMMA EndKeeps ==
  ASSUME ReplayInv, flight.at \in {"streaming", "aborting"}, NEW status \in Marks,
         StoreAs(status) \/ UNCHANGED <<saved, stopped>>,
         flight' = NoFlight, UNCHANGED <<prompt, asked, refused>>,
         talk' \in [log: Answers, busy: BOOLEAN, base: Nat, refetch: BOOLEAN],
         talk'.busy => talk'.log # <<>>,
         \A p \in MarksOf(talk'.log) : p[1] <= asked,
         LoadedOf(talk'.log) \subseteq LoadedOf(talk.log)
  PROVE  ReplayInv'
<1>0. ReplayTypes /\ FlightNewest /\ StopsMarked /\ PromptOlder /\ LoadedStopsStayOut /\ NeverPoisonedTalk
  BY DEF ReplayInv
<1>1. /\ flight' \in [at: FlightStages, base: Nat, log: Answers, server: StreamedAnswer, client: StreamedAnswer]
      /\ flight'.at = "none" /\ flight'.log = <<>> /\ flight'.client.of = 0
  BY NoFlightIs
<1>2. LoadedMarks' = MarksOf(saved'.log) \cup LoadedOf(talk'.log)
  BY <1>1, NothingMarked DEF LoadedMarks
<1>3. LoadedOf(talk'.log) \subseteq LoadedMarks
  BY DEF LoadedMarks
<1>4. CASE UNCHANGED <<saved, stopped>>
  <2>1. ReplayTypes'
    BY <1>0, <1>1, <1>4 DEF ReplayTypes
  <2>2. LoadedMarks' \subseteq LoadedMarks
    BY <1>2, <1>3, <1>4 DEF LoadedMarks
  <2>3. FlightNewest'
    BY <1>0, <1>1, <1>4 DEF FlightNewest
  <2> QED
    BY <1>0, <1>1, <1>4, <2>1, <2>2, <2>3, MarksStay
    DEF ReplayInv, PromptOlder, LoadedStopsStayOut, NeverPoisonedTalk
<1>5. CASE StoreAs(status) /\ ~Conflicts
  <2>1. /\ saved' = [revision |-> saved.revision + 1, log |-> ToStore(status)]
        /\ stopped' \subseteq stopped \cup {asked} /\ (asked \in stopped' => status # "complete")
        /\ \A p \in MarksOf(flight.log) : p[1] \in stopped' => p \in LoadedMarks
    BY <1>5, StoreAsIs
  <2>2. /\ ToStore(status) \in Answers
        /\ \A p \in MarksOf(ToStore(status)) :
             p \in MarksOf(flight.log) \/ (p[1] = asked /\ (status # "complete" => p[2] = status))
    BY ToStoreIs
  <2>3. /\ asked \in Nat /\ 0 < asked /\ asked \notin stopped /\ stopped \subseteq 1 .. asked
        /\ \A p \in LoadedMarks \cup MarksOf(flight.log) : p[1] \in Nat /\ p[1] < asked
    BY Newest
  <2>4. saved'.log = ToStore(status) /\ saved' \in [revision: Nat, log: Answers]
    <3>1. saved.revision + 1 \in Nat
      BY <1>0 DEF ReplayTypes
    <3> QED
      BY <2>1, <2>2, <3>1
  <2>5. stopped' \in SUBSET (1 .. asked')
    BY <2>1, <2>3
  <2>6. ReplayTypes'
    BY <1>0, <1>1, <2>4, <2>5 DEF ReplayTypes
  <2>7. \A p \in MarksOf(saved'.log) : p[1] <= asked
    BY <2>2, <2>3, <2>4
  <2>8. FlightNewest'
    BY <1>1, <2>7 DEF FlightNewest
  <2>9. \A p \in LoadedMarks' : p[1] \in stopped' =>
          p \in LoadedMarks \/ (p[1] = asked /\ (status # "complete" => p[2] = status))
    BY <1>2, <1>3, <2>1, <2>2, <2>4
  <2>10. StopsMarked'
    <3> SUFFICES ASSUME NEW p \in LoadedMarks', p[1] \in stopped',
                        NEW q \in LoadedMarks', q[1] = p[1]
                 PROVE  p[2] # "complete" /\ q[2] = p[2]
      BY DEF StopsMarked
    <3>1. CASE p[1] = asked
      <4>1. p \notin LoadedMarks /\ q \notin LoadedMarks
        BY <2>3, <3>1
      <4> QED
        BY <2>1, <2>9, <3>1, <4>1
    <3>2. CASE p[1] # asked
      <4>1. p[1] \in stopped /\ p \in LoadedMarks /\ q \in LoadedMarks
        BY <2>1, <2>9, <3>2
      <4> QED
        BY <1>0, <4>1 DEF StopsMarked
    <3> QED
      BY <3>1, <3>2
  <2>11. LoadedStopsStayOut'
    <3>1. \A i \in 1 .. Len(prompt) : prompt[i].of # asked
      <4>1. \A i \in 1 .. Len(prompt) : prompt[i].of \in Nat
        BY <1>0, MarkedAt DEF ReplayTypes, StreamedAnswer
      <4> QED
        BY <1>0, <2>3, <4>1 DEF PromptOlder
    <3> QED
      BY <1>0, <2>1, <3>1 DEF LoadedStopsStayOut
  <2> QED
    BY <1>0, <1>1, <2>6, <2>8, <2>10, <2>11 DEF ReplayInv, PromptOlder, NeverPoisonedTalk
<1>6. CASE StoreAs(status) /\ Conflicts
  BY <1>4, <1>6 DEF StoreAs
<1> QED
  BY <1>4, <1>5, <1>6

LEMMA AnswerOverKeeps == ReplayInv /\ (AbortEnds \/ AnswerEnds \/ AnswerFails) => ReplayInv'
<1> SUFFICES ASSUME ReplayInv, AbortEnds \/ AnswerEnds \/ AnswerFails
             PROVE  ReplayInv'
  OBVIOUS
<1>1. /\ flight.at \in {"streaming", "aborting"} /\ flight' = NoFlight
      /\ UNCHANGED <<prompt, asked, refused>>
  BY DEF AbortEnds, AnswerEnds, AnswerFails
<1>2. /\ "aborted" \in Marks /\ "error" \in Marks /\ "complete" \in Marks
      /\ talk \in [log: Answers, busy: BOOLEAN, base: Nat, refetch: BOOLEAN]
      /\ (talk.busy => talk.log # <<>>) /\ \A p \in MarksOf(talk.log) : p[1] <= asked
  BY DEF Marks, ReplayInv, ReplayTypes, FlightNewest
<1>3. CASE AbortEnds
  <2>1. talk' = talk
    BY <1>3 DEF AbortEnds
  <2>2. \E status \in Marks : StoreAs(status) \/ UNCHANGED <<saved, stopped>>
    BY <1>2, <1>3 DEF AbortEnds
  <2> QED
    BY <1>1, <1>2, <2>1, <2>2, EndKeeps
<1>4. CASE AnswerEnds
  <2> DEFINE whole == [flight.server EXCEPT !.text = "whole"]
             shown == AnswerLast(talk.log, whole)
  <2>1. flight.server \in StreamedAnswer /\ flight.server.of = asked /\ flight.server.live /\ asked \in Nat
    BY <1>1, Newest
  <2>2. whole \in StreamedAnswer /\ whole.of = asked /\ whole.live
    BY <2>1 DEF StreamedAnswer
  <2>3. StoreAs("complete") /\ talk' = [talk EXCEPT !.busy = FALSE, !.refetch = TRUE, !.log = shown]
    BY <1>4 DEF AnswerEnds
  <2>4. talk.log \in Answers /\ talk.log # <<>>
    BY <1>2, <1>4 DEF AnswerEnds
  <2> HIDE DEF whole
  <2>5. /\ shown \in Answers /\ LoadedOf(shown) \subseteq LoadedOf(talk.log)
        /\ MarksOf(shown) \subseteq MarksOf(talk.log) \cup {<<whole.of, whole.mark>>}
    BY <2>2, <2>4, AnsweredLast
  <2>6. \A p \in MarksOf(shown) : p[1] <= asked
    BY <1>2, <2>1, <2>2, <2>5
  <2> HIDE DEF shown
  <2>7. /\ talk' \in [log: Answers, busy: BOOLEAN, base: Nat, refetch: BOOLEAN] /\ ~talk'.busy
        /\ talk'.log = shown
    BY <1>2, <2>3, <2>5
  <2> QED
    BY <1>1, <1>2, <2>3, <2>5, <2>6, <2>7, EndKeeps
<1>5. CASE AnswerFails
  <2>1. StoreAs("error") /\ ShowsHeard(FALSE) /\ talk.busy
    BY <1>5 DEF AnswerFails
  <2>2. /\ talk' \in [log: Answers, busy: BOOLEAN, base: Nat, refetch: BOOLEAN] /\ ~talk'.busy
        /\ LoadedOf(talk'.log) \subseteq LoadedOf(talk.log)
        /\ \A p \in MarksOf(talk'.log) : p[1] <= asked
    BY <2>1, HeardIsShown
  <2> QED
    BY <1>1, <1>2, <2>1, <2>2, EndKeeps
<1> QED
  BY <1>3, <1>4, <1>5

(* The invariant: whatever is stored or loaded of a stopped answer says    *)
(* so, and says it in one way (mark-incomplete-turn.ts, and the lists that *)
(* travel through /chat and the tab's cache).                              *)
THEOREM ReplayInvariant == ReplaySpec => []ReplayInv
<1>1. ReplayInv /\ [ReplayNext]_replayVars => ReplayInv'
  <2> SUFFICES ASSUME ReplayInv, [ReplayNext]_replayVars
               PROVE  ReplayInv'
    OBVIOUS
  <2>1. CASE UNCHANGED replayVars
    BY <2>1 DEF replayVars, ReplayInv, ReplayTypes, FlightNewest, LoadedMarks, StopsMarked, PromptOlder,
                LoadedStopsStayOut, NeverPoisonedTalk, MarksOf, LoadedOf
  <2> QED
    BY <2>1, AskKeeps, ServeAskKeeps, StreamKeeps, PressStopKeeps, AnswerOverKeeps, AskRejectedKeeps, LoadKeeps
    DEF ReplayNext
<1> QED
  BY <1>1, ReplayStarts, PTL DEF ReplaySpec

(* The types of the replay, for transcripts of any length. *)
THEOREM ReplayTyped == ReplaySpec => []ReplayTypeOK
<1>1. ReplayInv => ReplayTypeOK
  BY DEF ReplayInv, ReplayTypes, ReplayTypeOK, FlightStages
<1> QED
  BY <1>1, ReplayInvariant, PTL

(* No request of the tab is ever rejected as invalid: an answer without    *)
(* content is out of the list before the list is looked at                 *)
(* (strip-empty-turns.ts).                                                 *)
THEOREM NoPoisonedTalk == ReplaySpec => []NeverPoisonedTalk
<1>1. ReplayInv => NeverPoisonedTalk
  BY DEF ReplayInv
<1> QED
  BY <1>1, ReplayInvariant, PTL

(* A stopped answer that was loaded is never replayed, nor any artifact    *)
(* (strip-incomplete-turns.ts, strip-item-references.ts).                  *)
THEOREM StopsStayOut == ReplaySpec => []LoadedStopsStayOut
<1>1. ReplayInv => LoadedStopsStayOut
  BY DEF ReplayInv
<1> QED
  BY <1>1, ReplayInvariant, PTL

(* A stored incomplete answer that a request carries stays stored with its *)
(* mark (turnMessagesToPersist stores the list as it was sent).            *)
THEOREM TranscriptKept == ReplaySpec => TranscriptKeepsStops
<1> DEFINE Kept == \A i \in DOMAIN saved.log \cap DOMAIN flight.log :
                     saved' # saved /\ saved.log[i].of \in stopped' /\ flight.log[i].of = saved.log[i].of =>
                       saved'.log[i].of = saved.log[i].of /\ saved'.log[i].mark = saved.log[i].mark
<1>1. ReplayInv /\ [ReplayNext]_replayVars => [Kept]_replayVars
  <2> SUFFICES ASSUME ReplayInv, [ReplayNext]_replayVars, NEW i \in DOMAIN saved.log \cap DOMAIN flight.log,
                      saved' # saved, saved.log[i].of \in stopped', flight.log[i].of = saved.log[i].of
               PROVE  saved'.log[i].of = saved.log[i].of /\ saved'.log[i].mark = saved.log[i].mark
    OBVIOUS
  <2>1. PICK status \in Marks : StoreAs(status) /\ flight.at \in {"streaming", "aborting"}
    BY DEF ReplayNext, replayVars, Ask, ServeAsk, Streams, Hears, PressStop, AbortEnds, AnswerEnds, AnswerFails,
           AskRejected, RefetchTalk, ReloadTalk, Marks
  <2>2. ~Conflicts
    BY <2>1 DEF StoreAs
  <2>3. /\ saved.log \in Answers /\ flight.log \in Answers /\ StopsMarked
        /\ i \in 1 .. Len(saved.log) /\ i \in 1 .. Len(flight.log)
    BY DEF ReplayInv, ReplayTypes, Answers
  <2>4. <<saved.log[i].of, saved.log[i].mark>> \in LoadedMarks
    BY <2>3, MarkedAt DEF LoadedMarks
  <2>5. saved.log[i].of \in stopped /\ saved.log[i].of # 0
    <3>1. saved.log[i].of < asked /\ saved.log[i].of \in Nat
      BY <2>1, <2>4, Newest
    <3> QED
      BY <2>1, <2>2, <3>1, StoreAsIs, Newest
  <2>6. <<flight.log[i].of, flight.log[i].mark>> \in LoadedMarks
    <3>1. ~flight.log[i].live
      BY <2>1, <2>2, <2>3, StoreAsIs
    <3> QED
      BY <2>3, <3>1, MarkedAt DEF LoadedMarks
  <2>7. flight.log[i].mark = saved.log[i].mark
    BY <2>3, <2>4, <2>5, <2>6 DEF StopsMarked
  <2>8. i # Len(flight.log)
    BY <2>1, <2>5, Newest
  <2>9. saved'.log[i] = flight.log[i]
    BY <2>1, <2>2, <2>3, <2>8, StoreAsIs, ToStoreIs
  <2> QED
    BY <2>7, <2>9
<1> QED
  BY <1>1, ReplayInvariant, PTL DEF ReplaySpec, TranscriptKeepsStops

-----------------------------------------------------------------------------
(***************************************************************************)
(* CatalogCache.                                                           *)
(***************************************************************************)
(* The slot, when taken, holds a load that was started and that no bust    *)
(* has superseded, and every such load that still runs is in the slot.     *)
SlotIsCurrent ==
  /\ inFlight # NoLoad => loads[inFlight].at # "unused" /\ loads[inFlight].gen = generation
  /\ \A l \in Loads : loads[l].at = "running" /\ loads[l].gen = generation => inFlight = l

(* Generations only grow. *)
LoadsPast == \A l \in Loads : loads[l].gen <= generation

(* What a caller awaits, remembers or got was started no earlier than its  *)
(* own arrival.                                                            *)
CallerSinceBust(c) ==
  /\ callers[c].at = "waiting" =>
       /\ callers[c].load # NoLoad
       /\ loads[callers[c].load].at # "unused"
       /\ loads[callers[c].load].gen >= callers[c].began
  /\ callers[c].existing # NoLoad =>
       /\ loads[callers[c].existing].at # "unused"
       /\ loads[callers[c].existing].gen >= callers[c].began
  /\ callers[c].at = "served" =>
       /\ callers[c].value # NoLoad
       /\ loads[callers[c].value].at # "unused"
       /\ loads[callers[c].value].gen >= callers[c].began

IInv ==
  /\ CacheTypeOK
  /\ CachedSinceBust
  /\ SlotIsCurrent
  /\ LoadsPast
  /\ \A c \in Callers : CallerSinceBust(c)

-----------------------------------------------------------------------------
(* The invariant holds before anybody has asked. *)
LEMMA InitIInv == CacheInit => IInv
  BY CacheAssumption
  DEF CacheInit, IInv, CacheTypeOK, CachedSinceBust, SlotIsCurrent, LoadsPast, CallerSinceBust,
      NewCaller, Caller, Load, Entry

(* A newcomer's locals, field by field. *)
LEMMA ArrivalType ==
  CacheTypeOK =>
    /\ Arrival \in Caller
    /\ Arrival.at = "waiting" /\ Arrival.began = generation
    /\ Arrival.existing = IF store = NoLoad THEN NoLoad ELSE store.load
  BY CacheAssumption DEF CacheTypeOK, Arrival, NewCaller, Caller, Entry

(* Every step keeps the types. *)
LEMMA TypeStep == CacheTypeOK /\ [CacheNext]_cacheVars => CacheTypeOK'
<1> SUFFICES ASSUME CacheTypeOK, [CacheNext]_cacheVars PROVE CacheTypeOK'
  OBVIOUS
<1> USE CacheAssumption DEF CacheTypeOK
<1>1. ASSUME NEW c \in Callers, GetFresh(c) PROVE CacheTypeOK'
  BY <1>1, ArrivalType DEF GetFresh, Fresh, Caller, Entry
<1>2. ASSUME NEW c \in Callers, GetShared(c) PROVE CacheTypeOK'
  BY <1>2, ArrivalType DEF GetShared, Caller
<1>3. ASSUME NEW c \in Callers, StartLoad(c) PROVE CacheTypeOK'
  <2>1. PICK l \in Loads :
          /\ loads' = [loads EXCEPT ![l] = [at |-> "running", gen |-> generation, cleared |-> FALSE]]
          /\ inFlight' = l
          /\ callers' = [callers EXCEPT ![c] = [Arrival EXCEPT !.load = l]]
    BY <1>3 DEF StartLoad
  <2>2. loads' \in [Loads -> Load]
    BY <2>1 DEF Load
  <2>3. callers' \in [Callers -> Caller]
    BY <2>1, ArrivalType DEF Caller
  <2> QED
    BY <1>3, <2>1, <2>2, <2>3 DEF StartLoad
<1>4. ASSUME NEW c \in Callers, Resume(c) PROVE CacheTypeOK'
  <2>0. callers[c] \in Caller
    OBVIOUS
  <2>1. CASE Served(c)
    BY <2>0, <2>1 DEF Served, Await, Caller
  <2>2. CASE ServedLastGood(c)
    BY <2>0, <2>2 DEF ServedLastGood, Await, Caller
  <2>3. CASE FallsToSnapshot(c)
    BY <2>0, <2>3 DEF FallsToSnapshot, Await, Caller
  <2> QED
    BY <1>4, <2>1, <2>2, <2>3 DEF Resume
<1>5. ASSUME NEW l \in Loads, LoadSucceeds(l) PROVE CacheTypeOK'
  BY <1>5 DEF LoadSucceeds, Load, Entry
<1>6. ASSUME NEW l \in Loads, LoadFails(l) PROVE CacheTypeOK'
  BY <1>6 DEF LoadFails, Load
<1>7. ASSUME NEW l \in Loads, ClearSlot(l) PROVE CacheTypeOK'
  BY <1>7 DEF ClearSlot, Load
<1>8. CASE Invalidate
  BY <1>8 DEF Invalidate
<1>9. CASE CacheTick
  BY <1>9 DEF CacheTick
<1>10. CASE UNCHANGED cacheVars
  BY <1>10 DEF cacheVars
<1> QED
  BY <1>1, <1>2, <1>3, <1>4, <1>5, <1>6, <1>7, <1>8, <1>9, <1>10 DEF CacheNext

-----------------------------------------------------------------------------
(* Every step keeps the cache's own part of the invariant. *)
CacheInv == CachedSinceBust /\ SlotIsCurrent /\ LoadsPast

LEMMA CacheStep == CacheTypeOK /\ CacheInv /\ [CacheNext]_cacheVars => CacheInv'
<1> SUFFICES ASSUME CacheTypeOK, CacheInv, [CacheNext]_cacheVars PROVE CacheInv'
  OBVIOUS
<1> USE CacheAssumption DEF CacheTypeOK, CacheInv, CachedSinceBust, SlotIsCurrent, LoadsPast
<1>1. ASSUME NEW c \in Callers, GetFresh(c) \/ GetShared(c) \/ Resume(c) PROVE CacheInv'
  BY <1>1 DEF GetFresh, GetShared, Resume, Served, ServedLastGood, FallsToSnapshot, Await
<1>2. ASSUME NEW c \in Callers, StartLoad(c) PROVE CacheInv'
  <2>1. PICK l \in Loads :
          /\ loads[l].at = "unused"
          /\ loads' = [loads EXCEPT ![l] = [at |-> "running", gen |-> generation, cleared |-> FALSE]]
          /\ inFlight' = l
    BY <1>2 DEF StartLoad
  <2>2. inFlight = NoLoad /\ store' = store /\ generation' = generation
    BY <1>2 DEF StartLoad
  <2> QED
    BY <2>1, <2>2 DEF Load, Entry
<1>3. ASSUME NEW l \in Loads, LoadSucceeds(l) PROVE CacheInv'
  BY <1>3 DEF LoadSucceeds, Load, Entry
<1>4. ASSUME NEW l \in Loads, LoadFails(l) PROVE CacheInv'
  BY <1>4 DEF LoadFails, Load, Entry
<1>5. ASSUME NEW l \in Loads, ClearSlot(l) PROVE CacheInv'
  BY <1>5 DEF ClearSlot, Settled, Load, Entry
<1>6. CASE Invalidate
  BY <1>6 DEF Invalidate, Load
<1>7. CASE CacheTick \/ UNCHANGED cacheVars
  BY <1>7 DEF CacheTick, cacheVars
<1> QED
  BY <1>1, <1>2, <1>3, <1>4, <1>5, <1>6, <1>7 DEF CacheNext

-----------------------------------------------------------------------------
(* A load, once started, stays started and keeps its generation. *)
LEMMA LoadsKeepGeneration ==
  ASSUME CacheTypeOK, [CacheNext]_cacheVars, NEW l \in Loads, loads[l].at # "unused"
  PROVE  loads'[l].at # "unused" /\ loads'[l].gen = loads[l].gen
<1> USE DEF CacheTypeOK, Load
<1>1. CASE \E c \in Callers : StartLoad(c)
  BY <1>1 DEF StartLoad
<1>2. CASE \E m \in Loads : LoadSucceeds(m) \/ LoadFails(m) \/ ClearSlot(m)
  BY <1>2 DEF LoadSucceeds, LoadFails, ClearSlot
<1>3. CASE UNCHANGED loads
  BY <1>3
<1> QED
  BY <1>1, <1>2, <1>3
  DEF CacheNext, cacheVars, GetFresh, GetShared, Resume, Served, ServedLastGood, FallsToSnapshot, Await,
      Invalidate, CacheTick

(* Every step keeps every caller's part: a newcomer's value, slot and      *)
(* fallback are of the current generation, and a waiting caller gets the   *)
(* load it awaits or its fallback.                                         *)
LEMMA CallerStep == IInv /\ [CacheNext]_cacheVars => \A c \in Callers : CallerSinceBust(c)'
<1> SUFFICES ASSUME IInv, [CacheNext]_cacheVars, NEW c \in Callers PROVE CallerSinceBust(c)'
  OBVIOUS
<1> USE CacheAssumption DEF IInv, CallerSinceBust
<1>0. CacheTypeOK /\ callers[c] \in Caller
  BY DEF CacheTypeOK
<1>1. CASE callers'[c] = callers[c]
  BY <1>0, <1>1, LoadsKeepGeneration DEF Caller
<1>2. CASE GetFresh(c)
  <2>1. callers'[c] = [Arrival EXCEPT !.at = "served", !.value = store.load]
    BY <1>0, <1>2 DEF GetFresh, CacheTypeOK
  <2>2. store # NoLoad /\ store.load \in Loads /\ loads' = loads
    BY <1>0, <1>2 DEF GetFresh, Fresh, CacheTypeOK, Entry
  <2>3. loads[store.load].at = "committed" /\ loads[store.load].gen = generation
    BY <2>2 DEF CachedSinceBust
  <2> QED
    BY <1>0, <2>1, <2>2, <2>3, ArrivalType DEF Caller, CacheTypeOK
<1>3. ASSUME NEW l \in Loads, callers'[c] = [Arrival EXCEPT !.load = l],
             loads'[l].at # "unused", loads'[l].gen = generation
      PROVE  CallerSinceBust(c)'
  <2>1. Arrival.existing # NoLoad =>
          /\ Arrival.existing \in Loads
          /\ loads[Arrival.existing].at = "committed" /\ loads[Arrival.existing].gen = generation
    BY <1>0, ArrivalType DEF CachedSinceBust, CacheTypeOK, Entry
  <2>2. Arrival.existing # NoLoad =>
          /\ loads'[Arrival.existing].at # "unused"
          /\ loads'[Arrival.existing].gen = generation
    BY <1>0, <2>1, LoadsKeepGeneration
  <2> QED
    BY <1>0, <1>3, <2>1, <2>2, ArrivalType DEF Caller, CacheTypeOK
<1>4. CASE GetShared(c)
  <2>1. /\ callers'[c] = [Arrival EXCEPT !.load = inFlight]
        /\ inFlight \in Loads /\ loads' = loads
    BY <1>0, <1>4 DEF GetShared, CacheTypeOK
  <2> QED
    BY <1>3, <2>1 DEF SlotIsCurrent
<1>5. CASE StartLoad(c)
  <2>1. PICK l \in Loads :
          /\ loads' = [loads EXCEPT ![l] = [at |-> "running", gen |-> generation, cleared |-> FALSE]]
          /\ callers' = [callers EXCEPT ![c] = [Arrival EXCEPT !.load = l]]
    BY <1>5 DEF StartLoad
  <2>2. /\ callers'[c] = [Arrival EXCEPT !.load = l]
        /\ loads'[l].at = "running" /\ loads'[l].gen = generation
    BY <1>0, <2>1 DEF CacheTypeOK
  <2> QED
    BY <1>3, <2>2
<1>6. CASE Resume(c)
  <2> USE <1>0 DEF CacheTypeOK, Caller, Await
  <2>1. CASE Served(c)
    BY <2>1, <1>6 DEF Resume, Served
  <2>2. CASE ServedLastGood(c)
    BY <2>2, <1>6 DEF Resume, ServedLastGood
  <2>3. CASE FallsToSnapshot(c)
    BY <2>3, <1>6 DEF Resume, FallsToSnapshot
  <2> QED
    BY <1>6, <2>1, <2>2, <2>3 DEF Resume
<1>7. CASE \E d \in Callers \ {c} : GetFresh(d) \/ GetShared(d) \/ StartLoad(d) \/ Resume(d)
  <2>1. callers'[c] = callers[c]
    BY <1>0, <1>7
    DEF GetFresh, GetShared, StartLoad, Resume, Served, ServedLastGood, FallsToSnapshot, Await, CacheTypeOK
  <2> QED
    BY <1>1, <2>1
<1>8. CASE UNCHANGED callers
  BY <1>1, <1>8
<1> QED
  BY <1>2, <1>4, <1>5, <1>6, <1>7, <1>8
  DEF CacheNext, cacheVars, LoadSucceeds, LoadFails, ClearSlot, Invalidate, CacheTick

-----------------------------------------------------------------------------
LEMMA Invariance == CacheSpec => []IInv
<1>1. IInv /\ [CacheNext]_cacheVars => IInv'
  BY TypeStep, CacheStep, CallerStep DEF IInv, CacheInv
<1> QED
  BY <1>1, InitIInv, PTL DEF CacheSpec

(* The types of the cache, its loads and its callers. *)
THEOREM CatalogTypes == CacheSpec => []CacheTypeOK
<1>1. IInv => CacheTypeOK
  BY DEF IInv
<1> QED
  BY <1>1, Invariance, PTL

(* A load superseded by a bust never becomes the cached value. *)
THEOREM NoSupersededCommit == CacheSpec => []CachedSinceBust
<1>1. IInv => CachedSinceBust
  BY DEF IInv
<1> QED
  BY <1>1, Invariance, PTL

(* However many callers miss at once, one current load runs. *)
THEOREM OneLoadAtATime == CacheSpec => []SingleFlight
<1>1. IInv => SingleFlight
  BY DEF IInv, SlotIsCurrent, SingleFlight
<1> QED
  BY <1>1, Invariance, PTL

(* Nobody is served a catalog whose load is older than the last bust       *)
(* before they asked.                                                      *)
THEOREM RefreshForcesAPull == CacheSpec => []ServedSinceBust
<1>1. IInv => ServedSinceBust
  BY DEF IInv, CallerSinceBust, ServedSinceBust
<1> QED
  BY <1>1, Invariance, PTL
-----------------------------------------------------------------------------
(* What holds of "on a failed re-pull the last good catalog is kept": only *)
(* a bust takes it away.  Whoever has to wait after a load of the current  *)
(* generation has committed - because the entry expired, and whether or    *)
(* not later loads failed - came with a catalog to fall back on (cache.ts, *)
(* get's `existing').                                                      *)
LastGoodUntilBust ==
  [][\A c \in Callers, l \in Loads :
       /\ loads[l].at = "committed" /\ loads[l].gen = generation
       /\ callers'[c] # callers[c] /\ callers'[c].at = "waiting"
       => callers'[c].existing # NoLoad]_cacheVars

(* An expired entry is replaced, never dropped, within a generation. *)
CommittedIsStored ==
  \A l \in Loads : loads[l].at = "committed" /\ loads[l].gen = generation => store # NoLoad

LEMMA StoredStep == IInv /\ CommittedIsStored /\ [CacheNext]_cacheVars => CommittedIsStored'
<1> SUFFICES ASSUME IInv, CommittedIsStored, [CacheNext]_cacheVars PROVE CommittedIsStored'
  OBVIOUS
<1> USE CacheAssumption DEF IInv, CacheTypeOK, CommittedIsStored
<1>1. ASSUME NEW c \in Callers, GetFresh(c) \/ GetShared(c) \/ Resume(c) PROVE CommittedIsStored'
  BY <1>1 DEF GetFresh, GetShared, Resume, Served, ServedLastGood, FallsToSnapshot, Await
<1>2. ASSUME NEW c \in Callers, StartLoad(c) PROVE CommittedIsStored'
  BY <1>2 DEF StartLoad, Load
<1>3. ASSUME NEW l \in Loads, LoadSucceeds(l) \/ LoadFails(l) \/ ClearSlot(l) PROVE CommittedIsStored'
  <2>2. CASE loads[l].gen = generation /\ LoadSucceeds(l)
    <3>1. store' = [load |-> l, storedAt |-> cacheClock]
      BY <2>2 DEF LoadSucceeds
    <3>2. store' # NoLoad
      BY <3>1
    <3> QED
      BY <3>2
  <2>3. CASE ~(loads[l].gen = generation /\ LoadSucceeds(l))
    BY <1>3, <2>3 DEF LoadSucceeds, LoadFails, ClearSlot, Load
  <2> QED
    BY <2>2, <2>3
<1>4. CASE Invalidate
  BY <1>4 DEF Invalidate, LoadsPast, Load
<1>5. CASE CacheTick \/ UNCHANGED cacheVars
  BY <1>5 DEF CacheTick, cacheVars
<1> QED
  BY <1>1, <1>2, <1>3, <1>4, <1>5 DEF CacheNext

(* The last good catalog is lost to a bust and to nothing else. *)
THEOREM LastGoodOnlyBusted == CacheSpec => LastGoodUntilBust
<1> DEFINE Kept == \A c \in Callers, l \in Loads :
                     /\ loads[l].at = "committed" /\ loads[l].gen = generation
                     /\ callers'[c] # callers[c] /\ callers'[c].at = "waiting"
                     => callers'[c].existing # NoLoad
<1>1. CacheInit => CommittedIsStored
  BY DEF CacheInit, CommittedIsStored
<1>2. IInv /\ CommittedIsStored /\ [CacheNext]_cacheVars => [Kept]_cacheVars
  <2> SUFFICES ASSUME IInv, CommittedIsStored, [CacheNext]_cacheVars, NEW c \in Callers, NEW l \in Loads,
                      loads[l].at = "committed", loads[l].gen = generation,
                      callers'[c] # callers[c], callers'[c].at = "waiting"
               PROVE  callers'[c].existing # NoLoad
    OBVIOUS
  <2>1. CacheTypeOK /\ callers[c] \in Caller
    BY DEF IInv, CacheTypeOK
  <2>2. Arrival.existing # NoLoad
    <3>1. store # NoLoad
      BY DEF CommittedIsStored
    <3>2. store.load \in Loads
      BY <2>1, <3>1 DEF CacheTypeOK, Entry
    <3> QED
      BY <2>1, <3>1, <3>2, ArrivalType, CacheAssumption
  <2>3. ~Resume(c)
    <3> USE <2>1 DEF CacheTypeOK, Caller, Await
    <3>1. ~Served(c)
      BY DEF Served
    <3>2. ~ServedLastGood(c)
      BY DEF ServedLastGood
    <3>3. ~FallsToSnapshot(c)
      BY DEF FallsToSnapshot
    <3> QED
      BY <3>1, <3>2, <3>3 DEF Resume
  <2>4. GetFresh(c) \/ GetShared(c) \/ StartLoad(c)
    BY <2>1, <2>3
    DEF CacheNext, cacheVars, GetFresh, GetShared, StartLoad, Resume, Served, ServedLastGood, FallsToSnapshot,
        Await, LoadSucceeds, LoadFails, ClearSlot, Invalidate, CacheTick, CacheTypeOK
  <2>5. CASE GetFresh(c)
    BY <2>1, <2>2, <2>5, ArrivalType DEF GetFresh, Caller, CacheTypeOK
  <2>6. CASE GetShared(c)
    BY <2>1, <2>2, <2>6, ArrivalType DEF GetShared, Caller, CacheTypeOK
  <2>7. CASE StartLoad(c)
    BY <2>1, <2>2, <2>7, ArrivalType DEF StartLoad, Caller, CacheTypeOK
  <2> QED
    BY <2>4, <2>5, <2>6, <2>7
<1> QED
  BY <1>1, <1>2, StoredStep, Invariance, PTL DEF CacheSpec, LastGoodUntilBust
=============================================================================
