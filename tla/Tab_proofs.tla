----------------------------- MODULE Tab_proofs -----------------------------
(***************************************************************************)
(* Proofs about parts of one tab that share no state (see MCParts): the    *)
(* effort of its next turn, for every set of models and settings, whose    *)
(* rules TLC tries on a few tables; its diagnostics pipe, for every bound  *)
(* of the queue and every number of events and failures; and the form of a *)
(* connection with its save and its tests, for any URLs, keys, drafts and  *)
(* number of tests.                                                        *)
(***************************************************************************)
EXTENDS Thinking, ClientLog, ConnectionEditor, FiniteSetTheorems, SequenceTheorems, TLAPS

-----------------------------------------------------------------------------
(***************************************************************************)
(* Thinking                                                                *)
(***************************************************************************)
Write == [value : EffortOverrides, at : {"sent", "landed", "failed"}]

(* What a setup is made of. *)
LEMMA SetupFields ==
  ASSUME NEW s \in Setups
  PROVE  /\ s.connection \in EffortOverrides /\ s.global \in ReasoningEfforts
         /\ s.type \in {"anthropic", "openai", "google", "xai", "openrouter", "azure", "openai-compatible"}
         /\ s.family \in {"plain", "reasoning", "proOnly", "content"}
BY ThinkingAssumption DEF ThinkingSetup

(* A write that lands or fails stays the write it was.                     *)
LEMMA WriteMoves ==
  ASSUME NEW writes \in Seq(Write), NEW i \in 1 .. Len(writes), NEW at \in {"sent", "landed", "failed"},
         NEW moved, moved = [writes EXCEPT ![i].at = at]
  PROVE  moved \in Seq(Write) /\ Len(moved) = Len(writes) /\ writes[i] \in Write
<1>1. writes[i] \in Write
  OBVIOUS
<1>2. [writes[i] EXCEPT !.at = at] \in Write
  BY <1>1 DEF Write
<1>3. moved = [writes EXCEPT ![i] = [writes[i] EXCEPT !.at = at]]
  OBVIOUS
<1> QED
  BY <1>1, <1>2, <1>3

(* An effort, or nothing: what falls through ends at the settings.         *)
LEMMA BaselineType ==
  ASSUME ThinkingTypeOK
  PROVE  BaselineEffort \in ReasoningEfforts
BY SetupFields DEF ThinkingTypeOK, BaselineEffort, EffortOverrides

(* What Alt+T writes means, after the cascade, what it announces.          *)
LEMMA ToggledMeans ==
  ASSUME ThinkingTypeOK
  PROVE  /\ Toggled.next \in EffortOverrides /\ Toggled.announced \in ReasoningEfforts
         /\ Toggled.announced = IF Toggled.next # "inherit" THEN Toggled.next ELSE BaselineEffort
BY BaselineType DEF Toggled, EffortOverrides, ReasoningEfforts

(* The options the server makes of an effort reach the provider, at the    *)
(* level that was meant (resolve-reasoning.ts, reasoning-rules.ts).        *)
LEMMA MeantIsAsked ==
  ASSUME ThinkingTypeOK
  PROVE  /\ EffectiveEffort \in ReasoningEfforts /\ Meant(EffectiveEffort) \in ReasoningEfforts \cup {"default"}
         /\ ReasoningDecision.options.space \in {"none", ProviderReads}
         /\ ReasoningDecision.options.level = Meant(EffectiveEffort)
<1>1. setup \in Setups
  BY DEF ThinkingTypeOK
<1>2. setup.type \in {"anthropic", "openai", "google", "xai", "openrouter", "azure", "openai-compatible"}
      /\ setup.family \in {"plain", "reasoning", "proOnly", "content"}
  BY <1>1, SetupFields
<1>eff. EffectiveEffort \in ReasoningEfforts
  BY <1>1, SetupFields DEF ThinkingTypeOK, EffectiveEffort, EffortOverrides
<1>meant. Meant(EffectiveEffort) \in ReasoningEfforts \cup {"default"}
  BY <1>eff DEF Meant, ReasoningEfforts
<1> USE DEF ReasoningDecision, ReasoningCapable, Meant, NoOptions, LocalOptions, RuleOptions, ProviderReads
<1>3. CASE EffectiveEffort = "off"
  BY <1>eff, <1>meant, <1>2, <1>3
<1>4. CASE EffectiveEffort # "off" /\ ~ReasoningCapable
  BY <1>eff, <1>meant, <1>2, <1>4
<1>5. CASE EffectiveEffort # "off" /\ ReasoningCapable
  BY <1>eff, <1>meant, <1>2, <1>5
<1> QED
  BY <1>3, <1>4, <1>5

(* What was announced rests on the latest write, in every state: the       *)
(* writes of one tab, and the gate of its send (reasoning.ts, pending).    *)
THEOREM ThinkingInvariant == ThinkingSpec => [](ThinkingTypeOK /\ AnnouncedInv)
<1>0. MaxEffortWrites \in Nat
  BY ThinkingAssumption
<1>1. ThinkingInit => ThinkingTypeOK /\ AnnouncedInv
  BY <1>0 DEF ThinkingInit, ThinkingTypeOK, AnnouncedInv, NoSending, EffortOverrides, ReasoningEfforts
<1>2. ThinkingTypeOK /\ AnnouncedInv /\ [ThinkingNext]_thinkingVars => (ThinkingTypeOK /\ AnnouncedInv)'
  <2> SUFFICES ASSUME ThinkingTypeOK, AnnouncedInv, [ThinkingNext]_thinkingVars
               PROVE  ThinkingTypeOK' /\ AnnouncedInv'
    OBVIOUS
  <2>0. effortWrites \in Seq(Write) /\ Len(effortWrites) \in Nat
    BY DEF ThinkingTypeOK, Write
  <2>1. ASSUME NEW next \in EffortOverrides, Chosen(next),
               spoken' \in ReasoningEfforts \cup {"nothing"},
               spoken' # "nothing" =>
                 /\ sending = NoSending
                 /\ spoken' = IF next # "inherit" THEN next ELSE BaselineEffort
        PROVE  ThinkingTypeOK' /\ AnnouncedInv'
    <3>1. effortWrites' = Append(effortWrites, [value |-> next, at |-> "sent"])
          /\ UNCHANGED <<setup, storedEffort, seedEffort, sending, ran>>
      BY <2>1 DEF Chosen
    <3>2. effortWrites' \in Seq(Write) /\ Len(effortWrites') = Len(effortWrites) + 1
          /\ effortWrites'[Len(effortWrites')] = [value |-> next, at |-> "sent"]
      BY <2>0, <3>1 DEF Write
    <3>3. control' \in [seed : EffortOverrides, value : EffortOverrides]
      BY <2>1 DEF Chosen, ThinkingTypeOK
    <3>4. Len(effortWrites') <= MaxEffortWrites
      BY <1>0, <2>0, <2>1, <3>2 DEF Chosen
    <3>5. ThinkingTypeOK'
      BY <2>1, <3>1, <3>2, <3>3, <3>4 DEF ThinkingTypeOK, Write
    <3>6. AnnouncedInv'
      BY <2>0, <2>1, <3>1, <3>2 DEF AnnouncedInv, NoSending, BaselineEffort
    <3> QED
      BY <3>5, <3>6
  <2>2. CASE ChangeEffort
    BY <2>1, <2>2 DEF ChangeEffort
  <2>3. CASE ToggleThinking
    BY <2>1, <2>3, ToggledMeans DEF ToggleThinking
  <2>4. CASE EffortLands
    <3>1. PICK i \in 1 .. Len(effortWrites) :
            /\ effortWrites[i].at = "sent"
            /\ storedEffort' = effortWrites[i].value
            /\ effortWrites' = [effortWrites EXCEPT ![i].at = "landed"]
            /\ spoken' = IF Overtaken(i) THEN "nothing" ELSE spoken
            /\ UNCHANGED <<setup, seedEffort, control, sending, ran, setElsewhere>>
      BY <2>4 DEF EffortLands
    <3>2. effortWrites' \in Seq(Write) /\ Len(effortWrites') = Len(effortWrites)
          /\ effortWrites[i] \in Write
      BY <2>0, <3>1, WriteMoves
    <3>3. ThinkingTypeOK'
      BY <3>1, <3>2 DEF ThinkingTypeOK, Write
    <3>4. CASE i = Len(effortWrites)
      <4>1. effortWrites'[i] = [effortWrites[i] EXCEPT !.at = "landed"]
        BY <2>0, <3>1
      <4>2. effortWrites'[i].value = effortWrites[i].value /\ effortWrites'[i].at = "landed"
        BY <3>2, <4>1 DEF Write
      <4> QED
        BY <2>0, <3>1, <3>2, <3>3, <3>4, <4>2 DEF AnnouncedInv, BaselineEffort
    <3>5. CASE i # Len(effortWrites)
      <4>1. effortWrites'[Len(effortWrites)] = effortWrites[Len(effortWrites)] /\ Len(effortWrites) \in i + 1 .. Len(effortWrites)
        BY <2>0, <3>1, <3>5
      <4>2. spoken' # "nothing" => spoken' = spoken /\ effortWrites[Len(effortWrites)].at # "landed"
        BY <3>1, <4>1 DEF Overtaken
      <4> QED
        BY <2>0, <3>1, <3>2, <3>3, <4>1, <4>2 DEF AnnouncedInv, BaselineEffort
    <3> QED
      BY <3>4, <3>5
  <2>5. CASE EffortFails
    <3>1. PICK i \in 1 .. Len(effortWrites) :
            /\ effortWrites[i].at = "sent"
            /\ effortWrites' = [effortWrites EXCEPT ![i].at = "failed"]
            /\ spoken' = IF i = Len(effortWrites) THEN "nothing" ELSE spoken
            /\ UNCHANGED <<setup, storedEffort, seedEffort, control, sending, ran, setElsewhere>>
      BY <2>5 DEF EffortFails
    <3>2. effortWrites' \in Seq(Write) /\ Len(effortWrites') = Len(effortWrites)
      BY <2>0, <3>1, WriteMoves
    <3>3. i # Len(effortWrites) => effortWrites'[Len(effortWrites)] = effortWrites[Len(effortWrites)]
      BY <2>0, <3>1
    <3> QED
      BY <3>1, <3>2, <3>3 DEF ThinkingTypeOK, AnnouncedInv, BaselineEffort, Write
  <2>6. CASE EffortRefetched
    BY <2>6 DEF EffortRefetched, ThinkingTypeOK, AnnouncedInv, BaselineEffort
  <2>7. CASE OtherTabChooses
    BY <2>7 DEF OtherTabChooses, ThinkingTypeOK, AnnouncedInv
  <2>8. CASE PressSendThinking
    <3>1. Len(effortWrites) \in 0 .. MaxEffortWrites
      BY <1>0, <2>0 DEF ThinkingTypeOK
    <3> QED
      BY <2>8, <3>1 DEF PressSendThinking, ThinkingTypeOK, AnnouncedInv, BaselineEffort, NoSending
  <2>9. CASE ThinkingGateOpens
    <3>1. sending' = [sending EXCEPT !.at = "posted"] /\ sending'.on = sending.on /\ sending'.at = "posted"
      BY <2>9 DEF ThinkingGateOpens, ThinkingTypeOK
    <3> QED
      BY <2>0, <2>9, <3>1 DEF ThinkingGateOpens, ThinkingTypeOK, AnnouncedInv, BaselineEffort
  <2>10. CASE ServeThinking
    <3>1. ran' \in ReasoningEfforts \cup {"nothing", "default"}
      BY <2>10, MeantIsAsked DEF ServeThinking
    <3> QED
      BY <1>0, <2>10, <3>1 DEF ServeThinking, ThinkingTypeOK, AnnouncedInv, NoSending
  <2>11. CASE UNCHANGED thinkingVars
    BY <2>11 DEF thinkingVars, ThinkingTypeOK, AnnouncedInv, BaselineEffort
  <2> QED
    BY <2>2, <2>3, <2>4, <2>5, <2>6, <2>7, <2>8, <2>9, <2>10, <2>11 DEF ThinkingNext
<1> QED
  BY <1>1, <1>2, PTL DEF ThinkingSpec

(* The next turn runs at the effort that Alt+T announced                   *)
(* (useConversationReasoning.ts against resolve-reasoning.ts).             *)
THEOREM AnnouncedServed == ThinkingSpec => AnnouncedIsServed
<1>1. ThinkingTypeOK /\ AnnouncedInv /\ [ThinkingNext]_thinkingVars
        => [sending.at = "posted" /\ sending' = NoSending /\ spoken # "nothing" => ran' = Meant(spoken)]_thinkingVars
  <2> SUFFICES ASSUME ThinkingTypeOK, AnnouncedInv, [ThinkingNext]_thinkingVars,
                      sending.at = "posted", sending' = NoSending, spoken # "nothing"
               PROVE  ran' = Meant(spoken) \/ UNCHANGED thinkingVars
    OBVIOUS
  <2>1. CASE ServeThinking
    <3>1. effortWrites[Len(effortWrites)].at = "landed"
      BY DEF AnnouncedInv
    <3>2. storedEffort = effortWrites[Len(effortWrites)].value
      BY <3>1 DEF AnnouncedInv
    <3>3. spoken = EffectiveEffort
      BY <3>2 DEF AnnouncedInv, EffectiveEffort, BaselineEffort
    <3> QED
      BY <2>1, <3>3, MeantIsAsked DEF ServeThinking
  <2>2. sending # NoSending
    BY DEF NoSending
  <2>3. CASE ThinkingGateOpens
    BY <2>2, <2>3 DEF ThinkingGateOpens
  <2>4. ~(ChangeEffort \/ ToggleThinking \/ EffortLands \/ EffortFails \/ EffortRefetched \/ OtherTabChooses
           \/ PressSendThinking)
    BY <2>2 DEF ChangeEffort, ToggleThinking, Chosen, EffortLands, EffortFails, EffortRefetched,
                OtherTabChooses, PressSendThinking
  <2> QED
    BY <2>1, <2>3, <2>4 DEF ThinkingNext
<1> QED
  BY <1>1, ThinkingInvariant, PTL DEF ThinkingSpec, AnnouncedIsServed

-----------------------------------------------------------------------------
(***************************************************************************)
(* ClientLog                                                               *)
(***************************************************************************)
IsEvent(e) == e.kind \in EventKinds

(* The events of a sequence in the order in which they happened; those of  *)
(* one set of entries before those of another.                             *)
Ascending(s) ==
  \A i, j \in 1 .. Len(s) : i < j /\ IsEvent(s[i]) /\ IsEvent(s[j]) => s[i].seq < s[j].seq
Older(A, B) == \A e \in A, f \in B : IsEvent(e) /\ IsEvent(f) => e.seq < f.seq

PendingEntries == Range(posting.batch) \cup Range(logQueue)

(* An event that still waits is older than what the server has written, or *)
(* has been written before it.                                             *)
WrittenBefore(e, k) == \E m \in 1 .. k - 1 : serverLog[m] = e
PendingInTurn ==
  \A e \in PendingEntries, k \in 1 .. Len(serverLog) :
    IsEvent(e) /\ IsEvent(serverLog[k]) /\ e.seq < serverLog[k].seq => WrittenBefore(e, k)

LogTypes ==
  /\ logQueue \in Seq(LogEntry) /\ Len(logQueue) <= MaxQueue /\ dropped \in Nat
  /\ posting \in [at: {"idle", "sent", "answered"}, batch: Seq(LogEntry),
                  result: {"none", "ok", "retry", "poison", "disabled"}]
  /\ Len(posting.batch) <= MaxBatch /\ (posting.at = "idle" => posting.batch = <<>>)
  /\ posting.at = "answered" => posting.result # "none"
  /\ pipe \in [off: BOOLEAN, timer: BOOLEAN] /\ serverLog \in Seq(LogEntry)
  /\ counters \in [seq: Nat, made: Nat, retries: Nat] /\ counters.made <= counters.seq
  /\ tally \in [reported: Nat, refused: SUBSET Nat]

LogOrdered ==
  /\ Ascending(logQueue) /\ Ascending(posting.batch) /\ Older(Range(posting.batch), Range(logQueue))
  /\ \A e \in PendingEntries \cup Range(serverLog) : e.seq < counters.seq
  /\ PendingInTurn /\ LoggedInOrder

(* A batch that the server took is in its log. *)
TakenIsLogged == posting.result \in {"ok", "disabled"} => NumbersIn(posting.batch) \subseteq NumbersIn(serverLog)

LogInv == LogTypes /\ LogOrdered /\ TakenIsLogged /\ DropsAccounted

(* The two parts into which a sequence is cut. *)
LEMMA CutAt ==
  ASSUME NEW S, NEW s \in Seq(S), NEW n \in Nat
  PROVE  /\ FirstOf(s, n) \in Seq(S) /\ Len(FirstOf(s, n)) = (IF n < Len(s) THEN n ELSE Len(s))
         /\ \A i \in 1 .. Len(FirstOf(s, n)) : FirstOf(s, n)[i] = s[i]
         /\ RestOf(s, n) \in Seq(S) /\ Len(RestOf(s, n)) = (IF n < Len(s) THEN Len(s) - n ELSE 0)
         /\ \A i \in 1 .. Len(RestOf(s, n)) : RestOf(s, n)[i] = s[n + i]
<1> DEFINE k == IF n < Len(s) THEN n ELSE Len(s)
           m == Len(s)
<1>1. m \in Nat /\ k \in Nat /\ k <= m /\ \A i \in 1 .. m : s[i] \in S
  OBVIOUS
<1>2. FirstOf(s, n) = SubSeq(s, 1, k) /\ RestOf(s, n) = SubSeq(s, n + 1, m)
  BY DEF FirstOf, RestOf
<1>3. k = (IF n < m THEN n ELSE m)
  OBVIOUS
<1>4. Len(s) = m
  OBVIOUS
<1> HIDE DEF k, m
<1>5. /\ SubSeq(s, 1, k) \in Seq(S) /\ Len(SubSeq(s, 1, k)) = (IF 1 <= k THEN k - 1 + 1 ELSE 0)
      /\ \A i \in 1 .. k - 1 + 1 : SubSeq(s, 1, k)[i] = s[1 + i - 1]
  <2>1. 1 \in Int /\ k \in Int /\ \A i \in 1 .. k : s[i] \in S
    BY <1>1
  <2> QED
    BY <2>1, SubSeqProperties
<1>6. /\ SubSeq(s, n + 1, m) \in Seq(S)
      /\ Len(SubSeq(s, n + 1, m)) = (IF n + 1 <= m THEN m - (n + 1) + 1 ELSE 0)
      /\ \A i \in 1 .. m - (n + 1) + 1 : SubSeq(s, n + 1, m)[i] = s[n + 1 + i - 1]
  <2>1. n + 1 \in Int /\ m \in Int /\ \A i \in n + 1 .. m : s[i] \in S
    BY <1>1
  <2> QED
    BY <2>1, SubSeqProperties
<1>7. /\ Len(SubSeq(s, 1, k)) = k /\ \A i \in 1 .. k : SubSeq(s, 1, k)[i] = s[i]
  BY <1>1, <1>5
<1>8. /\ Len(SubSeq(s, n + 1, m)) = (IF n < m THEN m - n ELSE 0)
      /\ \A i \in 1 .. Len(SubSeq(s, n + 1, m)) : SubSeq(s, n + 1, m)[i] = s[n + i]
  BY <1>1, <1>6
<1> QED
  BY <1>2, <1>3, <1>4, <1>5, <1>6, <1>7, <1>8

LEMMA Members ==
  ASSUME NEW S, NEW s \in Seq(S)
  PROVE  Len(s) \in Nat /\ Range(s) = {s[i] : i \in 1 .. Len(s)} /\ Range(s) \subseteq S
BY DEF Range

(* What the parts of a sequence, and two sequences joined, consist of, and *)
(* that order is kept.                                                     *)
LEMMA CutKeepsOrder ==
  ASSUME NEW s \in Seq(LogEntry), NEW n \in Nat
  PROVE  /\ Range(s) = Range(FirstOf(s, n)) \cup Range(RestOf(s, n))
         /\ Ascending(s) => /\ Ascending(FirstOf(s, n)) /\ Ascending(RestOf(s, n))
                            /\ Older(Range(FirstOf(s, n)), Range(RestOf(s, n)))
<1> DEFINE p == FirstOf(s, n)
           q == RestOf(s, n)
<1>1. /\ p \in Seq(LogEntry) /\ Len(p) = (IF n < Len(s) THEN n ELSE Len(s))
      /\ \A i \in 1 .. Len(p) : p[i] = s[i]
      /\ q \in Seq(LogEntry) /\ Len(q) = (IF n < Len(s) THEN Len(s) - n ELSE 0)
      /\ \A i \in 1 .. Len(q) : q[i] = s[n + i]
  BY CutAt
<1> HIDE DEF p, q
<1>2. /\ Range(p) = {p[i] : i \in 1 .. Len(p)} /\ Range(q) = {q[i] : i \in 1 .. Len(q)}
      /\ Range(s) = {s[i] : i \in 1 .. Len(s)} /\ Len(s) \in Nat
  BY <1>1, Members
<1>3. ASSUME NEW i \in 1 .. Len(s)
      PROVE  s[i] \in Range(p) \cup Range(q)
  <2>1. CASE i <= Len(p)
    BY <1>1, <1>2, <2>1
  <2>2. CASE i > Len(p)
    <3>1. i - n \in 1 .. Len(q) /\ n + (i - n) = i
      BY <1>1, <1>2, <2>2
    <3> QED
      BY <1>1, <1>2, <3>1
  <2> QED
    BY <1>1, <1>2, <2>1, <2>2
<1>4. Range(p) \cup Range(q) \subseteq Range(s)
  <2>1. \A i \in 1 .. Len(p) : i \in 1 .. Len(s)
    BY <1>1, <1>2
  <2>2. \A i \in 1 .. Len(q) : n + i \in 1 .. Len(s)
    BY <1>1, <1>2
  <2> QED
    BY <1>1, <1>2, <2>1, <2>2
<1>5. ASSUME Ascending(s)
      PROVE  Ascending(p) /\ Ascending(q) /\ Older(Range(p), Range(q))
  <2>1. Ascending(p)
    BY <1>1, <1>2, <1>5 DEF Ascending
  <2>2. Ascending(q)
    <3> SUFFICES ASSUME NEW i \in 1 .. Len(q), NEW j \in 1 .. Len(q), i < j, IsEvent(q[i]), IsEvent(q[j])
                 PROVE  q[i].seq < q[j].seq
      BY DEF Ascending
    <3>1. n + i \in 1 .. Len(s) /\ n + j \in 1 .. Len(s) /\ n + i < n + j
      BY <1>1, <1>2
    <3> QED
      BY <1>1, <1>5, <3>1 DEF Ascending
  <2>3. Older(Range(p), Range(q))
    <3> SUFFICES ASSUME NEW i \in 1 .. Len(p), NEW j \in 1 .. Len(q), IsEvent(p[i]), IsEvent(q[j])
                 PROVE  p[i].seq < q[j].seq
      BY <1>2 DEF Older
    <3>1. i \in 1 .. Len(s) /\ n + j \in 1 .. Len(s) /\ i < n + j
      BY <1>1, <1>2
    <3> QED
      BY <1>1, <1>5, <3>1 DEF Ascending
  <2> QED
    BY <2>1, <2>2, <2>3
<1> QED
  BY <1>2, <1>3, <1>4, <1>5 DEF p, q

LEMMA JoinKeepsOrder ==
  ASSUME NEW s \in Seq(LogEntry), NEW t \in Seq(LogEntry)
  PROVE  /\ s \o t \in Seq(LogEntry) /\ Len(s \o t) = Len(s) + Len(t)
         /\ Range(s \o t) = Range(s) \cup Range(t)
         /\ \A i \in 1 .. Len(s) : (s \o t)[i] = s[i]
         /\ \A i \in 1 .. Len(t) : (s \o t)[Len(s) + i] = t[i]
         /\ Ascending(s) /\ Ascending(t) /\ Older(Range(s), Range(t)) => Ascending(s \o t)
<1> DEFINE r == s \o t
<1>1. /\ r \in Seq(LogEntry) /\ Len(r) = Len(s) + Len(t) /\ Len(s) \in Nat /\ Len(t) \in Nat
      /\ \A i \in 1 .. Len(s) : r[i] = s[i]
      /\ \A i \in 1 .. Len(t) : r[Len(s) + i] = t[i]
  OBVIOUS
<1> HIDE DEF r
<1>2. /\ Range(s) = {s[i] : i \in 1 .. Len(s)} /\ Range(t) = {t[i] : i \in 1 .. Len(t)}
      /\ Range(r) = {r[i] : i \in 1 .. Len(r)}
  BY <1>1, Members
<1>3. ASSUME NEW i \in 1 .. Len(r)
      PROVE  \/ i \in 1 .. Len(s) /\ r[i] = s[i] /\ s[i] \in Range(s)
             \/ \E j \in 1 .. Len(t) : i = Len(s) + j /\ r[i] = t[j] /\ t[j] \in Range(t)
  <2>1. CASE i <= Len(s)
    BY <1>1, <1>2, <2>1
  <2>2. CASE i > Len(s)
    <3>1. i - Len(s) \in 1 .. Len(t) /\ Len(s) + (i - Len(s)) = i
      BY <1>1, <2>2
    <3>2. r[i] = t[i - Len(s)] /\ t[i - Len(s)] \in Range(t)
      BY <1>1, <1>2, <3>1
    <3> QED
      BY <3>1, <3>2
  <2> QED
    BY <1>1, <2>1, <2>2
<1>4. Range(r) \subseteq Range(s) \cup Range(t)
  BY <1>2, <1>3
<1>5. Range(s) \cup Range(t) \subseteq Range(r)
  <2>1. \A i \in 1 .. Len(s) : i \in 1 .. Len(r)
    BY <1>1
  <2>2. \A i \in 1 .. Len(t) : Len(s) + i \in 1 .. Len(r)
    BY <1>1
  <2> QED
    BY <1>1, <1>2, <2>1, <2>2
<1>6. ASSUME Ascending(s), Ascending(t), Older(Range(s), Range(t))
      PROVE  Ascending(r)
  <2> SUFFICES ASSUME NEW i \in 1 .. Len(r), NEW j \in 1 .. Len(r), i < j, IsEvent(r[i]), IsEvent(r[j])
               PROVE  r[i].seq < r[j].seq
    BY DEF Ascending
  <2>1. CASE j \in 1 .. Len(s)
    <3>1. i \in 1 .. Len(s)
      BY <1>1, <2>1
    <3> QED
      BY <1>1, <1>6, <2>1, <3>1 DEF Ascending
  <2>2. CASE i \in 1 .. Len(s) /\ j \notin 1 .. Len(s)
    <3>1. r[i] \in Range(s) /\ r[j] \in Range(t)
      BY <1>1, <1>2, <1>3, <2>2
    <3> QED
      BY <1>6, <3>1 DEF Older
  <2>3. CASE i \notin 1 .. Len(s) /\ j \notin 1 .. Len(s)
    <3>1. PICK m \in 1 .. Len(t) : i = Len(s) + m /\ r[i] = t[m]
      BY <1>3, <2>3
    <3>2. PICK k \in 1 .. Len(t) : j = Len(s) + k /\ r[j] = t[k]
      BY <1>3, <2>3
    <3>3. m < k
      BY <1>1, <3>1, <3>2
    <3> QED
      BY <1>6, <3>1, <3>2, <3>3 DEF Ascending
  <2> QED
    BY <2>1, <2>2, <2>3
<1> QED
  BY <1>1, <1>4, <1>5, <1>6 DEF r

LEMMA LogBounds == MaxQueue \in Nat \ {0} /\ MaxBatch \in Nat \ {0}
BY ClientLogAssumption

(* A sequence has no more numbers than entries. *)
LEMMA NumbersAre ==
  ASSUME NEW s \in Seq(LogEntry)
  PROVE  /\ NumbersIn(s) = {e.seq : e \in Range(s)} /\ NumbersIn(s) \subseteq Nat
         /\ IsFiniteSet(NumbersIn(s)) /\ Cardinality(NumbersIn(s)) \in Nat /\ Cardinality(NumbersIn(s)) <= Len(s)
<1>1. /\ Len(s) \in Nat /\ Range(s) = {s[i] : i \in 1 .. Len(s)} /\ \A i \in 1 .. Len(s) : s[i] \in LogEntry
  BY Members
<1>2. NumbersIn(s) = {e.seq : e \in Range(s)}
  BY <1>1 DEF NumbersIn
<1>3. NumbersIn(s) \subseteq Nat
  BY <1>1 DEF NumbersIn, LogEntry
<1>4. IsFiniteSet(1 .. Len(s)) /\ Cardinality(1 .. Len(s)) = Len(s)
  <2>1. 1 \in Int /\ Len(s) \in Int /\ (IF 1 > Len(s) THEN 0 ELSE Len(s) - 1 + 1) = Len(s)
    BY <1>1
  <2> QED
    BY <2>1, FS_Interval
<1> DEFINE f == [i \in 1 .. Len(s) |-> s[i].seq]
<1>5. f \in Surjection(1 .. Len(s), NumbersIn(s))
  <2>1. \A i \in 1 .. Len(s) : s[i].seq \in NumbersIn(s)
    BY DEF NumbersIn
  <2>2. f \in [1 .. Len(s) -> NumbersIn(s)]
    BY <2>1
  <2>3. \A n \in NumbersIn(s) : \E i \in 1 .. Len(s) : f[i] = n
    BY DEF NumbersIn
  <2> HIDE DEF f
  <2> QED
    BY <2>2, <2>3 DEF Surjection
<1> HIDE DEF f
<1>6. IsFiniteSet(NumbersIn(s)) /\ Cardinality(NumbersIn(s)) <= Len(s)
  BY <1>4, <1>5, FS_Surjection
<1>7. Cardinality(NumbersIn(s)) \in Nat
  BY <1>6, FS_CardinalityType
<1> QED
  BY <1>2, <1>3, <1>6, <1>7

LEMMA MissingGrows ==
  ASSUME NEW M, IsFiniteSet(M), NEW lost, IsFiniteSet(lost), NEW M2, M2 \subseteq M \cup lost,
         NEW a \in Nat, Cardinality(M) <= a, NEW b \in Nat, Cardinality(lost) <= b
  PROVE  IsFiniteSet(M2) /\ Cardinality(M2) <= a + b
<1>1. /\ IsFiniteSet(M \cup lost)
      /\ Cardinality(M \cup lost) = Cardinality(M) + Cardinality(lost) - Cardinality(M \cap lost)
  BY FS_Union
<1>2. IsFiniteSet(M \cap lost)
  BY FS_Subset
<1>3. Cardinality(M) \in Nat /\ Cardinality(lost) \in Nat /\ Cardinality(M \cap lost) \in Nat
  BY <1>2, FS_CardinalityType
<1>4. IsFiniteSet(M2) /\ Cardinality(M2) <= Cardinality(M \cup lost)
  BY <1>1, FS_Subset
<1>5. Cardinality(M2) \in Nat
  BY <1>4, FS_CardinalityType
<1> QED
  BY <1>1, <1>3, <1>4, <1>5

(* Entries that go into the queue stay there in their order, but for the   *)
(* oldest, of which no more are lost than are counted as dropped.          *)
LEMMA QueuedIs ==
  ASSUME NEW entries \in Seq(LogEntry), dropped \in Nat, LogQueued(entries)
  PROVE  /\ logQueue' \in Seq(LogEntry) /\ Len(logQueue') <= MaxQueue /\ dropped' \in Nat
         /\ Range(logQueue') \subseteq Range(entries) /\ (Ascending(entries) => Ascending(logQueue'))
         /\ \E lost \in SUBSET Nat, n \in Nat :
              /\ IsFiniteSet(lost) /\ Cardinality(lost) <= n /\ dropped' = dropped + n
              /\ NumbersIn(entries) \subseteq NumbersIn(logQueue') \cup lost
<1> DEFINE over == Excess(entries)
           gone == FirstOf(entries, over)
<1>1. over \in Nat /\ Len(entries) \in Nat /\ over = (IF Len(entries) > MaxQueue THEN Len(entries) - MaxQueue ELSE 0)
  BY LogBounds DEF Excess
<1>2. logQueue' = RestOf(entries, over) /\ dropped' = dropped + over
  BY DEF LogQueued
<1> HIDE DEF over
<1>3. /\ gone \in Seq(LogEntry) /\ Len(gone) = (IF over < Len(entries) THEN over ELSE Len(entries))
      /\ logQueue' \in Seq(LogEntry) /\ Len(logQueue') = (IF over < Len(entries) THEN Len(entries) - over ELSE 0)
  BY <1>1, <1>2, CutAt
<1>4. Len(logQueue') <= MaxQueue
  BY <1>1, <1>3, LogBounds
<1>5. /\ Range(entries) = Range(gone) \cup Range(logQueue')
      /\ Ascending(entries) => Ascending(logQueue')
  BY <1>1, <1>2, CutKeepsOrder
<1> HIDE DEF gone
<1>6. /\ NumbersIn(gone) \subseteq Nat /\ IsFiniteSet(NumbersIn(gone)) /\ Cardinality(NumbersIn(gone)) \in Nat
      /\ Cardinality(NumbersIn(gone)) <= Len(gone)
  BY <1>3, NumbersAre
<1>7. Cardinality(NumbersIn(gone)) <= over
  BY <1>1, <1>3, <1>6
<1>8. NumbersIn(entries) \subseteq NumbersIn(logQueue') \cup NumbersIn(gone)
  BY <1>3, <1>5, NumbersAre
<1>9. dropped' \in Nat
  BY <1>1, <1>2
<1> QED
  BY <1>1, <1>2, <1>3, <1>4, <1>5, <1>6, <1>7, <1>8, <1>9

Missing ==
  (0 .. counters.seq - 1) \ (NumbersIn(logQueue) \cup NumbersIn(posting.batch) \cup NumbersIn(serverLog) \cup tally.refused)

LEMMA DropsAre ==
  /\ DropsAccounted <=> (~pipe.off => Cardinality(Missing) <= dropped + tally.reported)
  /\ DropsAccounted' <=> (~pipe'.off => Cardinality(Missing') <= dropped' + tally'.reported)
BY DEF DropsAccounted, Missing

LEMMA MissingIsFinite ==
  ASSUME LogTypes
  PROVE  IsFiniteSet(Missing) /\ Cardinality(Missing) \in Nat
<1>1. 0 \in Int /\ counters.seq - 1 \in Int
  BY DEF LogTypes
<1>2. IsFiniteSet(0 .. counters.seq - 1)
  BY <1>1, FS_Interval
<1>3. IsFiniteSet(Missing)
  BY <1>2, FS_Subset DEF Missing
<1> QED
  BY <1>3, FS_CardinalityType

(* Entries wait that waited before, or have the number that is given next: *)
(* what was written of them was written in turn.                           *)
LEMMA StillInTurn ==
  ASSUME LogInv, serverLog' = serverLog, counters'.seq \in Nat, counters.seq <= counters'.seq,
         \A e \in PendingEntries' :
           e \in PendingEntries \/ (e.seq = counters.seq /\ counters'.seq = counters.seq + 1)
  PROVE  /\ PendingInTurn' /\ LoggedInOrder'
         /\ \A e \in PendingEntries' \cup Range(serverLog') : e.seq < counters'.seq
<1>1. /\ counters.seq \in Nat /\ serverLog \in Seq(LogEntry) /\ PendingInTurn /\ LoggedInOrder
      /\ \A e \in PendingEntries \cup Range(serverLog) : e.seq < counters.seq /\ e \in LogEntry
  <2>1. /\ counters.seq \in Nat /\ serverLog \in Seq(LogEntry) /\ PendingInTurn /\ LoggedInOrder
        /\ \A e \in PendingEntries \cup Range(serverLog) : e.seq < counters.seq
        /\ posting.batch \in Seq(LogEntry) /\ logQueue \in Seq(LogEntry)
    BY DEF LogInv, LogTypes, LogOrdered
  <2> QED
    BY <2>1, Members DEF PendingEntries
<1>2. \A k \in 1 .. Len(serverLog) : serverLog[k] \in Range(serverLog)
  BY <1>1, Members
<1>3. \A e \in PendingEntries' \cup Range(serverLog') : e.seq < counters'.seq
  BY <1>1 DEF LogEntry
<1>4. PendingInTurn'
  <2> SUFFICES ASSUME NEW e \in PendingEntries', NEW k \in 1 .. Len(serverLog), IsEvent(e), IsEvent(serverLog[k]),
                      e.seq < serverLog[k].seq
               PROVE  WrittenBefore(e, k)
    BY DEF PendingInTurn, WrittenBefore
  <2>1. CASE e \in PendingEntries
    BY <1>1, <2>1 DEF PendingInTurn
  <2>2. CASE e.seq = counters.seq
    BY <1>1, <1>2, <2>2 DEF LogEntry
  <2> QED
    BY <2>1, <2>2
<1>5. LoggedInOrder'
  BY <1>1 DEF LoggedInOrder
<1> QED
  BY <1>3, <1>4, <1>5

(* Entries are put into the queue: the batch under way, if it is still     *)
(* one, is older than they are.                                            *)
LEMMA QueueKeeps ==
  ASSUME LogInv, NEW entries \in Seq(LogEntry), LogQueued(entries), Ascending(entries),
         serverLog' = serverLog, pipe' = pipe, tally'.reported = tally.reported,
         counters'.seq \in Nat, counters.seq <= counters'.seq,
         posting'.batch \in {posting.batch, <<>>}, Older(Range(posting'.batch), Range(entries)),
         \A e \in Range(entries) :
           e \in PendingEntries \/ (e.seq = counters.seq /\ counters'.seq = counters.seq + 1),
         (0 .. counters'.seq - 1) \ (NumbersIn(entries) \cup NumbersIn(posting'.batch) \cup NumbersIn(serverLog)
                                       \cup tally'.refused) \subseteq Missing
  PROVE  /\ LogOrdered' /\ DropsAccounted'
         /\ logQueue' \in Seq(LogEntry) /\ Len(logQueue') <= MaxQueue /\ dropped' \in Nat
<1>0. LogTypes /\ LogOrdered /\ DropsAccounted /\ dropped \in Nat /\ tally.reported \in Nat
      /\ posting.batch \in Seq(LogEntry)
  BY DEF LogInv, LogTypes
<1>1. /\ logQueue' \in Seq(LogEntry) /\ Len(logQueue') <= MaxQueue /\ dropped' \in Nat
      /\ Range(logQueue') \subseteq Range(entries) /\ Ascending(logQueue')
  BY <1>0, QueuedIs
<1>2. PICK lost \in SUBSET Nat, n \in Nat :
        /\ IsFiniteSet(lost) /\ Cardinality(lost) <= n /\ dropped' = dropped + n
        /\ NumbersIn(entries) \subseteq NumbersIn(logQueue') \cup lost
  BY <1>0, QueuedIs
<1>3. Range(<<>>) = {} /\ Ascending(<<>>)
  BY DEF Range, Ascending
<1>4. Range(posting'.batch) \subseteq PendingEntries /\ Ascending(posting'.batch)
  BY <1>0, <1>3 DEF PendingEntries, LogOrdered
<1>5. Older(Range(posting'.batch), Range(logQueue'))
  BY <1>1 DEF Older
<1>6. \A e \in PendingEntries' :
        e \in PendingEntries \/ (e.seq = counters.seq /\ counters'.seq = counters.seq + 1)
  BY <1>1, <1>4 DEF PendingEntries
<1>7. LogOrdered'
  BY <1>1, <1>4, <1>5, <1>6, StillInTurn DEF LogOrdered, Ascending
<1>8. Missing' \subseteq Missing \cup lost
  BY <1>2 DEF Missing
<1>9. DropsAccounted'
  <2> SUFFICES ASSUME ~pipe.off
               PROVE  Cardinality(Missing') <= dropped' + tally.reported
    BY DropsAre
  <2>1. IsFiniteSet(Missing) /\ Cardinality(Missing) <= dropped + tally.reported
    BY <1>0, DropsAre, MissingIsFinite
  <2>2. dropped + tally.reported \in Nat
    BY <1>0
  <2>3. Cardinality(Missing') <= dropped + tally.reported + n
    BY <1>2, <1>8, <2>1, <2>2, MissingGrows
  <2> QED
    BY <1>0, <1>2, <2>3
<1> QED
  BY <1>1, <1>7, <1>9

(* One entry more, of the next number, behind those that wait. *)
LEMMA OneMoreEntry ==
  ASSUME LogInv, NEW e \in LogEntry, e.seq = counters.seq
  PROVE  LET entries == Append(logQueue, e)
         IN  /\ entries \in Seq(LogEntry) /\ Ascending(entries)
             /\ Older(Range(posting.batch), Range(entries))
             /\ Range(entries) = Range(logQueue) \cup {e}
             /\ NumbersIn(entries) = NumbersIn(logQueue) \cup {counters.seq}
<1>0. /\ logQueue \in Seq(LogEntry) /\ posting.batch \in Seq(LogEntry) /\ LogOrdered
  BY DEF LogInv, LogTypes
<1> DEFINE one == <<e>>
           longer == Append(logQueue, e)
<1>1. /\ one \in Seq(LogEntry) /\ Range(one) = {e} /\ Ascending(one) /\ longer = logQueue \o one
  <2>1. one \in Seq(LogEntry) /\ Range(one) = {e} /\ Ascending(one)
    BY DEF Range, Ascending
  <2> QED
    BY <1>0, <2>1, AppendIsConcat
<1> HIDE DEF one, longer
<1>2. Older(Range(logQueue), Range(one)) /\ Older(Range(posting.batch), {e})
  BY <1>0, <1>1 DEF Older, LogOrdered, PendingEntries
<1>3. longer \in Seq(LogEntry) /\ Range(longer) = Range(logQueue) \cup {e}
  BY <1>0, <1>1, JoinKeepsOrder
<1>4. Ascending(longer)
  BY <1>0, <1>1, <1>2, JoinKeepsOrder DEF LogOrdered
<1>5. Older(Range(posting.batch), Range(longer))
  BY <1>0, <1>2, <1>3 DEF Older, LogOrdered
<1>6. NumbersIn(longer) = NumbersIn(logQueue) \cup {counters.seq}
  <2>1. NumbersIn(longer) = {x.seq : x \in Range(longer)} /\ NumbersIn(logQueue) = {x.seq : x \in Range(logQueue)}
    BY <1>0, <1>3, NumbersAre
  <2> QED
    BY <1>3, <2>1
<1> QED
  BY <1>3, <1>4, <1>5, <1>6 DEF longer

LEMMA LogEventKeeps ==
  ASSUME LogInv, NEW kind \in EventKinds, LogEvent(kind)
  PROVE  LogInv'
<1> DEFINE e == [seq |-> counters.seq, kind |-> kind, count |-> 0]
<1>0. /\ LogTypes /\ LogOrdered /\ DropsAccounted /\ TakenIsLogged /\ counters.seq \in Nat
      /\ counters \in [seq: Nat, made: Nat, retries: Nat] /\ counters.made <= counters.seq
  BY DEF LogInv, LogTypes
<1>1. /\ counters' = [counters EXCEPT !.seq = @ + 1, !.made = @ + 1]
      /\ UNCHANGED <<posting, pipe, serverLog, tally>>
  BY DEF LogEvent
<1>2. counters' \in [seq: Nat, made: Nat, retries: Nat] /\ counters'.made <= counters'.seq
      /\ counters'.seq = counters.seq + 1 /\ counters'.seq \in Nat /\ counters.seq <= counters'.seq
  <2>1. counters.made \in Nat /\ counters'.seq = counters.seq + 1 /\ counters'.made = counters.made + 1
    BY <1>0, <1>1
  <2>2. counters.seq + 1 \in Nat /\ counters.made + 1 \in Nat
    BY <1>0, <2>1
  <2>3. counters' \in [seq: Nat, made: Nat, retries: Nat]
    BY <1>0, <1>1, <2>2
  <2> QED
    BY <1>0, <2>1, <2>2, <2>3
<1>3. TakenIsLogged'
  BY <1>0, <1>1 DEF TakenIsLogged, NumbersIn
<1>4. CASE pipe.off
  <2>1. UNCHANGED <<logQueue, dropped>>
    BY <1>4 DEF LogEvent
  <2>2. LogTypes'
    BY <1>0, <1>1, <1>2, <2>1 DEF LogTypes
  <2>3. PendingEntries' = PendingEntries
    BY <1>1, <2>1 DEF PendingEntries
  <2>4. LogOrdered'
    BY <1>0, <1>1, <1>2, <2>1, <2>3, StillInTurn DEF LogOrdered, Ascending, Older
  <2>5. DropsAccounted'
    BY <1>1, <1>4, DropsAre
  <2> QED
    BY <1>3, <2>2, <2>4, <2>5 DEF LogInv
<1>5. CASE ~pipe.off
  <2>1. e \in LogEntry /\ e.seq = counters.seq
    BY <1>0 DEF LogEntry
  <2>2. LogQueued(Append(logQueue, e))
    BY <1>5 DEF LogEvent
  <2> HIDE DEF e
  <2> DEFINE entries == Append(logQueue, e)
  <2>3. /\ entries \in Seq(LogEntry) /\ Ascending(entries) /\ LogQueued(entries)
        /\ Older(Range(posting.batch), Range(entries)) /\ Range(entries) = Range(logQueue) \cup {e}
        /\ NumbersIn(entries) = NumbersIn(logQueue) \cup {counters.seq}
    BY <2>1, <2>2, OneMoreEntry
  <2> HIDE DEF entries
  <2>4. \A x \in Range(entries) : x \in PendingEntries \/ (x.seq = counters.seq /\ counters'.seq = counters.seq + 1)
    BY <1>2, <2>1, <2>3 DEF PendingEntries
  <2>5. (0 .. counters'.seq - 1) \ (NumbersIn(entries) \cup NumbersIn(posting'.batch) \cup NumbersIn(serverLog)
                                      \cup tally'.refused) \subseteq Missing
    <3>1. \A n \in 0 .. counters'.seq - 1 : n \in 0 .. counters.seq - 1 \/ n = counters.seq
      BY <1>0, <1>2
    <3> QED
      BY <1>1, <2>3, <3>1 DEF Missing
  <2>6. posting'.batch = posting.batch /\ tally'.reported = tally.reported /\ pipe' = pipe /\ serverLog' = serverLog
    BY <1>1
  <2>7. LogOrdered' /\ DropsAccounted' /\ logQueue' \in Seq(LogEntry) /\ Len(logQueue') <= MaxQueue /\ dropped' \in Nat
    BY <1>2, <2>3, <2>4, <2>5, <2>6, QueueKeeps
  <2>8. LogTypes'
    BY <1>0, <1>1, <1>2, <2>7 DEF LogTypes
  <2> QED
    BY <1>3, <2>7, <2>8 DEF LogInv
<1> QED
  BY <1>4, <1>5

(* What is flushed: the queue, behind a report of what was dropped. *)
LEMMA DrainedIs ==
  ASSUME LogInv
  PROVE  /\ Drained \in Seq(LogEntry) /\ Ascending(Drained) /\ Len(Drained) <= MaxQueue + 1
         /\ \A e \in Range(Drained) : e \in Range(logQueue) \/ (e.seq = counters.seq /\ dropped # 0)
         /\ NumbersIn(Drained) = NumbersIn(logQueue) \cup (IF dropped = 0 THEN {} ELSE {counters.seq})
<1> DEFINE report == [seq |-> counters.seq, kind |-> "logsDropped", count |-> dropped]
           one == <<report>>
<1>0. /\ logQueue \in Seq(LogEntry) /\ Len(logQueue) <= MaxQueue /\ Ascending(logQueue)
      /\ dropped \in Nat /\ counters.seq \in Nat /\ Len(logQueue) \in Nat /\ MaxQueue \in Nat
  BY LogBounds DEF LogInv, LogTypes, LogOrdered
<1>1. CASE dropped = 0
  BY <1>0, <1>1 DEF Drained
<1>2. CASE dropped # 0
  <2>1. report \in LogEntry /\ ~IsEvent(report) /\ report.seq = counters.seq
    BY <1>0 DEF LogEntry, IsEvent, EventKinds
  <2>2. Drained = one \o logQueue
    BY <1>2 DEF Drained
  <2> HIDE DEF report
  <2>3. one \in Seq(LogEntry) /\ Range(one) = {report} /\ Ascending(one) /\ Len(one) = 1
    BY <2>1 DEF Range, Ascending
  <2> HIDE DEF one
  <2>4. Older(Range(one), Range(logQueue))
    BY <2>1, <2>3 DEF Older
  <2>5. /\ Drained \in Seq(LogEntry) /\ Ascending(Drained) /\ Len(Drained) = 1 + Len(logQueue)
        /\ Range(Drained) = {report} \cup Range(logQueue)
    <3>1. LET joined == one \o logQueue
          IN  /\ joined \in Seq(LogEntry) /\ Ascending(joined) /\ Len(joined) = Len(one) + Len(logQueue)
              /\ Range(joined) = Range(one) \cup Range(logQueue)
      BY <1>0, <2>3, <2>4, JoinKeepsOrder
    <3> QED
      BY <2>2, <2>3, <3>1
  <2>6. NumbersIn(Drained) = {x.seq : x \in Range(Drained)} /\ NumbersIn(logQueue) = {x.seq : x \in Range(logQueue)}
    BY <1>0, <2>5, NumbersAre
  <2>7. NumbersIn(Drained) = NumbersIn(logQueue) \cup {counters.seq}
    BY <2>1, <2>5, <2>6
  <2> QED
    BY <1>0, <1>2, <2>1, <2>5, <2>7
<1> QED
  BY <1>1, <1>2

LEMMA FlushLogsKeeps == LogInv /\ FlushLogs => LogInv'
<1> SUFFICES ASSUME LogInv, FlushLogs
             PROVE  LogInv'
  OBVIOUS
<1>0. /\ LogTypes /\ LogOrdered /\ DropsAccounted /\ TakenIsLogged /\ serverLog' = serverLog
      /\ dropped \in Nat /\ counters.seq \in Nat /\ MaxQueue \in Nat \ {0} /\ MaxBatch \in Nat \ {0}
  BY LogBounds DEF LogInv, LogTypes, FlushLogs
<1>1. CASE ~pipe.off
  <2> DEFINE batch == FirstOf(Drained, MaxBatch)
             rest  == RestOf(Drained, MaxBatch)
  <2>1. /\ posting = NoPost /\ posting' = [at |-> "sent", batch |-> batch, result |-> "none"]
        /\ logQueue' = rest /\ dropped' = 0 /\ pipe' = pipe
        /\ counters' = [counters EXCEPT !.seq = IF dropped = 0 THEN counters.seq ELSE counters.seq + 1]
        /\ tally' = [tally EXCEPT !.reported = tally.reported + dropped]
    BY <1>1 DEF FlushLogs
  <2>2. /\ Drained \in Seq(LogEntry) /\ Ascending(Drained) /\ Len(Drained) <= MaxQueue + 1
        /\ \A e \in Range(Drained) : e \in Range(logQueue) \/ (e.seq = counters.seq /\ dropped # 0)
        /\ NumbersIn(Drained) = NumbersIn(logQueue) \cup (IF dropped = 0 THEN {} ELSE {counters.seq})
    BY DrainedIs
  <2>3. /\ batch \in Seq(LogEntry) /\ Len(batch) = (IF MaxBatch < Len(Drained) THEN MaxBatch ELSE Len(Drained))
        /\ rest \in Seq(LogEntry) /\ Len(rest) = (IF MaxBatch < Len(Drained) THEN Len(Drained) - MaxBatch ELSE 0)
    BY <1>0, <2>2, CutAt
  <2>4. /\ Range(Drained) = Range(batch) \cup Range(rest)
        /\ Ascending(batch) /\ Ascending(rest) /\ Older(Range(batch), Range(rest))
    BY <1>0, <2>2, CutKeepsOrder
  <2> HIDE DEF batch, rest
  <2>5. /\ posting'.batch = batch /\ posting'.at = "sent" /\ posting'.result = "none"
        /\ posting' \in [at: {"idle", "sent", "answered"}, batch: Seq(LogEntry),
                        result: {"none", "ok", "retry", "poison", "disabled"}]
    BY <2>1, <2>3
  <2>6. /\ counters' \in [seq: Nat, made: Nat, retries: Nat] /\ counters'.made <= counters'.seq
        /\ counters'.seq = (IF dropped = 0 THEN counters.seq ELSE counters.seq + 1)
    <3>1. counters \in [seq: Nat, made: Nat, retries: Nat] /\ counters.made <= counters.seq
      BY <1>0 DEF LogTypes
    <3>2. counters' \in [seq: Nat, made: Nat, retries: Nat] /\ counters'.made = counters.made
          /\ counters'.seq = (IF dropped = 0 THEN counters.seq ELSE counters.seq + 1)
      BY <1>0, <2>1, <3>1
    <3> QED
      BY <3>1, <3>2
  <2>7. /\ tally' \in [reported: Nat, refused: SUBSET Nat] /\ tally'.refused = tally.refused
        /\ tally'.reported = tally.reported + dropped /\ tally.reported \in Nat
    <3>1. tally \in [reported: Nat, refused: SUBSET Nat]
      BY <1>0 DEF LogTypes
    <3> QED
      BY <1>0, <2>1, <3>1
  <2>8. Len(batch) <= MaxBatch /\ Len(rest) <= MaxQueue
    <3>1. Len(Drained) \in Nat
      BY <2>2
    <3> QED
      BY <1>0, <2>2, <2>3, <3>1
  <2>9. LogTypes'
    BY <1>0, <2>1, <2>3, <2>5, <2>6, <2>7, <2>8 DEF LogTypes
  <2>10. PendingEntries' = Range(Drained)
    BY <2>1, <2>4, <2>5 DEF PendingEntries
  <2>11. \A e \in PendingEntries' :
           e \in PendingEntries \/ (e.seq = counters.seq /\ counters'.seq = counters.seq + 1)
    BY <2>2, <2>6, <2>10 DEF PendingEntries
  <2>12. counters'.seq \in Nat /\ counters.seq <= counters'.seq
    BY <1>0, <2>6
  <2>13. PendingInTurn' /\ LoggedInOrder' /\ \A e \in PendingEntries' \cup Range(serverLog') : e.seq < counters'.seq
    BY <1>0, <2>11, <2>12, StillInTurn
  <2>14. LogOrdered'
    BY <2>1, <2>4, <2>5, <2>13 DEF LogOrdered, Ascending
  <2>15. TakenIsLogged'
    BY <2>5 DEF TakenIsLogged
  <2>16. Missing' \subseteq Missing
    <3>1. NumbersIn(Drained) \subseteq NumbersIn(batch) \cup NumbersIn(rest)
      <4>1. /\ NumbersIn(Drained) = {e.seq : e \in Range(Drained)} /\ NumbersIn(rest) = {e.seq : e \in Range(rest)}
            /\ NumbersIn(batch) = {e.seq : e \in Range(batch)}
        BY <2>2, <2>3, NumbersAre
      <4> QED
        BY <2>4, <4>1
    <3>2. NumbersIn(posting.batch) = {}
      BY <2>1 DEF NoPost, NumbersIn
    <3>3. \A n \in 0 .. counters'.seq - 1 : n \in 0 .. counters.seq - 1 \/ (n = counters.seq /\ dropped # 0)
      BY <1>0, <2>6
    <3> QED
      BY <1>0, <2>1, <2>2, <2>5, <2>7, <3>1, <3>2, <3>3 DEF Missing
  <2>17. DropsAccounted'
    <3> SUFFICES Cardinality(Missing') <= dropped' + tally'.reported
      BY DropsAre
    <3>1. IsFiniteSet(Missing) /\ Cardinality(Missing) \in Nat /\ Cardinality(Missing) <= dropped + tally.reported
      BY <1>0, <1>1, DropsAre, MissingIsFinite
    <3>2. IsFiniteSet(Missing') /\ Cardinality(Missing') <= Cardinality(Missing)
      BY <2>16, <3>1, FS_Subset
    <3>3. Cardinality(Missing') \in Nat
      BY <3>2, FS_CardinalityType
    <3> QED
      BY <1>0, <2>1, <2>7, <3>1, <3>2, <3>3
  <2> QED
    BY <2>9, <2>14, <2>15, <2>17 DEF LogInv
<1>2. CASE pipe.off
  <2>1. /\ pipe' = [pipe EXCEPT !.timer = FALSE] /\ UNCHANGED <<posting, logQueue, dropped, counters, tally>>
    BY <1>2 DEF FlushLogs
  <2>2. pipe' \in [off: BOOLEAN, timer: BOOLEAN] /\ pipe'.off
    BY <1>0, <1>2, <2>1 DEF LogTypes
  <2>3. LogTypes'
    BY <1>0, <2>1, <2>2 DEF LogTypes
  <2>6. TakenIsLogged'
    BY <1>0, <2>1 DEF TakenIsLogged, NumbersIn
  <2>4. LogOrdered'
    BY <1>0, <2>1 DEF LogOrdered, Ascending, Older, PendingEntries, PendingInTurn, WrittenBefore, LoggedInOrder
  <2>5. DropsAccounted'
    BY <2>2, DropsAre
  <2> QED
    BY <2>3, <2>4, <2>5, <2>6 DEF LogInv
<1> QED
  BY <1>0, <1>1, <1>2

(* The server writes the batch as it is: its events are newer than what    *)
(* was written, or were written before, and older than what waits.         *)
LEMMA ServeLogsKeeps == LogInv /\ ServeLogs => LogInv'
<1> SUFFICES ASSUME LogInv, ServeLogs
             PROVE  LogInv'
  OBVIOUS
<1>0. /\ LogTypes /\ LogOrdered /\ DropsAccounted /\ posting.batch \in Seq(LogEntry) /\ serverLog \in Seq(LogEntry)
      /\ logQueue \in Seq(LogEntry)
      /\ UNCHANGED <<logQueue, dropped, pipe, counters, tally>>
  BY DEF LogInv, LogTypes, ServeLogs
<1> DEFINE longer == serverLog \o posting.batch
<1>1. PICK result \in {"poison", "ok", "disabled"} :
        /\ posting' = [posting EXCEPT !.at = "answered", !.result = result]
        /\ \/ serverLog' = serverLog /\ result = "poison"
           \/ serverLog' = longer
  BY DEF ServeLogs
<1>2. /\ longer \in Seq(LogEntry) /\ Len(longer) = Len(serverLog) + Len(posting.batch)
      /\ Range(longer) = Range(serverLog) \cup Range(posting.batch)
      /\ \A i \in 1 .. Len(serverLog) : longer[i] = serverLog[i]
      /\ \A i \in 1 .. Len(posting.batch) : longer[Len(serverLog) + i] = posting.batch[i]
  BY <1>0, JoinKeepsOrder
<1> HIDE DEF longer
<1>3. /\ posting'.batch = posting.batch /\ posting'.at = "answered" /\ posting'.result = result
      /\ posting' \in [at: {"idle", "sent", "answered"}, batch: Seq(LogEntry),
                      result: {"none", "ok", "retry", "poison", "disabled"}]
  <2>1. posting \in [at: {"idle", "sent", "answered"}, batch: Seq(LogEntry),
                    result: {"none", "ok", "retry", "poison", "disabled"}]
    BY <1>0 DEF LogTypes
  <2> QED
    BY <1>1, <2>1
<1>4. LogTypes'
  BY <1>0, <1>1, <1>2, <1>3 DEF LogTypes
<1>5. PendingEntries' = PendingEntries
  BY <1>0, <1>3 DEF PendingEntries
<1>6. CASE serverLog' = serverLog /\ result = "poison"
  <2>1. LogOrdered'
    BY <1>0, <1>3, <1>5, <1>6 DEF LogOrdered, Ascending, Older, PendingInTurn, WrittenBefore, LoggedInOrder
  <2>2. TakenIsLogged'
    BY <1>3, <1>6 DEF TakenIsLogged
  <2>3. Missing' = Missing
    BY <1>0, <1>3, <1>6 DEF Missing
  <2> QED
    BY <1>0, <1>4, <2>1, <2>2, <2>3, DropsAre DEF LogInv
<1>7. CASE serverLog' = longer
  <2>1. Len(serverLog) \in Nat /\ Len(posting.batch) \in Nat
    BY <1>0
  <2>2. ASSUME NEW k \in 1 .. Len(longer)
        PROVE  \/ k \in 1 .. Len(serverLog) /\ longer[k] = serverLog[k]
               \/ \E m \in 1 .. Len(posting.batch) : k = Len(serverLog) + m /\ longer[k] = posting.batch[m]
    <3>1. CASE k <= Len(serverLog)
      BY <1>2, <2>1, <3>1
    <3>2. CASE k > Len(serverLog)
      <4>1. k - Len(serverLog) \in 1 .. Len(posting.batch) /\ Len(serverLog) + (k - Len(serverLog)) = k
        BY <1>2, <2>1, <3>2
      <4> QED
        BY <1>2, <4>1
    <3> QED
      BY <1>2, <2>1, <3>1, <3>2
  <2>3. /\ \A m \in 1 .. Len(posting.batch) : posting.batch[m] \in Range(posting.batch)
        /\ \A e \in Range(posting.batch) : \E m \in 1 .. Len(posting.batch) : e = posting.batch[m]
        /\ \A e \in PendingEntries \cup Range(serverLog) : e \in LogEntry
        /\ \A k \in 1 .. Len(longer) : longer[k] \in LogEntry
    <3>1. Range(posting.batch) = {posting.batch[m] : m \in 1 .. Len(posting.batch)}
      BY <1>0, Members
    <3>2. Range(posting.batch) \subseteq LogEntry /\ Range(logQueue) \subseteq LogEntry
          /\ Range(serverLog) \subseteq LogEntry
      BY <1>0, Members
    <3>3. \A k \in 1 .. Len(longer) : longer[k] \in LogEntry
      BY <1>2
    <3> QED
      BY <3>1, <3>2, <3>3 DEF PendingEntries
  <2>4. ASSUME NEW e \in PendingEntries, NEW k \in 1 .. Len(longer), IsEvent(e), IsEvent(longer[k]),
               e.seq < longer[k].seq
        PROVE  \E m \in 1 .. k - 1 : longer[m] = e
    <3>0. e.seq \in Nat /\ longer[k].seq \in Nat
      BY <2>3 DEF LogEntry
    <3>1. CASE k \in 1 .. Len(serverLog) /\ longer[k] = serverLog[k]
      <4>1. PICK m \in 1 .. k - 1 : serverLog[m] = e
        BY <1>0, <2>4, <3>1 DEF LogOrdered, PendingInTurn, WrittenBefore
      <4> QED
        BY <1>2, <2>1, <3>1, <4>1
    <3>2. ASSUME NEW m \in 1 .. Len(posting.batch), k = Len(serverLog) + m, longer[k] = posting.batch[m]
          PROVE  \E n \in 1 .. k - 1 : longer[n] = e
      <4>1. e \in Range(posting.batch)
        <5> SUFFICES ASSUME e \in Range(logQueue)
                     PROVE  FALSE
          BY DEF PendingEntries
        <5>1. longer[k].seq < e.seq
          BY <1>0, <2>3, <2>4, <3>2 DEF LogOrdered, Older
        <5> QED
          BY <2>4, <3>0, <5>1
      <4>2. PICK n \in 1 .. Len(posting.batch) : e = posting.batch[n]
        BY <2>3, <4>1
      <4>3. n < m
        <5>1. IsEvent(posting.batch[m]) /\ IsEvent(posting.batch[n]) /\ posting.batch[n].seq < posting.batch[m].seq
          BY <2>4, <3>2, <4>2
        <5>2. ASSUME m < n
              PROVE  FALSE
          <6>1. posting.batch[m].seq < posting.batch[n].seq
            BY <1>0, <5>1, <5>2 DEF LogOrdered, Ascending
          <6> QED
            BY <3>0, <3>2, <4>2, <5>1, <6>1
        <5>3. m # n
          BY <3>0, <3>2, <5>1
        <5> QED
          BY <2>1, <5>2, <5>3
      <4>4. Len(serverLog) + n \in 1 .. k - 1 /\ longer[Len(serverLog) + n] = e
        BY <1>2, <2>1, <3>2, <4>2, <4>3
      <4> QED
        BY <4>4
    <3> QED
      BY <2>2, <3>1, <3>2
  <2>5. PendingInTurn'
    BY <1>5, <1>7, <2>4 DEF PendingInTurn, WrittenBefore
  <2>6. LoggedInOrder'
    <3> SUFFICES ASSUME NEW i \in 1 .. Len(longer), NEW j \in 1 .. Len(longer), i < j,
                        IsEvent(longer[i]), IsEvent(longer[j]), longer[j].seq < longer[i].seq
                 PROVE  \E k \in 1 .. i - 1 : longer[k] = longer[j]
      BY <1>7 DEF LoggedInOrder, IsEvent
    <3>1. CASE j \in 1 .. Len(serverLog) /\ longer[j] = serverLog[j]
      <4>1. i \in 1 .. Len(serverLog) /\ longer[i] = serverLog[i]
        BY <1>2, <2>1, <3>1
      <4>2. \E k \in 1 .. i - 1 : serverLog[k] = serverLog[j]
        BY <1>0, <3>1, <4>1 DEF LogOrdered, LoggedInOrder, IsEvent
      <4> QED
        BY <1>2, <2>1, <3>1, <4>1, <4>2
    <3>2. CASE \E m \in 1 .. Len(posting.batch) : j = Len(serverLog) + m /\ longer[j] = posting.batch[m]
      <4>1. longer[j] \in PendingEntries
        BY <2>3, <3>2 DEF PendingEntries
      <4> QED
        BY <2>4, <4>1
    <3> QED
      BY <2>2, <3>1, <3>2
  <2>7. \A e \in PendingEntries' \cup Range(serverLog') : e.seq < counters'.seq
    BY <1>0, <1>2, <1>5, <1>7 DEF LogOrdered, PendingEntries
  <2>8. LogOrdered'
    BY <1>0, <1>3, <2>5, <2>6, <2>7 DEF LogOrdered, Ascending
  <2>9. NumbersIn(longer) = NumbersIn(serverLog) \cup NumbersIn(posting.batch)
    <3>1. /\ NumbersIn(longer) = {e.seq : e \in Range(longer)}
          /\ NumbersIn(serverLog) = {e.seq : e \in Range(serverLog)}
          /\ NumbersIn(posting.batch) = {e.seq : e \in Range(posting.batch)}
      BY <1>0, <1>2, NumbersAre
    <3> QED
      BY <1>2, <3>1
  <2>10. TakenIsLogged'
    BY <1>3, <1>7, <2>9 DEF TakenIsLogged
  <2>11. Missing' = Missing
    BY <1>0, <1>3, <1>7, <2>9 DEF Missing
  <2> QED
    BY <1>0, <1>4, <2>8, <2>10, <2>11, DropsAre DEF LogInv
<1> QED
  BY <1>1, <1>6, <1>7

LEMMA PostFailsKeeps == LogInv /\ PostFails => LogInv'
<1> SUFFICES ASSUME LogInv, PostFails
             PROVE  LogInv'
  OBVIOUS
<1>0. LogTypes /\ LogOrdered /\ DropsAccounted /\ UNCHANGED <<logQueue, dropped, pipe, serverLog, tally>>
  BY DEF LogInv, PostFails
<1>1. /\ posting'.batch = posting.batch /\ posting'.at = "answered" /\ posting'.result = "retry"
      /\ posting' \in [at: {"idle", "sent", "answered"}, batch: Seq(LogEntry),
                      result: {"none", "ok", "retry", "poison", "disabled"}]
  <2>1. posting \in [at: {"idle", "sent", "answered"}, batch: Seq(LogEntry),
                    result: {"none", "ok", "retry", "poison", "disabled"}]
    BY <1>0 DEF LogTypes
  <2> QED
    BY <2>1 DEF PostFails
<1>2. /\ counters' \in [seq: Nat, made: Nat, retries: Nat]
      /\ counters'.seq = counters.seq /\ counters'.made = counters.made
  <2>1. counters \in [seq: Nat, made: Nat, retries: Nat] /\ counters.retries + 1 \in Nat
    BY <1>0 DEF LogTypes
  <2> QED
    BY <2>1 DEF PostFails
<1>3. LogTypes'
  BY <1>0, <1>1, <1>2 DEF LogTypes
<1>4. LogOrdered'
  BY <1>0, <1>1, <1>2 DEF LogOrdered, Ascending, Older, PendingEntries, PendingInTurn, WrittenBefore, LoggedInOrder
<1>5. TakenIsLogged'
  BY <1>1 DEF TakenIsLogged
<1>6. Missing' = Missing
  BY <1>0, <1>1, <1>2 DEF Missing
<1> QED
  BY <1>0, <1>3, <1>4, <1>5, <1>6, DropsAre DEF LogInv

LEMMA SettleLogsKeeps == LogInv /\ SettleLogs => LogInv'
<1> SUFFICES ASSUME LogInv, SettleLogs
             PROVE  LogInv'
  OBVIOUS
<1>0. /\ LogTypes /\ LogOrdered /\ DropsAccounted /\ TakenIsLogged /\ serverLog' = serverLog /\ posting' = NoPost
      /\ posting.batch \in Seq(LogEntry) /\ logQueue \in Seq(LogEntry) /\ counters.seq \in Nat /\ posting.at = "answered"
  BY DEF LogInv, LogTypes, SettleLogs
<1>1. /\ posting'.batch = <<>> /\ posting'.at = "idle" /\ posting'.result = "none" /\ Len(posting'.batch) <= MaxBatch
      /\ posting' \in [at: {"idle", "sent", "answered"}, batch: Seq(LogEntry),
                      result: {"none", "ok", "retry", "poison", "disabled"}]
  BY <1>0, LogBounds DEF NoPost
<1>2. /\ Range(posting'.batch) = {} /\ Ascending(posting'.batch) /\ NumbersIn(posting'.batch) = {}
      /\ TakenIsLogged'
  BY <1>1 DEF Range, Ascending, NumbersIn, TakenIsLogged
<1>3. PendingEntries' = Range(logQueue')
  BY <1>2 DEF PendingEntries
<1>4. CASE posting.result = "ok"
  <2>1. UNCHANGED <<logQueue, dropped, pipe, counters, tally>>
    BY <1>4 DEF SettleLogs
  <2>2. LogTypes'
    BY <1>0, <1>1, <2>1 DEF LogTypes
  <2>3. LogOrdered'
    <3>1. \A e \in PendingEntries' : e \in PendingEntries
      BY <1>3, <2>1 DEF PendingEntries
    <3>2. PendingInTurn' /\ LoggedInOrder' /\ \A e \in PendingEntries' \cup Range(serverLog') : e.seq < counters'.seq
      BY <1>0, <2>1, <3>1, StillInTurn
    <3> QED
      BY <1>0, <1>2, <2>1, <3>2 DEF LogOrdered, Ascending, Older
  <2>4. Missing' = Missing
    BY <1>0, <1>2, <1>4, <2>1 DEF Missing, TakenIsLogged
  <2> QED
    BY <1>0, <1>2, <2>1, <2>2, <2>3, <2>4, DropsAre DEF LogInv
<1>5. CASE posting.result = "retry"
  <2> DEFINE entries == posting.batch \o logQueue
  <2>1. LogQueued(entries) /\ UNCHANGED <<pipe, counters, tally>>
    BY <1>5 DEF SettleLogs, Retried
  <2>2. /\ entries \in Seq(LogEntry) /\ Range(entries) = PendingEntries /\ Ascending(entries)
    BY <1>0, JoinKeepsOrder DEF LogOrdered, PendingEntries
  <2> HIDE DEF entries
  <2>3. NumbersIn(entries) = NumbersIn(posting.batch) \cup NumbersIn(logQueue)
    <3>1. /\ NumbersIn(entries) = {e.seq : e \in Range(entries)} /\ NumbersIn(logQueue) = {e.seq : e \in Range(logQueue)}
          /\ NumbersIn(posting.batch) = {e.seq : e \in Range(posting.batch)}
      BY <1>0, <2>2, NumbersAre
    <3> QED
      BY <2>2, <3>1 DEF PendingEntries
  <2>4. (0 .. counters'.seq - 1) \ (NumbersIn(entries) \cup NumbersIn(posting'.batch) \cup NumbersIn(serverLog)
                                      \cup tally'.refused) \subseteq Missing
    BY <2>1, <2>3 DEF Missing
  <2>5. Older(Range(posting'.batch), Range(entries))
    BY <1>2 DEF Older
  <2>6. counters'.seq \in Nat /\ counters.seq <= counters'.seq /\ tally'.reported = tally.reported /\ pipe' = pipe
    BY <1>0, <2>1
  <2>7. LogOrdered' /\ DropsAccounted' /\ logQueue' \in Seq(LogEntry) /\ Len(logQueue') <= MaxQueue /\ dropped' \in Nat
    BY <1>0, <1>1, <2>1, <2>2, <2>4, <2>5, <2>6, QueueKeeps
  <2>8. LogTypes'
    BY <1>0, <1>1, <2>1, <2>7 DEF LogTypes
  <2> QED
    BY <1>2, <2>7, <2>8 DEF LogInv
<1>6. CASE posting.result = "poison"
  <2> DEFINE e == [seq |-> counters.seq, kind |-> "logTransportError", count |-> 0]
             entries == Append(logQueue, e)
  <2>1. /\ LogQueued(entries) /\ counters' = [counters EXCEPT !.seq = @ + 1] /\ pipe' = pipe
        /\ tally' = [tally EXCEPT !.refused = @ \cup NumbersIn(posting.batch)]
    BY <1>6 DEF SettleLogs
  <2>2. e \in LogEntry /\ e.seq = counters.seq
    BY <1>0 DEF LogEntry
  <2> HIDE DEF e
  <2>3. /\ entries \in Seq(LogEntry) /\ Ascending(entries) /\ Range(entries) = Range(logQueue) \cup {e}
        /\ NumbersIn(entries) = NumbersIn(logQueue) \cup {counters.seq}
    BY <2>2, OneMoreEntry
  <2> HIDE DEF entries
  <2>4. /\ counters' \in [seq: Nat, made: Nat, retries: Nat] /\ counters'.made <= counters'.seq
        /\ counters'.seq = counters.seq + 1 /\ counters'.seq \in Nat /\ counters.seq <= counters'.seq
    <3>1. counters \in [seq: Nat, made: Nat, retries: Nat] /\ counters.made <= counters.seq /\ counters.seq + 1 \in Nat
      BY <1>0 DEF LogTypes
    <3>2. /\ counters' \in [seq: Nat, made: Nat, retries: Nat] /\ counters'.seq = counters.seq + 1
          /\ counters'.made = counters.made /\ counters.made \in Nat
      BY <2>1, <3>1
    <3> QED
      BY <1>0, <3>1, <3>2
  <2>5. /\ tally' \in [reported: Nat, refused: SUBSET Nat] /\ tally'.reported = tally.reported
        /\ tally'.refused = tally.refused \cup NumbersIn(posting.batch)
    <3>1. tally \in [reported: Nat, refused: SUBSET Nat]
      BY <1>0 DEF LogTypes
    <3>2. NumbersIn(posting.batch) \subseteq Nat
      BY <1>0, NumbersAre
    <3> QED
      BY <2>1, <3>1, <3>2
  <2>6. \A x \in Range(entries) : x \in PendingEntries \/ (x.seq = counters.seq /\ counters'.seq = counters.seq + 1)
    BY <2>2, <2>3, <2>4 DEF PendingEntries
  <2>7. (0 .. counters'.seq - 1) \ (NumbersIn(entries) \cup NumbersIn(posting'.batch) \cup NumbersIn(serverLog)
                                      \cup tally'.refused) \subseteq Missing
    <3>1. \A n \in 0 .. counters'.seq - 1 : n \in 0 .. counters.seq - 1 \/ n = counters.seq
      BY <1>0, <2>4
    <3> QED
      BY <2>3, <2>5, <3>1 DEF Missing
  <2>8. Older(Range(posting'.batch), Range(entries))
    BY <1>2 DEF Older
  <2>9. LogOrdered' /\ DropsAccounted' /\ logQueue' \in Seq(LogEntry) /\ Len(logQueue') <= MaxQueue /\ dropped' \in Nat
    BY <1>0, <1>1, <2>1, <2>3, <2>4, <2>5, <2>6, <2>7, <2>8, QueueKeeps
  <2>10. LogTypes'
    BY <1>0, <1>1, <2>1, <2>4, <2>5, <2>9 DEF LogTypes
  <2> QED
    BY <1>2, <2>9, <2>10 DEF LogInv
<1>7. CASE posting.result = "disabled"
  <2>1. pipe' = [pipe EXCEPT !.off = TRUE] /\ logQueue' = <<>> /\ UNCHANGED <<dropped, counters, tally>>
    BY <1>7 DEF SettleLogs
  <2>2. pipe' \in [off: BOOLEAN, timer: BOOLEAN] /\ pipe'.off
    BY <1>0, <2>1 DEF LogTypes
  <2>3. logQueue' \in Seq(LogEntry) /\ Len(logQueue') <= MaxQueue /\ Range(logQueue') = {} /\ Ascending(logQueue')
    BY <2>1, LogBounds DEF Range, Ascending
  <2>4. LogTypes'
    BY <1>0, <1>1, <2>1, <2>2, <2>3 DEF LogTypes
  <2>5. PendingInTurn' /\ LoggedInOrder' /\ \A e \in PendingEntries' \cup Range(serverLog') : e.seq < counters'.seq
    BY <1>0, <1>3, <2>1, <2>3, StillInTurn
  <2>6. LogOrdered'
    BY <1>2, <2>3, <2>5 DEF LogOrdered, Older
  <2>7. DropsAccounted'
    BY <2>2, DropsAre
  <2> QED
    BY <1>2, <2>4, <2>6, <2>7 DEF LogInv
<1>8. CASE posting.result \notin {"ok", "retry", "poison", "disabled"}
  BY <1>0, <1>8 DEF LogTypes
<1> QED
  BY <1>4, <1>5, <1>6, <1>7, <1>8

LEMMA LogStarts == ClientLogInit => LogInv
<1> SUFFICES ASSUME ClientLogInit
             PROVE  LogInv
  OBVIOUS
<1>1. /\ logQueue = <<>> /\ serverLog = <<>> /\ dropped = 0 /\ counters.seq = 0 /\ tally.reported = 0
      /\ posting.at = "idle" /\ posting.batch = <<>> /\ posting.result = "none"
  BY DEF ClientLogInit, NoPost
<1>2. LogTypes
  BY <1>1, LogBounds DEF ClientLogInit, LogTypes, NoPost
<1>3. LogOrdered /\ TakenIsLogged
  BY <1>1 DEF LogOrdered, TakenIsLogged, Ascending, Older, PendingEntries, PendingInTurn, LoggedInOrder, Range
<1>4. Missing = {}
  BY <1>1 DEF Missing
<1>5. Cardinality({}) = 0
  BY FS_EmptySet
<1>6. DropsAccounted
  BY <1>1, <1>4, <1>5, DropsAre
<1> QED
  BY <1>2, <1>3, <1>6 DEF LogInv

(* The invariant: entries wait in the order in which they happened, behind *)
(* the batch under way; and what was already written of them, by a post    *)
(* whose answer was lost, was written in turn (createBatcher, transport).  *)
THEOREM LogInvariant == ClientLogSpec => []LogInv
<1>1. LogInv /\ [ClientLogNext]_logVars => LogInv'
  <2> SUFFICES ASSUME LogInv, [ClientLogNext]_logVars
               PROVE  LogInv'
    OBVIOUS
  <2>1. CASE UNCHANGED logVars
    <3>1. LogTypes'
      BY <2>1 DEF LogInv, logVars, LogTypes
    <3>4. TakenIsLogged'
      BY <2>1 DEF LogInv, logVars, TakenIsLogged, NumbersIn
    <3>2. LogOrdered'
      BY <2>1 DEF LogInv, logVars, LogOrdered, Ascending, Older, PendingEntries, PendingInTurn, WrittenBefore,
                  LoggedInOrder
    <3>3. Missing' = Missing
      BY <2>1 DEF logVars, Missing
    <3> QED
      BY <2>1, <3>1, <3>2, <3>3, <3>4, DropsAre DEF LogInv, logVars
  <2> QED
    BY <2>1, LogEventKeeps, FlushLogsKeeps, ServeLogsKeeps, PostFailsKeeps, SettleLogsKeeps DEF ClientLogNext
<1> QED
  BY <1>1, LogStarts, PTL DEF ClientLogSpec

(* The queue and the batch keep their bounds, also when a loss report is   *)
(* put ahead of a full queue (drainDroppedReport, trim).                   *)
THEOREM LogBounded == ClientLogSpec => []ClientLogTypeOK
<1>1. LogInv => ClientLogTypeOK
  BY DEF LogInv, LogTypes, ClientLogTypeOK
<1> QED
  BY <1>1, LogInvariant, PTL

(* What the server has written is in the order in which it happened, but   *)
(* for what it writes again (flush: one post at a time, retried at the     *)
(* front).                                                                 *)
THEOREM LogInOrder == ClientLogSpec => []LoggedInOrder
<1>1. LogInv => LoggedInOrder
  BY DEF LogInv, LogOrdered
<1> QED
  BY <1>1, LogInvariant, PTL

(* Nothing is lost that is not counted (createBatcher: "explicit loss      *)
(* reporting").                                                            *)
THEOREM NoSilentLoss == ClientLogSpec => []DropsAccounted
<1>1. LogInv => DropsAccounted
  BY DEF LogInv
<1> QED
  BY <1>1, LogInvariant, PTL

-----------------------------------------------------------------------------
(***************************************************************************)
(* ConnectionEditor.  The connections, forms and saves have types; a test  *)
(* is a record of which the stages matter.                                 *)
(***************************************************************************)
FormModes    == {"closed", "add", "edit"}
SaveStages   == {"idle", "patch", "patched", "secret", "written", "done"}
SecretChange == {"keep", "clear", "old"} \cup ApiKeys
SecretPart   == [key: SecretChange, header: SecretChange]
LinkOrNone   == StoredLink \cup {NoValue}
ShownOrNone  == ShownLink \cup {NoValue}

LEMMA NoneIsNone ==
  /\ NoValue \notin StoredLink /\ NoValue \notin ShownLink
  /\ NoValue \notin {"", "old", "keep", "clear"}
  /\ \A x \in Urls \cup ApiKeys : x \notin {NoValue, "", "old", "keep", "clear"}
BY ConnectionEditorAssumption

(* A connection with other secrets. *)
IsLink(link) == link = [type |-> link.type, url |-> link.url, on |-> link.on, effort |-> link.effort,
                        think |-> link.think, key |-> link.key, header |-> link.header]

LEMMA LinksAre == \A link \in StoredLink \cup ShownLink : IsLink(link)
BY DEF IsLink, StoredLink, ShownLink

LEMMA LinkWithSecrets ==
  ASSUME NEW link, IsLink(link), NEW key, NEW header
  PROVE  [link EXCEPT !.key = key, !.header = header]
           = [type |-> link.type, url |-> link.url, on |-> link.on, effort |-> link.effort,
              think |-> link.think, key |-> key, header |-> header]
<1> DEFINE moved == [type |-> link.type, url |-> link.url, on |-> link.on, effort |-> link.effort,
                     think |-> link.think, key |-> key, header |-> link.header]
<1>1. [link EXCEPT !.key = key] = moved
  BY DEF IsLink
<1>2. [moved EXCEPT !.header = header]
        = [type |-> link.type, url |-> link.url, on |-> link.on, effort |-> link.effort,
           think |-> link.think, key |-> key, header |-> header]
  OBVIOUS
<1> HIDE DEF moved
<1> QED
  BY <1>1, <1>2

LEMMA LinkWithDefaults ==
  ASSUME NEW link, IsLink(link), NEW url
  PROVE  [link EXCEPT !.effort = "inherit", !.think = TRUE, !.url = url]
           = [type |-> link.type, url |-> url, on |-> link.on, effort |-> "inherit",
              think |-> TRUE, key |-> link.key, header |-> link.header]
<1> DEFINE effort == "inherit"
           think  == TRUE
           plain(e, t) == [type |-> link.type, url |-> link.url, on |-> link.on, effort |-> e,
                           think |-> t, key |-> link.key, header |-> link.header]
<1> HIDE DEF effort, think
<1>1. [link EXCEPT !.effort = effort] = plain(effort, link.think)
  BY DEF IsLink
<1>2. [plain(effort, link.think) EXCEPT !.think = think] = plain(effort, think)
  OBVIOUS
<1>3. [plain(effort, think) EXCEPT !.url = url]
        = [type |-> link.type, url |-> url, on |-> link.on, effort |-> effort,
           think |-> think, key |-> link.key, header |-> link.header]
  OBVIOUS
<1> HIDE DEF plain
<1> QED
  BY <1>1, <1>2, <1>3 DEF effort, think

(* What a save and a test are assembled from. *)
LEMMA PublicAssembled ==
  ASSUME NEW draft \in EditorDraft, NEW shown \in ShownOrNone
  PROVE  LET public == AssemblePublic(draft, shown)
         IN  /\ public \in StoredLink /\ public.type = draft.type
             /\ public.url = (IF draft.url = "" THEN NoValue ELSE draft.url)
<1>1. /\ draft.type \in LinkTypes /\ draft.url \in UrlTexts /\ draft.effort \in {"inherit", "low"}
      /\ draft.think \in BOOLEAN
  BY DEF EditorDraft
<1>2. (IF draft.url = "" THEN NoValue ELSE draft.url) \in Optional(Urls)
  BY <1>1 DEF UrlTexts, Optional
<1>3. (IF shown = NoValue THEN TRUE ELSE shown.on) \in BOOLEAN
  BY DEF ShownOrNone, ShownLink
<1>4. NoValue \in Optional(ApiKeys)
  BY DEF Optional
<1> QED
  BY <1>1, <1>2, <1>3, <1>4 DEF AssemblePublic, StoredLink

LEMMA SecretAssembled ==
  ASSUME NEW draft \in EditorDraft, NEW shown
  PROVE  AssembleSecret(draft, shown) \in SecretPart
<1>1. draft.key \in Optional(ApiKeys) /\ draft.header \in Optional(ApiKeys)
  BY DEF EditorDraft
<1> QED
  BY <1>1 DEF AssembleSecret, SecretPart, SecretChange, Optional

LEMMA ChangeApplied ==
  ASSUME NEW stored \in Optional(ApiKeys), NEW change \in SecretChange
  PROVE  /\ AppliedTo(stored, change) \in Optional(ApiKeys)
         /\ change = "keep" => AppliedTo(stored, change) = stored
         /\ change \notin {"keep", "clear"} => AppliedTo(stored, change) = change
BY DEF AppliedTo, Optional, SecretChange

LEMMA SecretApplied ==
  ASSUME NEW link \in StoredLink, NEW secret \in SecretPart
  PROVE  LET applied == ApplySecret(link, secret)
         IN  /\ applied \in StoredLink /\ applied.type = link.type /\ applied.url = link.url
             /\ applied.key = AppliedTo(link.key, secret.key)
             /\ applied.header = AppliedTo(link.header, secret.header)
<1> DEFINE key    == AppliedTo(link.key, secret.key)
           header == AppliedTo(link.header, secret.header)
<1>1. key \in Optional(ApiKeys) /\ header \in Optional(ApiKeys)
  BY ChangeApplied DEF StoredLink, SecretPart
<1>2. ApplySecret(link, secret) = [[link EXCEPT !.key = key] EXCEPT !.header = header]
  BY DEF ApplySecret, StoredLink
<1> HIDE DEF key, header
<1>3. [link EXCEPT !.key = key] \in StoredLink
  BY <1>1 DEF StoredLink
<1>4. /\ [[link EXCEPT !.key = key] EXCEPT !.header = header] \in StoredLink
      /\ [[link EXCEPT !.key = key] EXCEPT !.header = header].key = key
      /\ [[link EXCEPT !.key = key] EXCEPT !.header = header].header = header
      /\ [[link EXCEPT !.key = key] EXCEPT !.header = header].type = link.type
      /\ [[link EXCEPT !.key = key] EXCEPT !.header = header].url = link.url
  BY <1>1, <1>3 DEF StoredLink
<1> QED
  BY <1>2, <1>4 DEF key, header

(* With nothing to change it is the connection it was. *)
LEMMA NothingApplied ==
  ASSUME NEW link \in StoredLink
  PROVE  ApplySecret(link, NothingSecret) = link
<1>1. NothingSecret.key = "keep" /\ NothingSecret.header = "keep"
  BY DEF NothingSecret
<1>2. ApplySecret(link, NothingSecret) = [link EXCEPT !.key = link.key, !.header = link.header]
  BY <1>1 DEF ApplySecret, AppliedTo, StoredLink
<1> QED
  BY <1>2 DEF StoredLink

LEMMA SecretsAttached ==
  ASSUME NEW public \in LinkOrNone, NEW stored \in LinkOrNone
  PROVE  LET attached == AttachSecrets(public, stored)
         IN  /\ attached \in LinkOrNone
             /\ public # NoValue =>
                  /\ attached \in StoredLink /\ attached.type = public.type /\ attached.url = public.url
                  /\ stored = NoValue => attached = public
                  /\ stored # NoValue /\ stored.type = public.type =>
                       attached.key = stored.key /\ attached.header = stored.header
<1>1. CASE public = NoValue \/ stored = NoValue
  BY <1>1 DEF AttachSecrets, LinkOrNone
<1>2. CASE public # NoValue /\ stored # NoValue /\ public.type # stored.type
  BY <1>2 DEF AttachSecrets, LinkOrNone
<1>3. CASE public # NoValue /\ stored # NoValue /\ public.type = stored.type
  <2> DEFINE key    == stored.key
             header == stored.header
             link   == [[public EXCEPT !.key = key] EXCEPT !.header = header]
  <2>1. public \in StoredLink /\ key \in Optional(ApiKeys) /\ header \in Optional(ApiKeys)
    BY <1>3 DEF LinkOrNone, StoredLink
  <2>2. AttachSecrets(public, stored) = link
    BY <1>3, <2>1 DEF AttachSecrets, StoredLink
  <2> HIDE DEF key, header
  <2>3. [public EXCEPT !.key = key] \in StoredLink
    BY <2>1 DEF StoredLink
  <2>4. link \in StoredLink /\ link.key = key /\ link.header = header /\ link.type = public.type /\ link.url = public.url
    BY <2>1, <2>3 DEF StoredLink
  <2> QED
    BY <1>3, <2>2, <2>4 DEF LinkOrNone, key, header
<1> QED
  BY <1>1, <1>2, <1>3

LEMMA RedactedIs ==
  ASSUME NEW link \in LinkOrNone
  PROVE  LET shown == Redacted(link)
         IN  /\ shown \in ShownOrNone /\ (shown = NoValue <=> link = NoValue)
             /\ link # NoValue => /\ shown.type = link.type /\ shown.url = link.url
                                  /\ shown.header = (link.header # NoValue)
<1>1. CASE link = NoValue
  BY <1>1 DEF Redacted, ShownOrNone
<1>2. CASE link # NoValue
  <2> DEFINE key    == link.key # NoValue
             header == link.header # NoValue
             shown  == [type |-> link.type, url |-> link.url, on |-> link.on, effort |-> link.effort,
                        think |-> link.think, key |-> key, header |-> header]
  <2>1. link \in StoredLink /\ key \in BOOLEAN /\ header \in BOOLEAN
    BY <1>2 DEF LinkOrNone
  <2>2. Redacted(link) = [link EXCEPT !.key = key, !.header = header]
    BY <1>2, <2>1 DEF Redacted, StoredLink
  <2> HIDE DEF key, header
  <2>3. [link EXCEPT !.key = key, !.header = header] = shown
    BY <2>1, LinksAre, LinkWithSecrets
  <2>4. shown \in ShownLink /\ shown.type = link.type /\ shown.url = link.url /\ shown.header = header
    BY <2>1 DEF ShownLink, StoredLink
  <2> QED
    BY <1>2, <2>2, <2>3, <2>4, NoneIsNone DEF ShownOrNone, header
<1> QED
  BY <1>1, <1>2

LEMMA AllRedacted ==
  ASSUME NEW links \in [LinkNames -> LinkOrNone]
  PROVE  RedactedAll(links) \in [LinkNames -> ShownOrNone]
BY RedactedIs DEF RedactedAll

LEMMA PublicAgain ==
  ASSUME NEW shown \in ShownOrNone
  PROVE  RedactedToPublic(shown) \in LinkOrNone /\ (shown # NoValue => RedactedToPublic(shown) \in StoredLink)
<1>1. CASE shown = NoValue
  BY <1>1 DEF RedactedToPublic, LinkOrNone
<1>2. CASE shown # NoValue
  <2> DEFINE url  == IF shown.url = "" THEN NoValue ELSE shown.url
             link == [type |-> shown.type, url |-> url, on |-> shown.on, effort |-> "inherit", think |-> TRUE,
                      key |-> NoValue, header |-> NoValue]
  <2>1. shown \in ShownLink /\ url \in Optional(Urls) /\ NoValue \in Optional(ApiKeys)
    BY <1>2 DEF ShownOrNone, ShownLink, Optional
  <2>2. RedactedToPublic(shown) =
          [shown EXCEPT !.key = NoValue, !.header = NoValue, !.effort = "inherit", !.think = TRUE, !.url = url]
    BY <1>2, <2>1 DEF RedactedToPublic, ShownLink
  <2> HIDE DEF url
  <2>3. [shown EXCEPT !.key = NoValue, !.header = NoValue, !.effort = "inherit", !.think = TRUE, !.url = url] = link
    <3> DEFINE public == [type |-> shown.type, url |-> shown.url, on |-> shown.on, effort |-> shown.effort,
                          think |-> shown.think, key |-> NoValue, header |-> NoValue]
    <3>1. [shown EXCEPT !.key = NoValue, !.header = NoValue] = public
      BY <2>1, LinksAre, LinkWithSecrets
    <3>2. /\ IsLink(public) /\ public.type = shown.type /\ public.on = shown.on
          /\ public.key = NoValue /\ public.header = NoValue
      BY DEF IsLink
    <3> HIDE DEF public
    <3>3. [public EXCEPT !.effort = "inherit", !.think = TRUE, !.url = url]
            = [type |-> public.type, url |-> url, on |-> public.on, effort |-> "inherit",
               think |-> TRUE, key |-> public.key, header |-> public.header]
      BY <3>2, LinkWithDefaults
    <3> QED
      BY <3>1, <3>2, <3>3
  <2>4. link \in StoredLink
    BY <2>1 DEF StoredLink, ShownLink
  <2> QED
    BY <2>2, <2>3, <2>4 DEF LinkOrNone
<1> QED
  BY <1>1, <1>2

LEMMA SavingIsShown ==
  ASSUME NEW draft \in EditorDraft, NEW shown \in ShownOrNone
  PROVE  ShownSaving(draft, shown) \in ShownLink /\ ShownSaving(draft, shown).type = draft.type
<1> DEFINE secret == AssembleSecret(draft, shown)
           public == AssemblePublic(draft, shown)
           key    == IF secret.key = "keep" THEN shown # NoValue /\ shown.key ELSE secret.key # "clear"
           header == IF secret.header = "keep" THEN shown # NoValue /\ shown.header ELSE secret.header # "clear"
           link   == [type |-> public.type, url |-> public.url, on |-> public.on, effort |-> public.effort,
                      think |-> public.think, key |-> key, header |-> header]
<1>1. public \in StoredLink /\ public.type = draft.type
  BY PublicAssembled
<1>2. key \in BOOLEAN /\ header \in BOOLEAN
  BY DEF ShownOrNone, ShownLink
<1>3. ShownSaving(draft, shown) = [public EXCEPT !.key = key, !.header = header]
  BY DEF ShownSaving
<1> HIDE DEF public, key, header
<1>4. [public EXCEPT !.key = key, !.header = header] = link
  BY <1>1, LinksAre, LinkWithSecrets
<1>5. link \in ShownLink /\ link.type = draft.type
  BY <1>1, <1>2 DEF ShownLink, StoredLink
<1> QED
  BY <1>3, <1>4, <1>5

LEMMA DraftsAre ==
  /\ \A shown \in ShownLink : DraftOf(shown) \in EditorDraft /\ DraftOf(shown).type = shown.type
  /\ \A type \in LinkTypes : BlankDraft(type) \in EditorDraft /\ BlankDraft(type).type = type
<1>1. ASSUME NEW shown \in ShownLink PROVE DraftOf(shown) \in EditorDraft /\ DraftOf(shown).type = shown.type
  <2>1. (IF shown.url = NoValue THEN "" ELSE shown.url) \in UrlTexts /\ NoValue \in Optional(ApiKeys)
    BY DEF ShownLink, Optional, UrlTexts
  <2> QED
    BY <2>1 DEF DraftOf, EditorDraft, ShownLink
<1>2. \A type \in LinkTypes : BlankDraft(type) \in EditorDraft /\ BlankDraft(type).type = type
  BY DEF BlankDraft, EditorDraft, UrlTexts, Optional
<1> QED
  BY <1>1, <1>2

-----------------------------------------------------------------------------
FormType == [mode: FormModes, draft: EditorDraft, edits: 0 .. MaxDraftEdits, past: BOOLEAN]
SaveType == [at: SaveStages, draft: EditorDraft, shown: ShownOrNone, wire: [LinkNames -> LinkOrNone],
             secret: SecretPart, base: LinkOrNone, result: LinkOrNone, said: {"nothing", "saved", "failed"}]

EditorTyped ==
  /\ linked \in [LinkNames -> LinkOrNone] /\ listed \in [LinkNames -> ShownOrNone]
  /\ form \in FormType /\ saving \in SaveType /\ shuffled \in BOOLEAN

(* The form lives until its PATCH has an answer; while it edits, its type  *)
(* is that of the connection shown; while it adds, none was shown.         *)
FormInv ==
  /\ form = NoForm => saving.at = "idle"
  /\ form.mode # "closed" => saving.at \in {"idle", "patch", "patched"}
  /\ form.mode = "edit" => listed["own"] # NoValue /\ form.draft.type = listed["own"].type
  /\ form.mode = "add" => /\ saving.at = "idle" => listed["own"] = NoValue
                          /\ saving.at # "idle" => saving.shown = NoValue

(* What the PATCH makes of the stored connection, and the PUT of that. *)
SavedPublic  == AssemblePublic(saving.draft, saving.shown)
SavedPatched == AttachSecrets(SavedPublic, saving.base)
SavedLink    == ApplySecret(SavedPatched, saving.secret)

(* The save is that of its draft, and each half is stored before the next  *)
(* one, and "saved", can follow.                                           *)
SaveInv ==
  /\ saving.at # "idle" => saving.wire["own"] = SavedPublic /\ saving.secret = AssembleSecret(saving.draft, saving.shown)
  /\ saving.said = "saved" => saving.at = "done"
  /\ saving.at \in {"patched", "secret"} => saving.result = SavedPatched
  /\ ~shuffled /\ saving.at \in {"patched", "secret"} => linked["own"] = SavedPatched
  /\ ~shuffled /\ (saving.at = "written" \/ saving.said = "saved") =>
       linked["own"] = SavedLink /\ saving.result = SavedLink

LinkInv == EditorTyped /\ FormInv /\ SaveInv

-----------------------------------------------------------------------------
LEMMA OwnIsALink == "own" \in LinkNames /\ "other" \in LinkNames
BY DEF LinkNames

LEMMA EditsBounded == MaxDraftEdits \in Nat /\ 0 \in 0 .. MaxDraftEdits
<1>1. MaxDraftEdits \in Nat
  BY ConnectionEditorAssumption, Zenon
<1> QED
  BY <1>1

(* The forms there are. *)
LEMMA FormsAre ==
  /\ NoForm \in FormType /\ NoForm.mode = "closed" /\ NoForm.past = FALSE
  /\ PastForm \in FormType /\ PastForm.mode = "closed" /\ PastForm # NoForm
  /\ NoSave.at = "idle"
<1>1. NoForm = [mode |-> "closed", draft |-> BlankDraft("native"), edits |-> 0, past |-> FALSE]
  BY DEF NoForm
<1>2. BlankDraft("native") \in EditorDraft
  BY DraftsAre DEF LinkTypes
<1>3. 0 \in 0 .. MaxDraftEdits
  BY EditsBounded
<1>4. NoForm \in FormType /\ NoForm.mode = "closed" /\ NoForm.past = FALSE
  BY <1>1, <1>2, <1>3 DEF FormType, FormModes
<1>5. PastForm = [NoForm EXCEPT !.past = TRUE]
  BY DEF PastForm
<1>6. PastForm \in FormType /\ PastForm.mode = "closed" /\ PastForm.past = TRUE
  BY <1>4, <1>5 DEF FormType
<1>7. NoSave.at = "idle"
  BY DEF NoSave
<1> QED
  BY <1>4, <1>6, <1>7

(* The drafts a user can make of one. *)
LEMMA TypedDrafts ==
  ASSUME NEW draft \in EditorDraft, NEW edited \in EditedDrafts(draft)
  PROVE  edited \in EditorDraft /\ edited.type = draft.type
<1>2. PICK url \in UrlTexts, key \in {draft.key} \cup ApiKeys : edited = [draft EXCEPT !.url = url, !.key = key]
  <2>1. PICK url \in UrlTexts : edited \in {[draft EXCEPT !.url = url, !.key = key] : key \in {draft.key} \cup ApiKeys}
    BY DEF EditedDrafts
  <2> QED
    BY <2>1
<1>3. key \in Optional(ApiKeys)
  BY DEF EditorDraft, Optional
<1>4. [draft EXCEPT !.url = url] \in EditorDraft /\ [draft EXCEPT !.url = url].type = draft.type
  BY DEF EditorDraft
<1>5. /\ [[draft EXCEPT !.url = url] EXCEPT !.key = key] \in EditorDraft
      /\ [[draft EXCEPT !.url = url] EXCEPT !.key = key].type = draft.type
  BY <1>3, <1>4 DEF EditorDraft
<1> QED
  BY <1>2, <1>5

Retyped(edited, type) == [edited EXCEPT !.type = type, !.row = FALSE, !.header = NoValue]

LEMMA DraftsEdited ==
  ASSUME NEW edited \in EditorDraft, NEW type \in LinkTypes, NEW next,
         \/ type # edited.type /\ next = Retyped(edited, type)
         \/ type = edited.type /\ (next \in WithHeader(edited) \/ next = edited)
  PROVE  next \in EditorDraft /\ next.type = type
<1>2. NoValue \in Optional(ApiKeys)
  BY DEF Optional
<1>3. ASSUME next = Retyped(edited, type) PROVE next \in EditorDraft /\ next.type = type
  <2> DEFINE typed == [edited EXCEPT !.type = type]
             bare  == [typed EXCEPT !.row = FALSE]
  <2>1. next = [bare EXCEPT !.header = NoValue]
    BY <1>3 DEF Retyped
  <2>2. typed \in EditorDraft /\ typed.type = type
    BY DEF EditorDraft
  <2> HIDE DEF typed
  <2>3. bare \in EditorDraft /\ bare.type = type
    BY <2>2 DEF EditorDraft
  <2> HIDE DEF bare
  <2> QED
    BY <1>2, <2>1, <2>3 DEF EditorDraft
<1>4. ASSUME type = edited.type, next \in WithHeader(edited) PROVE next \in EditorDraft /\ next.type = type
  <2>1. ASSUME NEW on \in BOOLEAN, NEW value \in Optional(ApiKeys), next = [edited EXCEPT !.row = on, !.header = value]
        PROVE  next \in EditorDraft /\ next.type = type
    <3>1. [edited EXCEPT !.row = on] \in EditorDraft /\ [edited EXCEPT !.row = on].type = type
      BY <1>4 DEF EditorDraft
    <3>2. next = [[edited EXCEPT !.row = on] EXCEPT !.header = value]
      BY <2>1
    <3> QED
      BY <3>1, <3>2 DEF EditorDraft
  <2>2. ApiKeys \subseteq Optional(ApiKeys)
    BY DEF Optional
  <2> QED
    BY <1>2, <1>4, <2>1, <2>2 DEF WithHeader
<1> QED
  BY <1>3, <1>4

-----------------------------------------------------------------------------
LEMMA OpenFormLinks ==
  ASSUME LinkInv, OpenForm
  PROVE  LinkInv' /\ form'.mode # "closed"
<1>1. form = NoForm /\ saving.at = "idle" /\ UNCHANGED <<linked, listed, saving, shuffled>>
  BY DEF OpenForm, LinkInv, FormInv
<1>2. 0 \in 0 .. MaxDraftEdits
  BY EditsBounded
<1>3. \/ /\ listed["own"] # NoValue
         /\ form' = [mode |-> "edit", draft |-> DraftOf(listed["own"]), edits |-> 0, past |-> FALSE]
      \/ /\ listed["own"] = NoValue
         /\ \E type \in LinkTypes : form' = [mode |-> "add", draft |-> BlankDraft(type), edits |-> 0, past |-> FALSE]
  BY DEF OpenForm
<1>4. listed["own"] \in ShownOrNone
  BY OwnIsALink DEF LinkInv, EditorTyped
<1>5. form' \in FormType /\ form'.mode \in {"edit", "add"}
      /\ (form'.mode = "edit" => listed["own"] # NoValue /\ form'.draft.type = listed["own"].type)
      /\ (form'.mode = "add" => listed["own"] = NoValue)
  <2>1. ASSUME listed["own"] # NoValue,
               form' = [mode |-> "edit", draft |-> DraftOf(listed["own"]), edits |-> 0, past |-> FALSE]
        PROVE  form' \in FormType /\ form'.mode = "edit" /\ form'.draft.type = listed["own"].type
    <3>1. listed["own"] \in ShownLink
      BY <1>4, <2>1 DEF ShownOrNone
    <3>2. DraftOf(listed["own"]) \in EditorDraft /\ DraftOf(listed["own"]).type = listed["own"].type
      BY <3>1, DraftsAre
    <3> QED
      BY <1>2, <2>1, <3>2 DEF FormType, FormModes
  <2>2. ASSUME NEW type \in LinkTypes, form' = [mode |-> "add", draft |-> BlankDraft(type), edits |-> 0, past |-> FALSE]
        PROVE  form' \in FormType /\ form'.mode = "add"
    BY <1>2, <2>2, DraftsAre DEF FormType, FormModes
  <2> QED
    BY <1>3, <2>1, <2>2
<1>6. form' # NoForm
  BY <1>5, FormsAre
<1>7. EditorTyped' /\ FormInv'
  BY <1>1, <1>5, <1>6 DEF LinkInv, EditorTyped, FormInv
<1>8. SaveInv'
  BY <1>1 DEF LinkInv, SaveInv, SavedLink, SavedPatched, SavedPublic
<1> QED
  BY <1>5, <1>7, <1>8 DEF LinkInv

LEMMA EditDraftLinks ==
  ASSUME LinkInv, EditDraft
  PROVE  LinkInv' /\ form'.mode = form.mode /\ form.mode # "closed"
<1>1. /\ form.mode # "closed" /\ form.edits < MaxDraftEdits /\ UNCHANGED <<linked, listed, saving, shuffled>>
  BY DEF EditDraft
<1>2. PICK edited \in EditedDrafts(form.draft), type \in LinkTypes :
        /\ form.mode = "edit" => type = edited.type
        /\ \E draft \in (IF type # edited.type THEN {Retyped(edited, type)}
                         ELSE IF type = "compatible" THEN WithHeader(edited) ELSE {edited}) :
             form' = [form EXCEPT !.draft = draft, !.edits = @ + 1]
  BY DEF EditDraft, Retyped
<1>3. PICK draft : /\ form' = [form EXCEPT !.draft = draft, !.edits = @ + 1]
                   /\ \/ type # edited.type /\ draft = Retyped(edited, type)
                      \/ type = edited.type /\ (draft \in WithHeader(edited) \/ draft = edited)
  BY <1>2
<1>4. form \in FormType /\ form.draft \in EditorDraft
  BY DEF LinkInv, EditorTyped, FormType
<1>5. edited \in EditorDraft /\ edited.type = form.draft.type
  BY <1>4, TypedDrafts
<1>6. draft \in EditorDraft /\ draft.type = type
  BY <1>3, <1>5, DraftsEdited
<1>7. form.edits + 1 \in 0 .. MaxDraftEdits
  <2>1. form.edits \in 0 .. MaxDraftEdits
    BY <1>4 DEF FormType
  <2> QED
    BY <1>1, <2>1, EditsBounded
<1>8. form' \in FormType /\ form'.mode = form.mode /\ form'.draft = draft
  <2>1. [form EXCEPT !.draft = draft] \in FormType /\ [form EXCEPT !.draft = draft].mode = form.mode
        /\ [form EXCEPT !.draft = draft].draft = draft /\ [form EXCEPT !.draft = draft].edits = form.edits
    BY <1>4, <1>6 DEF FormType
  <2>2. form' = [[form EXCEPT !.draft = draft] EXCEPT !.edits = form.edits + 1]
    BY <1>3, <1>4 DEF FormType
  <2> QED
    BY <1>7, <2>1, <2>2 DEF FormType
<1>9. form' # NoForm
  BY <1>1, <1>8, FormsAre
<1>10. EditorTyped' /\ FormInv'
  BY <1>1, <1>2, <1>5, <1>6, <1>8, <1>9 DEF LinkInv, EditorTyped, FormInv
<1>11. SaveInv'
  BY <1>1 DEF LinkInv, SaveInv, SavedLink, SavedPatched, SavedPublic
<1> QED
  BY <1>1, <1>8, <1>10, <1>11 DEF LinkInv

LEMMA CancelFormLinks ==
  ASSUME LinkInv, CancelForm
  PROVE  LinkInv' /\ form'.mode = "closed" /\ form' # NoForm /\ saving' = saving
<1>1. form' = PastForm /\ UNCHANGED <<linked, listed, saving, shuffled>>
  BY DEF CancelForm
<1>2. form' \in FormType /\ form'.mode = "closed" /\ form' # NoForm
  BY <1>1, FormsAre
<1>3. EditorTyped' /\ FormInv'
  BY <1>1, <1>2 DEF LinkInv, EditorTyped, FormInv
<1>4. SaveInv'
  BY <1>1 DEF LinkInv, SaveInv, SavedLink, SavedPatched, SavedPublic
<1> QED
  BY <1>1, <1>2, <1>3, <1>4 DEF LinkInv

(* A save that goes on keeps what it was pressed with. *)
SaveStays(next, save) ==
  /\ next \in SaveType /\ next.draft = save.draft /\ next.shown = save.shown /\ next.wire = save.wire
  /\ next.secret = save.secret

LEMMA PressSaveLinks ==
  ASSUME LinkInv, PressSave
  PROVE  LinkInv' /\ form' = form /\ saving.at = "idle" /\ saving'.shown = listed["own"]
<1> DEFINE public == AssemblePublic(form.draft, listed["own"])
           secret == AssembleSecret(form.draft, listed["own"])
           wire   == ConnectionsPatch("own", public)
           shown  == ShownSaving(form.draft, listed["own"])
<1>1. /\ form.mode # "closed" /\ saving = NoSave /\ UNCHANGED <<linked, form, shuffled>>
      /\ saving' = [at |-> "patch", draft |-> form.draft, shown |-> listed["own"], wire |-> wire,
                     secret |-> secret, base |-> NoValue, result |-> NoValue, said |-> "nothing"]
      /\ listed' = [listed EXCEPT !["own"] = shown]
  BY DEF PressSave
<1>2. /\ form.draft \in EditorDraft /\ listed["own"] \in ShownOrNone /\ listed["other"] \in ShownOrNone
      /\ form \in FormType /\ listed \in [LinkNames -> ShownOrNone] /\ linked \in [LinkNames -> LinkOrNone]
      /\ shuffled \in BOOLEAN
  BY OwnIsALink DEF LinkInv, EditorTyped, FormType
<1>3. public \in LinkOrNone
  BY <1>2, PublicAssembled DEF LinkOrNone
<1>4. wire \in [LinkNames -> LinkOrNone] /\ wire["own"] = public
  <2> HIDE DEF public
  <2>1. \A l \in LinkNames : listed[l] \in ShownOrNone
    BY <1>2
  <2>2. \A l \in LinkNames : RedactedToPublic(listed[l]) \in LinkOrNone
    BY <2>1, PublicAgain
  <2> QED
    BY <1>3, <2>2, OwnIsALink DEF ConnectionsPatch
<1>5. secret \in SecretPart
  BY <1>2, SecretAssembled
<1>6. shown \in ShownLink /\ shown.type = form.draft.type
  BY <1>2, SavingIsShown
<1> HIDE DEF public, wire, secret, shown
<1>8. /\ saving' \in SaveType /\ saving'.at = "patch" /\ saving'.draft = form.draft /\ saving'.shown = listed["own"]
      /\ saving'.wire = wire /\ saving'.secret = secret /\ saving'.said = "nothing"
  BY <1>1, <1>2, <1>4, <1>5 DEF SaveType, SaveStages, LinkOrNone
<1>9. listed' \in [LinkNames -> ShownOrNone] /\ listed'["own"] = shown /\ shown # NoValue
  BY <1>1, <1>2, <1>6, OwnIsALink, NoneIsNone DEF ShownOrNone
<1>10. saving.at = "idle"
  BY <1>1, FormsAre
<1>11. form # NoForm
  BY <1>1, FormsAre
<1>12. EditorTyped'
  BY <1>1, <1>2, <1>8, <1>9 DEF EditorTyped
<1>13. FormInv'
  <2>1. form.mode = "add" => listed["own"] = NoValue
    BY <1>10 DEF LinkInv, FormInv
  <2> QED
    BY <1>1, <1>6, <1>8, <1>9, <1>11, <2>1 DEF FormInv
<1>14. SaveInv'
  BY <1>4, <1>8 DEF SaveInv, SavedPublic, public, secret
<1> QED
  BY <1>1, <1>8, <1>10, <1>12, <1>13, <1>14 DEF LinkInv

LEMMA ServePatchLinks ==
  ASSUME LinkInv, ServePatch
  PROVE  LinkInv' /\ saving'.shown = saving.shown /\ saving.at # "idle"
<1> DEFINE result == AttachSecrets(saving.wire["own"], linked["own"])
<1>1. /\ saving.at = "patch" /\ UNCHANGED <<listed, form>> /\ shuffled' = FALSE
      /\ linked' = [l \in LinkNames |-> AttachSecrets(saving.wire[l], linked[l])]
      /\ saving' = [saving EXCEPT !.at = "patched", !.base = linked["own"], !.result = result]
  BY DEF ServePatch
<1>2. /\ saving \in SaveType /\ linked \in [LinkNames -> LinkOrNone] /\ saving.wire \in [LinkNames -> LinkOrNone]
      /\ linked["own"] \in LinkOrNone /\ saving.wire["own"] \in LinkOrNone
  BY OwnIsALink DEF LinkInv, EditorTyped, SaveType
<1>3. \A l \in LinkNames : AttachSecrets(saving.wire[l], linked[l]) \in LinkOrNone
  <2>1. \A l \in LinkNames : saving.wire[l] \in LinkOrNone /\ linked[l] \in LinkOrNone
    BY <1>2
  <2> QED
    BY <2>1, SecretsAttached
<1>4. linked' \in [LinkNames -> LinkOrNone] /\ linked'["own"] = result /\ result \in LinkOrNone
  BY <1>1, <1>3, OwnIsALink
<1> HIDE DEF result
<1>5. /\ saving' \in SaveType /\ saving'.at = "patched" /\ saving'.base = linked["own"] /\ saving'.result = result
      /\ saving'.draft = saving.draft /\ saving'.shown = saving.shown /\ saving'.wire = saving.wire
      /\ saving'.secret = saving.secret /\ saving'.said = saving.said
  <2>1. "patched" \in SaveStages
    BY DEF SaveStages
  <2> DEFINE stage == [saving EXCEPT !.at = "patched"]
             based == [stage EXCEPT !.base = linked["own"]]
  <2>2. SaveStays(stage, saving) /\ stage.at = "patched" /\ stage.said = saving.said
    BY <1>2, <2>1 DEF SaveStays, SaveType
  <2>3. saving' = [based EXCEPT !.result = result]
    BY <1>1
  <2> HIDE DEF stage
  <2>4. SaveStays(based, saving) /\ based.at = "patched" /\ based.said = saving.said /\ based.base = linked["own"]
    BY <1>2, <2>2 DEF SaveStays, SaveType
  <2> HIDE DEF based
  <2> QED
    BY <1>4, <2>3, <2>4 DEF SaveStays, SaveType
<1>6. EditorTyped'
  BY <1>1, <1>4, <1>5 DEF LinkInv, EditorTyped
<1>7. FormInv'
  BY <1>1, <1>5 DEF LinkInv, FormInv
<1>8. /\ saving.said # "saved" /\ saving.wire["own"] = SavedPublic
      /\ saving.secret = AssembleSecret(saving.draft, saving.shown)
  BY <1>1 DEF LinkInv, SaveInv
<1>9. result = SavedPatched'
  BY <1>5, <1>8 DEF result, SavedPatched, SavedPublic
<1>10. SaveInv'
  BY <1>4, <1>5, <1>8, <1>9 DEF SaveInv, SavedPublic
<1> QED
  BY <1>1, <1>5, <1>6, <1>7, <1>10 DEF LinkInv

(* What is stored of a save is a connection. *)
LEMMA SavedIsLink ==
  ASSUME EditorTyped
  PROVE  /\ SavedPublic \in StoredLink /\ SavedPatched \in StoredLink /\ SavedPatched.type = SavedPublic.type
         /\ SavedPatched.url = SavedPublic.url /\ saving.secret \in SecretPart
<1>1. saving.draft \in EditorDraft /\ saving.shown \in ShownOrNone /\ saving.base \in LinkOrNone
      /\ saving.secret \in SecretPart
  BY DEF EditorTyped, SaveType
<1>2. SavedPublic \in StoredLink
  BY <1>1, PublicAssembled DEF SavedPublic
<1>3. SavedPublic \in LinkOrNone /\ SavedPublic # NoValue
  BY <1>2, NoneIsNone DEF LinkOrNone
<1> QED
  BY <1>1, <1>2, <1>3, SecretsAttached DEF SavedPatched

LEMMA PatchAnsweredLinks ==
  ASSUME LinkInv, PatchAnswered
  PROVE  /\ LinkInv' /\ form'.mode = "closed" /\ form' # NoForm
         /\ saving'.shown = saving.shown /\ saving.at # "idle"
<1>1. saving.at \in {"patch", "patched"} /\ form' = PastForm /\ UNCHANGED <<linked, shuffled>>
  BY DEF PatchAnswered
<1>2. PICK answered \in {saving.at = "patched", FALSE} :
        /\ listed' = IF answered THEN RedactedAll(linked) ELSE [listed EXCEPT !["own"] = saving.shown]
        /\ saving' = [saving EXCEPT !.at = IF answered /\ saving.secret # NothingSecret THEN "secret" ELSE "done",
                                    !.said = AfterPatch(answered)]
  BY DEF PatchAnswered
<1> DEFINE at   == IF answered /\ saving.secret # NothingSecret THEN "secret" ELSE "done"
           said == AfterPatch(answered)
<1>3. /\ at \in SaveStages /\ said \in {"nothing", "saved", "failed"}
      /\ said = "saved" => at = "done" /\ saving.at = "patched" /\ saving.secret = NothingSecret
      /\ at = "secret" => saving.at = "patched" /\ said # "saved"
      /\ at \in {"secret", "done"}
  BY <1>2 DEF AfterPatch, SaveStages
<1>4. /\ saving \in SaveType /\ linked \in [LinkNames -> LinkOrNone] /\ listed \in [LinkNames -> ShownOrNone]
      /\ saving.shown \in ShownOrNone
  BY DEF LinkInv, EditorTyped, SaveType
<1>5. listed' \in [LinkNames -> ShownOrNone]
  BY <1>2, <1>4, AllRedacted
<1> HIDE DEF at, said
<1>6. /\ saving' \in SaveType /\ saving'.at = at /\ saving'.said = said
      /\ saving'.draft = saving.draft /\ saving'.shown = saving.shown /\ saving'.wire = saving.wire
      /\ saving'.secret = saving.secret /\ saving'.base = saving.base /\ saving'.result = saving.result
  <2>1. saving' = [saving EXCEPT !.at = at, !.said = said]
    BY <1>2 DEF at, said
  <2> QED
    <3> DEFINE stage == [saving EXCEPT !.at = at]
    <3>1. SaveStays(stage, saving) /\ stage.at = at /\ stage.base = saving.base /\ stage.result = saving.result
      BY <1>3, <1>4 DEF SaveStays, SaveType
    <3>2. saving' = [stage EXCEPT !.said = said]
      BY <2>1
    <3> HIDE DEF stage
    <3> QED
      BY <1>3, <3>1, <3>2 DEF SaveStays, SaveType
<1>7. form' \in FormType /\ form'.mode = "closed" /\ form' # NoForm
  BY <1>1, FormsAre
<1>8. EditorTyped' /\ FormInv'
  BY <1>1, <1>5, <1>6, <1>7 DEF LinkInv, EditorTyped, FormInv
<1>9. saving.secret = NothingSecret => SavedLink = SavedPatched
  BY SavedIsLink, NothingApplied DEF SavedLink, LinkInv
<1>10. SaveInv'
  <2>1. SavedPublic' = SavedPublic /\ SavedPatched' = SavedPatched /\ SavedLink' = SavedLink
    BY <1>6 DEF SavedPublic, SavedPatched, SavedLink
  <2>2. /\ saving.wire["own"] = SavedPublic /\ saving.secret = AssembleSecret(saving.draft, saving.shown)
        /\ saving.at = "patched" => saving.result = SavedPatched /\ (~shuffled => linked["own"] = SavedPatched)
    BY <1>1 DEF LinkInv, SaveInv
  <2> QED
    BY <1>1, <1>3, <1>6, <1>9, <2>1, <2>2 DEF SaveInv
<1> QED
  BY <1>1, <1>6, <1>7, <1>8, <1>10 DEF LinkInv

LEMMA ServeSecretLinks ==
  ASSUME LinkInv, ServeSecret
  PROVE  LinkInv' /\ saving'.shown = saving.shown /\ saving.at # "idle"
<1> DEFINE result == ApplySecret(linked["own"], saving.secret)
<1>1. /\ saving.at = "secret" /\ linked["own"] # NoValue /\ UNCHANGED <<listed, form, shuffled>>
      /\ linked' = [linked EXCEPT !["own"] = result]
      /\ saving' = [saving EXCEPT !.at = "written", !.result = result]
  BY DEF ServeSecret
<1>2. /\ saving \in SaveType /\ linked \in [LinkNames -> LinkOrNone] /\ linked["own"] \in StoredLink
      /\ saving.secret \in SecretPart
  BY <1>1, OwnIsALink DEF LinkInv, EditorTyped, SaveType, LinkOrNone
<1>3. result \in LinkOrNone
  BY <1>2, SecretApplied DEF LinkOrNone
<1>4. "written" \in SaveStages
  BY DEF SaveStages
<1> HIDE DEF result
<1>5. /\ saving' \in SaveType /\ saving'.at = "written" /\ saving'.result = result
      /\ saving'.draft = saving.draft /\ saving'.shown = saving.shown /\ saving'.wire = saving.wire
      /\ saving'.secret = saving.secret /\ saving'.base = saving.base /\ saving'.said = saving.said
  <2> DEFINE stage == [saving EXCEPT !.at = "written"]
  <2>1. SaveStays(stage, saving) /\ stage.at = "written" /\ stage.base = saving.base /\ stage.said = saving.said
    BY <1>2, <1>4 DEF SaveStays, SaveType
  <2>2. saving' = [stage EXCEPT !.result = result]
    BY <1>1
  <2> HIDE DEF stage
  <2> QED
    BY <1>3, <2>1, <2>2 DEF SaveStays, SaveType
<1>6. linked' \in [LinkNames -> LinkOrNone] /\ linked'["own"] = result
  BY <1>1, <1>2, <1>3, OwnIsALink
<1>7. EditorTyped'
  BY <1>1, <1>5, <1>6 DEF LinkInv, EditorTyped
<1>8. FormInv'
  BY <1>1, <1>5 DEF LinkInv, FormInv
<1>9. SavedPublic' = SavedPublic /\ SavedLink' = SavedLink
  BY <1>5 DEF SavedPublic, SavedPatched, SavedLink
<1>10. ~shuffled => result = SavedLink
  BY <1>1 DEF LinkInv, SaveInv, SavedLink, result
<1>11. /\ saving.said # "saved" /\ saving.wire["own"] = SavedPublic
       /\ saving.secret = AssembleSecret(saving.draft, saving.shown)
  BY <1>1 DEF LinkInv, SaveInv
<1>12. SaveInv'
  BY <1>1, <1>5, <1>6, <1>9, <1>10, <1>11 DEF SaveInv
<1> QED
  BY <1>1, <1>5, <1>7, <1>8, <1>12 DEF LinkInv

LEMMA SecretAnsweredLinks ==
  ASSUME LinkInv, SecretAnswered
  PROVE  LinkInv' /\ saving'.shown = saving.shown /\ saving.at # "idle"
<1>1. saving.at \in {"secret", "written"} /\ UNCHANGED <<linked, form, shuffled>>
  BY DEF SecretAnswered
<1>2. PICK answered \in {saving.at = "written", FALSE} :
        /\ listed' = IF answered THEN RedactedAll(linked) ELSE listed
        /\ saving' = [saving EXCEPT !.at = "done", !.said = IF answered THEN "saved" ELSE "failed"]
  BY DEF SecretAnswered
<1> DEFINE said == IF answered THEN "saved" ELSE "failed"
<1>3. said \in {"nothing", "saved", "failed"} /\ "done" \in SaveStages /\ (said = "saved" => saving.at = "written")
  BY <1>2 DEF SaveStages
<1>4. saving \in SaveType /\ linked \in [LinkNames -> LinkOrNone] /\ listed \in [LinkNames -> ShownOrNone]
      /\ form \in FormType
  BY DEF LinkInv, EditorTyped
<1>5. listed' \in [LinkNames -> ShownOrNone]
  BY <1>2, <1>4, AllRedacted
<1>6. /\ saving' \in SaveType /\ saving'.at = "done" /\ saving'.said = said
      /\ saving'.draft = saving.draft /\ saving'.shown = saving.shown /\ saving'.wire = saving.wire
      /\ saving'.secret = saving.secret /\ saving'.base = saving.base /\ saving'.result = saving.result
  <2>1. saving' = [saving EXCEPT !.at = "done", !.said = said]
    BY <1>2
  <2> HIDE DEF said
  <2> QED
    <3> DEFINE stage == [saving EXCEPT !.at = "done"]
    <3>1. SaveStays(stage, saving) /\ stage.at = "done" /\ stage.base = saving.base /\ stage.result = saving.result
      BY <1>3, <1>4 DEF SaveStays, SaveType
    <3>2. saving' = [stage EXCEPT !.said = said]
      BY <2>1
    <3> HIDE DEF stage
    <3> QED
      BY <1>3, <3>1, <3>2 DEF SaveStays, SaveType
<1> HIDE DEF said
<1>7. form.mode = "closed" /\ form # NoForm
  BY <1>1 DEF LinkInv, FormInv
<1>8. EditorTyped' /\ FormInv'
  BY <1>1, <1>5, <1>6, <1>7 DEF LinkInv, EditorTyped, FormInv
<1>9. SavedPublic' = SavedPublic /\ SavedPatched' = SavedPatched /\ SavedLink' = SavedLink
  BY <1>6 DEF SavedPublic, SavedPatched, SavedLink
<1>10. /\ saving.wire["own"] = SavedPublic /\ saving.secret = AssembleSecret(saving.draft, saving.shown)
       /\ ~shuffled /\ saving.at = "written" => linked["own"] = SavedLink /\ saving.result = SavedLink
  BY <1>1 DEF LinkInv, SaveInv
<1>11. SaveInv'
  BY <1>1, <1>3, <1>6, <1>9, <1>10 DEF SaveInv
<1> QED
  BY <1>6, <1>1, <1>7, <1>8, <1>11 DEF LinkInv

LEMMA ToggleOtherLinks ==
  ASSUME LinkInv, ToggleOther
  PROVE  LinkInv'
<1> DEFINE other == [RedactedToPublic(listed["other"]) EXCEPT !.on = ~@]
           wire  == ConnectionsPatch("other", other)
<1>1. /\ form = NoForm /\ listed["other"] # NoValue /\ UNCHANGED <<shuffled, form, saving>>
      /\ linked' = [l \in LinkNames |-> AttachSecrets(wire[l], linked[l])]
      /\ listed' = RedactedAll(linked')
  BY DEF ToggleOther
<1>2. /\ linked \in [LinkNames -> LinkOrNone] /\ listed \in [LinkNames -> ShownOrNone]
      /\ listed["other"] \in ShownOrNone
  BY OwnIsALink DEF LinkInv, EditorTyped
<1>3. other \in LinkOrNone
  <2>1. RedactedToPublic(listed["other"]) \in StoredLink
    BY <1>1, <1>2, PublicAgain
  <2> QED
    BY <2>1 DEF StoredLink, LinkOrNone
<1> HIDE DEF other
<1>4. \A l \in LinkNames : wire[l] \in LinkOrNone
  <2>1. \A l \in LinkNames : listed[l] \in ShownOrNone
    BY <1>2
  <2>2. \A l \in LinkNames : RedactedToPublic(listed[l]) \in LinkOrNone
    BY <2>1, PublicAgain
  <2> QED
    BY <1>3, <2>2 DEF ConnectionsPatch
<1> HIDE DEF wire
<1>5. \A l \in LinkNames : AttachSecrets(wire[l], linked[l]) \in LinkOrNone
  <2>1. \A l \in LinkNames : linked[l] \in LinkOrNone
    BY <1>2
  <2> QED
    BY <1>4, <2>1, SecretsAttached
<1>6. linked' \in [LinkNames -> LinkOrNone]
  BY <1>1, <1>5
<1>7. listed' \in [LinkNames -> ShownOrNone]
  BY <1>1, <1>6, AllRedacted
<1>8. saving.at = "idle" /\ form.mode = "closed" /\ saving.said # "saved"
  BY <1>1, FormsAre DEF LinkInv, FormInv, SaveInv
<1>9. EditorTyped' /\ FormInv'
  BY <1>1, <1>6, <1>7, <1>8 DEF LinkInv, EditorTyped, FormInv
<1>10. SaveInv'
  BY <1>1, <1>8 DEF SaveInv
<1> QED
  BY <1>9, <1>10 DEF LinkInv

LEMMA ElsewhereLinkLinks ==
  ASSUME LinkInv, ElsewhereLink
  PROVE  LinkInv'
<1>1. linked["own"] # NoValue /\ shuffled' = TRUE /\ UNCHANGED <<listed, form, saving>>
  BY DEF ElsewhereLink
<1>2. PICK link \in {NoValue} \cup {[linked["own"] EXCEPT !.url = url] : url \in Urls}
                             \cup {[linked["own"] EXCEPT !.key = key] : key \in ApiKeys} :
        linked' = [linked EXCEPT !["own"] = link]
  BY DEF ElsewhereLink
<1>3. linked \in [LinkNames -> LinkOrNone] /\ linked["own"] \in StoredLink
  BY <1>1, OwnIsALink DEF LinkInv, EditorTyped, LinkOrNone
<1>4. link \in LinkOrNone
  <2>1. \A url \in Urls : [linked["own"] EXCEPT !.url = url] \in StoredLink
    BY <1>3 DEF StoredLink, Optional
  <2>2. \A key \in ApiKeys : [linked["own"] EXCEPT !.key = key] \in StoredLink
    BY <1>3 DEF StoredLink, Optional
  <2> QED
    BY <1>2, <2>1, <2>2 DEF LinkOrNone
<1>5. linked' \in [LinkNames -> LinkOrNone]
  BY <1>2, <1>3, <1>4
<1>6. EditorTyped' /\ FormInv'
  BY <1>1, <1>5 DEF LinkInv, EditorTyped, FormInv
<1>7. SaveInv'
  BY <1>1 DEF LinkInv, SaveInv, SavedPublic, SavedPatched, SavedLink
<1> QED
  BY <1>6, <1>7 DEF LinkInv

(* A test changes none of it. *)
LEMMA QuietLinks ==
  ASSUME LinkInv, UNCHANGED <<linked, listed, form, saving, shuffled>>
  PROVE  LinkInv'
BY DEF LinkInv, EditorTyped, FormInv, SaveInv, SavedPublic, SavedPatched, SavedLink

LEMMA LinksStart == ConnectionEditorInit => LinkInv
<1> SUFFICES ASSUME ConnectionEditorInit PROVE LinkInv
  OBVIOUS
<1>1. /\ listed = RedactedAll(linked) /\ form = NoForm /\ saving = NoSave /\ shuffled = FALSE
  BY DEF ConnectionEditorInit
<1>2. PICK own \in {NoValue, LinkAt("native", NoValue, "old", NoValue), LinkAt("native", "old", "old", NoValue),
                    LinkAt("compatible", "old", "old", "old")} :
        linked = [l \in LinkNames |-> IF l = "own" THEN own ELSE LinkAt("compatible", "old", "old", NoValue)]
  <2>1. PICK own \in {NoValue, LinkAt("native", NoValue, "old", NoValue), LinkAt("native", "old", "old", NoValue),
                      LinkAt("compatible", "old", "old", "old")} :
          linked = [own |-> own, other |-> LinkAt("compatible", "old", "old", NoValue)]
    BY DEF ConnectionEditorInit
  <2> DEFINE one == own
             two == LinkAt("compatible", "old", "old", NoValue)
  <2>2. linked = [own |-> one, other |-> two]
    BY <2>1
  <2> HIDE DEF one, two
  <2>3. linked = [l \in LinkNames |-> IF l = "own" THEN one ELSE two]
    BY <2>2 DEF LinkNames
  <2> QED
    BY <2>3 DEF one, two
<1>3. \A type \in LinkTypes, url \in Optional(Urls), key \in Optional(ApiKeys), header \in Optional(ApiKeys) :
        LinkAt(type, url, key, header) \in StoredLink
  BY DEF LinkAt, StoredLink
<1>4. /\ NoValue \in Optional(Urls) /\ "old" \in Optional(Urls) /\ "old" \in Optional(ApiKeys)
      /\ NoValue \in Optional(ApiKeys) /\ "native" \in LinkTypes /\ "compatible" \in LinkTypes
  BY DEF Optional, LinkTypes
<1>5. linked \in [LinkNames -> LinkOrNone]
  <2>1. own \in LinkOrNone /\ LinkAt("compatible", "old", "old", NoValue) \in LinkOrNone
    BY <1>2, <1>3, <1>4 DEF LinkOrNone
  <2> QED
    BY <1>2, <2>1
<1>6. listed \in [LinkNames -> ShownOrNone]
  BY <1>1, <1>5, AllRedacted
<1>7. saving \in SaveType /\ saving.said # "saved"
  <2>1. BlankDraft("native") \in EditorDraft
    BY <1>4, DraftsAre
  <2>2. NothingSecret \in SecretPart
    BY DEF NothingSecret, SecretPart, SecretChange
  <2>3. [l \in LinkNames |-> NoValue] \in [LinkNames -> LinkOrNone] /\ NoValue \in LinkOrNone /\ NoValue \in ShownOrNone
    BY DEF LinkOrNone, ShownOrNone
  <2> DEFINE blank == BlankDraft("native")
             none  == [l \in LinkNames |-> NoValue]
  <2>4. saving = [at |-> "idle", draft |-> blank, shown |-> NoValue, wire |-> none,
                  secret |-> NothingSecret, base |-> NoValue, result |-> NoValue, said |-> "nothing"]
    BY <1>1 DEF NoSave
  <2>5. blank \in EditorDraft /\ none \in [LinkNames -> LinkOrNone]
    BY <2>1, <2>3
  <2> HIDE DEF blank, none
  <2> QED
    BY <2>2, <2>3, <2>4, <2>5 DEF SaveType, SaveStages
<1>8. saving.at = "idle" /\ form \in FormType /\ form.mode = "closed"
  BY <1>1, FormsAre
<1>9. EditorTyped /\ FormInv
  BY <1>1, <1>5, <1>6, <1>7, <1>8 DEF EditorTyped, FormInv
<1>10. SaveInv
  BY <1>7, <1>8 DEF SaveInv
<1> QED
  BY <1>9, <1>10 DEF LinkInv

LEMMA LinksKept == LinkInv /\ [ConnectionEditorNext]_editorVars => LinkInv'
<1> SUFFICES ASSUME LinkInv, [ConnectionEditorNext]_editorVars PROVE LinkInv'
  OBVIOUS
<1>1. CASE UNCHANGED editorVars
  BY <1>1, QuietLinks DEF editorVars
<1>2. CASE OpenForm
  BY <1>2, OpenFormLinks
<1>3. CASE EditDraft
  BY <1>3, EditDraftLinks
<1>4. CASE CancelForm
  BY <1>4, CancelFormLinks
<1>5. CASE TestDraft \/ TestRow
  BY <1>5, QuietLinks DEF TestDraft, TestRow
<1>6. CASE \E i \in 1 .. Len(probes) : ServeTest(i) \/ TestSettles(i) \/ StillRunning(i)
  BY <1>6, QuietLinks DEF ServeTest, TestSettles, StillRunning
<1>7. CASE PressSave
  BY <1>7, PressSaveLinks
<1>8. CASE ServePatch
  BY <1>8, ServePatchLinks
<1>9. CASE PatchAnswered
  BY <1>9, PatchAnsweredLinks
<1>10. CASE ServeSecret
  BY <1>10, ServeSecretLinks
<1>11. CASE SecretAnswered
  BY <1>11, SecretAnsweredLinks
<1>12. CASE ToggleOther
  BY <1>12, ToggleOtherLinks
<1>13. CASE ElsewhereLink
  BY <1>13, ElsewhereLinkLinks
<1> QED
  BY <1>1, <1>2, <1>3, <1>4, <1>5, <1>6, <1>7, <1>8, <1>9, <1>10, <1>11, <1>12, <1>13 DEF ConnectionEditorNext

(* The form, the connections and the save keep their shape, and the save   *)
(* what each of its stages has stored.                                     *)
THEOREM LinksInvariant == ConnectionEditorSpec => []LinkInv
<1> QED
  BY LinksStart, LinksKept, PTL DEF ConnectionEditorSpec

(* Saved said, and nothing changed behind the save: the connection stored  *)
(* has the draft's URL and its typed secrets (handleSubmit).               *)
THEOREM SavedIsStored == ConnectionEditorSpec => []SavedSaidStored
<1>1. LinkInv => SavedSaidStored
  <2> SUFFICES ASSUME LinkInv, saving.said = "saved", ~shuffled
               PROVE  /\ linked["own"] # NoValue
                      /\ linked["own"].url = (IF saving.draft.url = "" THEN NoValue ELSE saving.draft.url)
                      /\ saving.draft.key # NoValue => linked["own"].key = saving.draft.key
                      /\ saving.draft.row /\ saving.draft.header # NoValue =>
                           linked["own"].header = saving.draft.header
    BY DEF SavedSaidStored
  <2>1. linked["own"] = SavedLink /\ saving.secret = AssembleSecret(saving.draft, saving.shown)
    BY DEF LinkInv, SaveInv
  <2>2. /\ SavedPublic \in StoredLink /\ SavedPatched \in StoredLink /\ SavedPatched.url = SavedPublic.url
        /\ saving.secret \in SecretPart /\ saving.draft \in EditorDraft /\ saving.shown \in ShownOrNone
    BY SavedIsLink DEF LinkInv, EditorTyped, SaveType
  <2>3. SavedPublic.url = (IF saving.draft.url = "" THEN NoValue ELSE saving.draft.url)
    BY <2>2, PublicAssembled DEF SavedPublic
  <2>4. /\ SavedLink \in StoredLink /\ SavedLink.url = SavedPatched.url
        /\ SavedLink.key = AppliedTo(SavedPatched.key, saving.secret.key)
        /\ SavedLink.header = AppliedTo(SavedPatched.header, saving.secret.header)
    BY <2>2, SecretApplied DEF SavedLink
  <2>5. ASSUME NEW typed \in Optional(ApiKeys), typed # NoValue
        PROVE  typed \notin {"keep", "clear"}
    BY <2>5, NoneIsNone DEF Optional
  <2>6. saving.draft.key \in Optional(ApiKeys) /\ saving.draft.header \in Optional(ApiKeys)
    BY <2>2 DEF EditorDraft
  <2>7. /\ saving.draft.key # NoValue => SavedLink.key = saving.draft.key
        /\ saving.draft.row /\ saving.draft.header # NoValue => SavedLink.header = saving.draft.header
    BY <2>1, <2>4, <2>5, <2>6 DEF AssembleSecret, AppliedTo
  <2> QED
    BY <2>1, <2>2, <2>3, <2>4, <2>7, NoneIsNone
<1> QED
  BY <1>1, LinksInvariant, PTL

-----------------------------------------------------------------------------
(* The tests.  The URL a test lays over the stored connection is the text  *)
(* of a field, so that it may be empty.                                    *)
SpokenWords == {"started", "running", "outcome"}
LaidLink    == [type: LinkTypes, url: UrlTexts \cup {NoValue}, on: BOOLEAN, effort: {"inherit", "low"}, think: BOOLEAN,
                key: Optional(ApiKeys), header: Optional(ApiKeys)]
AskType     == [url: UrlTexts \cup {"keep"}, secret: SecretPart]
TargetType  == [at: UrlTexts \cup {NoValue, "default"}, key: Optional(ApiKeys), header: Optional(ApiKeys)]
TestType    == [owner: {"form", "row"}, draft: EditorDraft, shown: ShownOrNone, request: AskType, full: LinkOrNone,
                base: LinkOrNone, target: TargetType \cup {NoValue}, at: {"sent", "probed", "settled"},
                timers: BOOLEAN, silenced: BOOLEAN, spoken: Seq(SpokenWords)]

(* The timer runs only while its test does, which has no outcome yet. *)
Outcomes(words) == {k \in 1 .. Len(words) : words[k] = "outcome"}
ProbeSpeaks(probe) ==
  /\ SpokenInTurn(probe.spoken)
  /\ probe.timers => probe.at # "settled"
  /\ probe.at # "settled" => Outcomes(probe.spoken) = {}
  /\ probe.at = "settled" /\ ~probe.silenced => probe.spoken[Len(probe.spoken)] = "outcome"

(* What may be said next: that the test still runs, right after that it    *)
(* started, or the outcome.                                                *)
LEMMA SpeaksOn ==
  ASSUME NEW words \in Seq(SpokenWords), SpokenInTurn(words), Outcomes(words) = {},
         NEW next \in {"running", "outcome"}, next = "running" => \A k \in 1 .. Len(words) : words[k] # "running"
  PROVE  LET more == Append(words, next)
         IN  /\ more \in Seq(SpokenWords) /\ SpokenInTurn(more) /\ more[Len(more)] = next
             /\ next = "running" => Outcomes(more) = {}
<1> DEFINE more == Append(words, next)
<1>1. /\ more \in Seq(SpokenWords) /\ Len(words) \in Nat /\ Len(more) = Len(words) + 1
      /\ more[Len(words) + 1] = next /\ \A k \in 1 .. Len(words) : more[k] = words[k]
  BY DEF SpokenWords
<1>2. Len(words) >= 1 /\ words[1] = "started"
  BY DEF SpokenInTurn
<1> HIDE DEF more
<1>3. \A k \in 1 .. Len(more) : k \in 1 .. Len(words) \/ k = Len(words) + 1
  BY <1>1
<1>4. \A k \in 1 .. Len(words) : /\ words[k] \in SpokenWords /\ words[k] # "outcome"
                                 /\ words[k] = "started" => k = 1
                                 /\ words[k] = "running" => k = 2
  BY ElementOfSeq DEF SpokenInTurn, Outcomes
<1>5. next = "running" => Len(words) = 1
  <2> SUFFICES ASSUME next = "running", Len(words) # 1 PROVE FALSE
    OBVIOUS
  <2>1. 2 \in 1 .. Len(words)
    BY <1>1, <1>2
  <2>2. words[2] \in SpokenWords /\ words[2] \notin {"started", "outcome"}
    BY <1>4, <2>1
  <2>3. words[2] # "running"
    BY <2>1
  <2> QED
    BY <2>2, <2>3 DEF SpokenWords
<1>6. more # <<>> /\ more[1] = "started"
  BY <1>1, <1>2
<1>7. \A k \in 1 .. Len(more) : /\ more[k] = "started" => k = 1
                                /\ more[k] = "running" => k = 2
                                /\ more[k] = "outcome" => k = Len(more)
  BY <1>1, <1>3, <1>4, <1>5
<1>8. next = "running" => Outcomes(more) = {}
  BY <1>1, <1>3, <1>4 DEF Outcomes
<1> QED
  BY <1>1, <1>6, <1>7, <1>8 DEF SpokenInTurn, more

Unheard(probe) == probe.owner = "form" /\ probe.at # "settled" => probe.silenced

(* What a test of the form carries is made of its draft and of what was    *)
(* shown, and what it reached is that laid over its base.                  *)
NewLink(draft) == ApplySecret(AssemblePublic(draft, NoValue), AssembleSecret(draft, NoValue))
LaidOver(probe, base) ==
  IF probe.full # NoValue THEN probe.full
  ELSE ApplySecret([base EXCEPT !.url = IF probe.request.url = "keep" THEN @ ELSE probe.request.url],
                   probe.request.secret)

ProbeTells(probe) ==
  /\ probe.owner = "form" =>
       IF probe.full # NoValue THEN probe.full = NewLink(probe.draft)
       ELSE /\ probe.request = TestRequest(probe.draft, probe.shown)
            /\ probe.shown # NoValue /\ probe.draft.type = probe.shown.type
  /\ probe.target # NoValue =>
       /\ probe.target = ProbeTarget(LaidOver(probe, probe.base))
       /\ probe.full = NoValue => probe.base \in StoredLink

(* A test of a new connection is there only with a form that adds, and     *)
(* after it.                                                               *)
AddStands == form.mode # "edit" /\ form # NoForm /\ (saving.at # "idle" => saving.shown = NoValue)

TestInv ==
  /\ probes \in Seq(TestType)
  /\ \A i \in 1 .. Len(probes) : ProbeSpeaks(probes[i]) /\ ProbeTells(probes[i])
  /\ form.mode = "closed" => \A i \in 1 .. Len(probes) : Unheard(probes[i])
  /\ \A i \in 1 .. Len(probes) : probes[i].full # NoValue => AddStands

(* Of the tests of the form none speaks that its closing silenced. *)
Hushed ==
  \A k \in 1 .. Len(probes) : probes[k].owner = "form" /\ Unheard(probes[k]) => probes'[k].spoken = probes[k].spoken

LEMMA TestsStand ==
  ASSUME TestInv, UNCHANGED probes, form'.mode = "closed" => form.mode = "closed", AddStands => AddStands'
  PROVE  TestInv' /\ Hushed
BY DEF TestInv, Hushed

(* A test that moves on, with the form and the save as they were. *)
LEMMA TestMoves ==
  ASSUME TestInv, NEW i \in 1 .. Len(probes), NEW next \in TestType, probes' = [probes EXCEPT ![i] = next],
         UNCHANGED <<form, saving>>, ProbeSpeaks(next), ProbeTells(next),
         Unheard(probes[i]) => Unheard(next), next.full = probes[i].full,
         probes[i].owner = "form" /\ Unheard(probes[i]) => next.spoken = probes[i].spoken
  PROVE  TestInv' /\ Hushed
<1>1. probes' \in Seq(TestType) /\ Len(probes') = Len(probes) /\ probes'[i] = next
      /\ \A k \in 1 .. Len(probes) : k # i => probes'[k] = probes[k]
  BY DEF TestInv
<1>2. AddStands' = AddStands
  BY DEF AddStands
<1>3. \A k \in 1 .. Len(probes') : ProbeSpeaks(probes'[k]) /\ ProbeTells(probes'[k])
  BY <1>1 DEF TestInv
<1>4. form'.mode = "closed" => \A k \in 1 .. Len(probes') : Unheard(probes'[k])
  BY <1>1 DEF TestInv
<1>5. \A k \in 1 .. Len(probes') : probes'[k].full # NoValue => AddStands'
  BY <1>1, <1>2 DEF TestInv
<1>6. Hushed
  BY <1>1 DEF Hushed
<1> QED
  BY <1>1, <1>3, <1>4, <1>5, <1>6 DEF TestInv

(* One test more. *)
LEMMA TestAdded ==
  ASSUME TestInv, NEW next \in TestType, probes' = Append(probes, next), UNCHANGED <<form, saving>>,
         ProbeSpeaks(next), ProbeTells(next), form.mode = "closed" => Unheard(next),
         next.full # NoValue => AddStands
  PROVE  TestInv' /\ Hushed
<1>1. probes' \in Seq(TestType) /\ Len(probes') = Len(probes) + 1 /\ probes'[Len(probes) + 1] = next
      /\ \A k \in 1 .. Len(probes) : probes'[k] = probes[k]
  BY DEF TestInv
<1>2. \A k \in 1 .. Len(probes') : k \in 1 .. Len(probes) \/ k = Len(probes) + 1
  BY <1>1 DEF TestInv
<1>3. AddStands' = AddStands
  BY DEF AddStands
<1>4. \A k \in 1 .. Len(probes') : ProbeSpeaks(probes'[k]) /\ ProbeTells(probes'[k])
  BY <1>1, <1>2 DEF TestInv
<1>5. form'.mode = "closed" => \A k \in 1 .. Len(probes') : Unheard(probes'[k])
  BY <1>1, <1>2 DEF TestInv
<1>6. \A k \in 1 .. Len(probes') : probes'[k].full # NoValue => AddStands'
  BY <1>1, <1>2, <1>3 DEF TestInv
<1>7. Hushed
  BY <1>1 DEF Hushed
<1> QED
  BY <1>1, <1>4, <1>5, <1>6, <1>7 DEF TestInv

(* A new test has only said that it started. *)
LEMMA ProbeIs ==
  ASSUME EditorTyped, NEW owner \in {"form", "row"}, NEW request \in AskType, NEW full \in LinkOrNone
  PROVE  LET probe == Probe(owner, request, full)
         IN  /\ probe \in TestType /\ ProbeSpeaks(probe)
             /\ probe.owner = owner /\ probe.request = request /\ probe.full = full
             /\ probe.draft = form.draft /\ probe.shown = listed["own"] /\ probe.target = NoValue
<1> DEFINE words  == <<"started">>
           draft  == form.draft
           shown  == listed["own"]
           probe  == [owner |-> owner, draft |-> draft, shown |-> shown, request |-> request, full |-> full,
                      base |-> NoValue, target |-> NoValue, at |-> "sent", timers |-> TRUE, silenced |-> FALSE,
                      spoken |-> words]
<1>1. draft \in EditorDraft /\ shown \in ShownOrNone
  BY OwnIsALink DEF EditorTyped, FormType
<1>2. words \in Seq(SpokenWords) /\ SpokenInTurn(words) /\ Outcomes(words) = {}
  BY DEF SpokenWords, SpokenInTurn, Outcomes
<1>3. Probe(owner, request, full) = probe
  BY DEF Probe
<1> HIDE DEF words, draft, shown
<1>4. NoValue \in LinkOrNone
  BY DEF LinkOrNone
<1>5. probe \in TestType
  BY <1>1, <1>2, <1>4 DEF TestType
<1>6. /\ probe.at = "sent" /\ probe.spoken = words /\ probe.owner = owner /\ probe.request = request
      /\ probe.full = full /\ probe.draft = draft /\ probe.shown = shown /\ probe.target = NoValue
  OBVIOUS
<1> HIDE DEF probe
<1>7. ProbeSpeaks(probe)
  BY <1>2, <1>6 DEF ProbeSpeaks
<1> QED
  BY <1>3, <1>5, <1>6, <1>7 DEF draft, shown

LEMMA AskIsTyped ==
  ASSUME NEW draft \in EditorDraft, NEW shown \in ShownOrNone
  PROVE  TestRequest(draft, shown) \in AskType
<1>1. AssembleSecret(draft, shown) \in SecretPart
  BY SecretAssembled
<1>2. draft.url \in UrlTexts
  BY DEF EditorDraft
<1> QED
  BY <1>1, <1>2 DEF TestRequest, AskType

LEMMA NewIsLink ==
  ASSUME NEW draft \in EditorDraft
  PROVE  NewLink(draft) \in StoredLink
<1>1. NoValue \in ShownOrNone
  BY DEF ShownOrNone
<1>2. AssemblePublic(draft, NoValue) \in StoredLink /\ AssembleSecret(draft, NoValue) \in SecretPart
  BY <1>1, PublicAssembled, SecretAssembled
<1> QED
  BY <1>2, SecretApplied DEF NewLink

LEMMA NothingIsAsked == NothingAsked \in AskType
BY DEF NothingAsked, AskType, NothingSecret, SecretPart, SecretChange

LEMMA TestDraftTells ==
  ASSUME LinkInv, TestInv, TestDraft
  PROVE  TestInv' /\ Hushed
<1>1. form.mode # "closed" /\ UNCHANGED <<form, saving>> /\ EditorTyped
  BY DEF TestDraft, LinkInv
<1>2. form.draft \in EditorDraft /\ listed["own"] \in ShownOrNone
  BY <1>1, OwnIsALink DEF EditorTyped, FormType
<1>3. CASE form.mode = "add"
  <2> DEFINE full == NewLink(form.draft)
             next == Probe("form", NothingAsked, full)
  <2>1. probes' = Append(probes, next)
    BY <1>3 DEF TestDraft, NewLink
  <2>2. full \in LinkOrNone /\ full # NoValue
    BY <1>2, NewIsLink, NoneIsNone DEF LinkOrNone
  <2> HIDE DEF full
  <2>3. next \in TestType /\ ProbeSpeaks(next) /\ next.owner = "form" /\ next.full = full /\ next.draft = form.draft
        /\ next.target = NoValue
    BY <1>1, <2>2, NothingIsAsked, ProbeIs
  <2> HIDE DEF next
  <2>4. ProbeTells(next)
    BY <2>2, <2>3 DEF ProbeTells, full
  <2>5. AddStands
    BY <1>1, <1>3, FormsAre DEF AddStands, LinkInv, FormInv
  <2> QED
    BY <1>1, <2>1, <2>3, <2>4, <2>5, TestAdded
<1>4. CASE form.mode # "add"
  <2> DEFINE request == TestRequest(form.draft, listed["own"])
             next    == Probe("form", request, NoValue)
  <2>1. probes' = Append(probes, next)
    BY <1>4 DEF TestDraft
  <2>2. request \in AskType /\ NoValue \in LinkOrNone
    BY <1>2, AskIsTyped DEF LinkOrNone
  <2> HIDE DEF request
  <2>3. next \in TestType /\ ProbeSpeaks(next) /\ next.owner = "form" /\ next.full = NoValue /\ next.draft = form.draft
        /\ next.target = NoValue /\ next.request = request /\ next.shown = listed["own"]
    BY <1>1, <2>2, ProbeIs
  <2> HIDE DEF next
  <2>4. form.mode = "edit"
    BY <1>1, <1>4 DEF EditorTyped, FormType, FormModes
  <2>5. listed["own"] # NoValue /\ form.draft.type = listed["own"].type
    BY <2>4 DEF LinkInv, FormInv
  <2>6. ProbeTells(next)
    BY <2>3, <2>5 DEF ProbeTells, request
  <2> QED
    BY <1>1, <2>1, <2>3, <2>6, TestAdded
<1> QED
  BY <1>3, <1>4

LEMMA TestRowTells ==
  ASSUME LinkInv, TestInv, TestRow
  PROVE  TestInv' /\ Hushed
<1> DEFINE next == Probe("row", NothingAsked, NoValue)
<1>1. probes' = Append(probes, next) /\ UNCHANGED <<form, saving>> /\ EditorTyped
  BY DEF TestRow, LinkInv
<1>2. NoValue \in LinkOrNone
  BY DEF LinkOrNone
<1>3. next \in TestType /\ ProbeSpeaks(next) /\ next.owner = "row" /\ next.full = NoValue /\ next.target = NoValue
  BY <1>1, <1>2, NothingIsAsked, ProbeIs
<1> HIDE DEF next
<1>4. ProbeTells(next) /\ Unheard(next)
  BY <1>3 DEF ProbeTells, Unheard
<1> QED
  BY <1>1, <1>3, <1>4, TestAdded

(* What a test reaches is a target, of the differences laid over what is   *)
(* stored now.                                                             *)
LEMMA LaidIsLink ==
  ASSUME NEW link \in LaidLink, NEW secret \in SecretPart
  PROVE  ApplySecret(link, secret) \in LaidLink
<1> DEFINE key    == AppliedTo(link.key, secret.key)
           header == AppliedTo(link.header, secret.header)
<1>1. key \in Optional(ApiKeys) /\ header \in Optional(ApiKeys)
  BY ChangeApplied DEF LaidLink, SecretPart
<1>2. ApplySecret(link, secret) = [[link EXCEPT !.key = key] EXCEPT !.header = header]
  BY DEF ApplySecret, LaidLink
<1> HIDE DEF key, header
<1>3. [link EXCEPT !.key = key] \in LaidLink
  BY <1>1 DEF LaidLink
<1> QED
  BY <1>1, <1>2, <1>3 DEF LaidLink

LEMMA TargetsAre ==
  ASSUME NEW link \in LaidLink
  PROVE  ProbeTarget(link) \in TargetType
<1>1. NoValue \in Optional(ApiKeys)
  BY DEF Optional
<1> QED
  BY <1>1 DEF ProbeTarget, TargetType, LaidLink

LEMMA ReachedIs ==
  ASSUME EditorTyped, NEW probe \in TestType
  PROVE  /\ Reached(probe) \in TargetType \cup {NoValue}
         /\ Reached(probe) # NoValue =>
              /\ Reached(probe) = ProbeTarget(LaidOver(probe, linked["own"]))
              /\ probe.full = NoValue => linked["own"] \in StoredLink
<1>1. linked["own"] \in LinkOrNone /\ probe.full \in LinkOrNone /\ probe.request.url \in UrlTexts \cup {"keep"}
      /\ probe.request.secret \in SecretPart
  BY OwnIsALink DEF EditorTyped, TestType, AskType
<1>2. StoredLink \subseteq LaidLink
  BY DEF StoredLink, LaidLink, Optional, UrlTexts
<1>3. CASE probe.full = NoValue /\ linked["own"] = NoValue
  BY <1>3 DEF Reached, Resolved
<1>4. CASE probe.full # NoValue
  BY <1>1, <1>2, <1>4, TargetsAre DEF Reached, Resolved, LaidOver, LinkOrNone
<1>5. CASE probe.full = NoValue /\ linked["own"] # NoValue
  <2> DEFINE base == linked["own"]
             url  == IF probe.request.url = "keep" THEN base.url ELSE probe.request.url
             laid == [base EXCEPT !.url = url]
             link == ApplySecret(laid, probe.request.secret)
  <2>1. base \in StoredLink /\ url \in UrlTexts \cup {NoValue}
    BY <1>1, <1>5 DEF LinkOrNone, StoredLink, Optional, UrlTexts
  <2>2. Resolved(probe) = link /\ LaidOver(probe, base) = link
    BY <1>5, <2>1 DEF Resolved, LaidOver, StoredLink
  <2> HIDE DEF url
  <2>3. laid \in LaidLink
    BY <1>2, <2>1 DEF LaidLink
  <2> HIDE DEF laid
  <2>4. link \in LaidLink
    BY <1>1, <2>3, LaidIsLink
  <2> HIDE DEF link
  <2> QED
    BY <1>5, <2>1, <2>2, <2>4, TargetsAre DEF Reached
<1> QED
  BY <1>3, <1>4, <1>5

LEMMA ServeTestTells ==
  ASSUME LinkInv, TestInv, NEW i \in 1 .. Len(probes), ServeTest(i)
  PROVE  TestInv' /\ Hushed
<1> DEFINE probe  == probes[i]
           base   == linked["own"]
           target == Reached(probe)
           next   == [[[probe EXCEPT !.at = "probed"] EXCEPT !.base = base] EXCEPT !.target = target]
<1>1. probe.at = "sent" /\ probes' = [probes EXCEPT ![i] = next] /\ UNCHANGED <<form, saving>>
  BY DEF ServeTest
<1>2. probe \in TestType /\ ProbeSpeaks(probe) /\ ProbeTells(probe)
  BY DEF TestInv
<1>3. base \in LinkOrNone /\ EditorTyped
  BY OwnIsALink DEF LinkInv, EditorTyped
<1>4. /\ target \in TargetType \cup {NoValue}
      /\ target # NoValue => /\ target = ProbeTarget(LaidOver(probe, base))
                             /\ probe.full = NoValue => base \in StoredLink
  BY <1>2, <1>3, ReachedIs
<1> HIDE DEF probe, base, target
<1> DEFINE stage == [probe EXCEPT !.at = "probed"]
           based == [stage EXCEPT !.base = base]
<1>5. /\ stage \in TestType /\ stage.at = "probed" /\ stage.owner = probe.owner /\ stage.draft = probe.draft
      /\ stage.shown = probe.shown /\ stage.request = probe.request /\ stage.full = probe.full
      /\ stage.silenced = probe.silenced /\ stage.spoken = probe.spoken
  BY <1>2 DEF TestType
<1> HIDE DEF stage
<1>6. /\ based \in TestType /\ based.at = "probed" /\ based.owner = probe.owner /\ based.draft = probe.draft
      /\ based.shown = probe.shown /\ based.request = probe.request /\ based.full = probe.full
      /\ based.silenced = probe.silenced /\ based.spoken = probe.spoken /\ based.base = base
  BY <1>3, <1>5 DEF TestType
<1>7. next = [based EXCEPT !.target = target]
  BY DEF stage
<1> HIDE DEF based, next
<1>8. /\ next \in TestType /\ next.at = "probed" /\ next.owner = probe.owner /\ next.draft = probe.draft
      /\ next.shown = probe.shown /\ next.request = probe.request /\ next.full = probe.full
      /\ next.silenced = probe.silenced /\ next.spoken = probe.spoken /\ next.base = base /\ next.target = target
  BY <1>4, <1>6, <1>7 DEF TestType
<1>9. ProbeSpeaks(next)
  BY <1>1, <1>2, <1>8 DEF ProbeSpeaks
<1>10. LaidOver(next, base) = LaidOver(probe, base)
  BY <1>8 DEF LaidOver
<1>11. ProbeTells(next)
  BY <1>2, <1>4, <1>8, <1>10 DEF ProbeTells
<1>12. Unheard(probe) => Unheard(next)
  BY <1>1, <1>8 DEF Unheard
<1> QED
  BY <1>1, <1>8, <1>9, <1>11, <1>12, TestMoves DEF probe

LEMMA TestSettlesTells ==
  ASSUME TestInv, NEW i \in 1 .. Len(probes), TestSettles(i)
  PROVE  TestInv' /\ Hushed
<1> DEFINE probe == probes[i]
           words == IF probe.silenced THEN probe.spoken ELSE Append(probe.spoken, "outcome")
           stage == [probe EXCEPT !.at = "settled"]
           still == [stage EXCEPT !.timers = FALSE]
           next  == [still EXCEPT !.spoken = words]
<1>1. probe.at \in {"sent", "probed"} /\ UNCHANGED <<form, saving>> /\ probes' = [probes EXCEPT ![i] = SettledProbe(probe)]
  BY DEF TestSettles
<1>2. probe \in TestType /\ ProbeSpeaks(probe) /\ ProbeTells(probe)
  BY DEF TestInv
<1>3. SettledProbe(probe) = next
  BY <1>2 DEF SettledProbe, TestType
<1>4. probe.spoken \in Seq(SpokenWords) /\ "outcome" \in SpokenWords
  BY <1>2 DEF TestType, SpokenWords
<1>5. /\ words \in Seq(SpokenWords) /\ SpokenInTurn(words)
      /\ ~probe.silenced => words[Len(words)] = "outcome"
  <2>1. SpokenInTurn(probe.spoken) /\ Outcomes(probe.spoken) = {}
    BY <1>1, <1>2 DEF ProbeSpeaks
  <2> DEFINE said == probe.spoken
             more == Append(said, "outcome")
  <2>2. more \in Seq(SpokenWords) /\ SpokenInTurn(more) /\ more[Len(more)] = "outcome"
    BY <1>4, <2>1, SpeaksOn
  <2> QED
    BY <1>4, <2>1, <2>2
<1>12. probe.owner = "form" /\ Unheard(probe) => words = probe.spoken
  BY <1>1 DEF Unheard
<1> HIDE DEF probe, words
<1>6. /\ stage \in TestType /\ stage.at = "settled" /\ stage.owner = probe.owner /\ stage.draft = probe.draft
      /\ stage.shown = probe.shown /\ stage.request = probe.request /\ stage.full = probe.full
      /\ stage.base = probe.base /\ stage.target = probe.target /\ stage.silenced = probe.silenced
  BY <1>2 DEF TestType
<1> HIDE DEF stage
<1>7. /\ still \in TestType /\ still.at = "settled" /\ still.owner = probe.owner /\ still.draft = probe.draft
      /\ still.shown = probe.shown /\ still.request = probe.request /\ still.full = probe.full
      /\ still.base = probe.base /\ still.target = probe.target /\ still.timers = FALSE
      /\ still.silenced = probe.silenced
  BY <1>6 DEF TestType
<1> HIDE DEF still
<1>8. /\ next \in TestType /\ next.at = "settled" /\ next.owner = probe.owner /\ next.draft = probe.draft
      /\ next.shown = probe.shown /\ next.request = probe.request /\ next.full = probe.full
      /\ next.base = probe.base /\ next.target = probe.target /\ next.timers = FALSE /\ next.spoken = words
      /\ next.silenced = probe.silenced
  BY <1>5, <1>7 DEF TestType
<1> HIDE DEF next
<1>9. ProbeSpeaks(next) /\ Unheard(next)
  BY <1>5, <1>8 DEF ProbeSpeaks, Unheard
<1>10. LaidOver(next, next.base) = LaidOver(probe, probe.base)
  BY <1>8 DEF LaidOver
<1>11. ProbeTells(next)
  BY <1>2, <1>8, <1>10 DEF ProbeTells
<1> QED
  BY <1>1, <1>3, <1>8, <1>9, <1>11, <1>12, TestMoves DEF probe

LEMMA StillRunningTells ==
  ASSUME TestInv, NEW i \in 1 .. Len(probes), StillRunning(i)
  PROVE  TestInv' /\ Hushed
<1> DEFINE probe == probes[i]
           words == IF probe.silenced THEN probe.spoken ELSE Append(probe.spoken, "running")
           armed == ~probe.silenced
           stage == [probe EXCEPT !.spoken = words]
           next  == [stage EXCEPT !.timers = armed]
<1>1. probe \in TestType /\ ProbeSpeaks(probe) /\ ProbeTells(probe) /\ probes \in Seq(TestType)
  BY DEF TestInv
<1>2. probe.timers /\ UNCHANGED <<form, saving>> /\ probes' = [probes EXCEPT ![i] = next]
  BY <1>1 DEF StillRunning, TestType
<1>3. probe.at # "settled"
  BY <1>1, <1>2 DEF ProbeSpeaks
<1>4. probe.spoken \in Seq(SpokenWords) /\ "running" \in SpokenWords /\ armed \in BOOLEAN
  BY <1>1 DEF TestType, SpokenWords
<1>5. words \in Seq(SpokenWords) /\ SpokenInTurn(words) /\ Outcomes(words) = {}
  <2> DEFINE said == probe.spoken
             more == Append(said, "running")
  <2>1. SpokenInTurn(said) /\ Outcomes(said) = {}
    BY <1>1, <1>3 DEF ProbeSpeaks
  <2>2. \A k \in 1 .. Len(said) : said[k] # "running"
    BY DEF StillRunning, Contains
  <2>3. more \in Seq(SpokenWords) /\ SpokenInTurn(more) /\ Outcomes(more) = {}
    BY <1>4, <2>1, <2>2, SpeaksOn
  <2> QED
    BY <1>4, <2>1, <2>3
<1>6. probe.silenced => words = probe.spoken
  OBVIOUS
<1> HIDE DEF probe, words, armed
<1>7. /\ stage \in TestType /\ stage.at = probe.at /\ stage.owner = probe.owner /\ stage.draft = probe.draft
      /\ stage.shown = probe.shown /\ stage.request = probe.request /\ stage.full = probe.full
      /\ stage.base = probe.base /\ stage.target = probe.target /\ stage.silenced = probe.silenced
      /\ stage.spoken = words
  BY <1>1, <1>5 DEF TestType
<1> HIDE DEF stage
<1>8. /\ next \in TestType /\ next.at = probe.at /\ next.owner = probe.owner /\ next.draft = probe.draft
      /\ next.shown = probe.shown /\ next.request = probe.request /\ next.full = probe.full
      /\ next.base = probe.base /\ next.target = probe.target /\ next.silenced = probe.silenced
      /\ next.spoken = words
  BY <1>4, <1>7 DEF TestType
<1> HIDE DEF next
<1>9. ProbeSpeaks(next)
  BY <1>3, <1>5, <1>8 DEF ProbeSpeaks
<1>10. Unheard(probe) => Unheard(next)
  BY <1>8 DEF Unheard
<1>11. LaidOver(next, next.base) = LaidOver(probe, probe.base)
  BY <1>8 DEF LaidOver
<1>12. ProbeTells(next)
  BY <1>1, <1>8, <1>11 DEF ProbeTells
<1> QED
  BY <1>2, <1>3, <1>6, <1>8, <1>9, <1>10, <1>12, TestMoves DEF probe, Unheard

(* A form that closes silences its tests, and changes nothing else of any. *)
LEMMA OwnerGoneTells ==
  ASSUME TestInv, probes' = OwnerGone(probes), AddStands => AddStands'
  PROVE  TestInv' /\ Hushed
<1> DEFINE after(i) == IF probes[i].owner = "form" /\ probes[i].at # "settled"
                       THEN [probes[i] EXCEPT !.silenced = TRUE] ELSE probes[i]
<1>1. probes \in Seq(TestType) /\ probes' = [i \in 1 .. Len(probes) |-> after(i)]
  BY DEF TestInv, OwnerGone
<1>2. ASSUME NEW i \in 1 .. Len(probes)
      PROVE  /\ after(i) \in TestType /\ ProbeSpeaks(after(i)) /\ ProbeTells(after(i)) /\ Unheard(after(i))
             /\ after(i).full = probes[i].full /\ after(i).spoken = probes[i].spoken
  <2> DEFINE probe == probes[i]
             next  == [probe EXCEPT !.silenced = TRUE]
  <2>1. probe \in TestType /\ ProbeSpeaks(probe) /\ ProbeTells(probe)
    BY DEF TestInv
  <2>2. CASE ~(probe.owner = "form" /\ probe.at # "settled")
    BY <2>1, <2>2 DEF Unheard
  <2>3. CASE probe.owner = "form" /\ probe.at # "settled"
    <3>1. after(i) = next
      BY <2>3
    <3> HIDE DEF probe, after
    <3>2. /\ next \in TestType /\ next.at = probe.at /\ next.owner = probe.owner /\ next.draft = probe.draft
          /\ next.shown = probe.shown /\ next.request = probe.request /\ next.full = probe.full
          /\ next.base = probe.base /\ next.target = probe.target /\ next.silenced
          /\ next.spoken = probe.spoken /\ next.timers = probe.timers
      BY <2>1 DEF TestType
    <3> HIDE DEF next
    <3>3. ProbeSpeaks(next) /\ Unheard(next)
      BY <2>1, <3>2 DEF ProbeSpeaks, Unheard
    <3>4. LaidOver(next, next.base) = LaidOver(probe, probe.base)
      BY <3>2 DEF LaidOver
    <3>5. ProbeTells(next)
      BY <2>1, <3>2, <3>4 DEF ProbeTells
    <3> QED
      BY <3>1, <3>2, <3>3, <3>5 DEF probe
  <2> QED
    BY <2>2, <2>3
<1> HIDE DEF after
<1>3. /\ probes' \in Seq(TestType) /\ Len(probes') = Len(probes)
      /\ \A i \in 1 .. Len(probes) : probes'[i] = after(i)
  <2>1. Len(probes) \in Nat
    BY <1>1
  <2>2. probes' \in [1 .. Len(probes) -> TestType]
    BY <1>1, <1>2
  <2>3. probes' \in Seq(TestType) /\ Len(probes') = Len(probes)
    BY <2>1, <2>2, IsASeq
  <2> QED
    BY <1>1, <2>3
<1>4. \A i \in 1 .. Len(probes') : /\ ProbeSpeaks(probes'[i]) /\ ProbeTells(probes'[i]) /\ Unheard(probes'[i])
                                   /\ probes'[i].full = probes[i].full /\ probes'[i].spoken = probes[i].spoken
  BY <1>2, <1>3
<1>5. \A i \in 1 .. Len(probes') : probes'[i].full # NoValue => AddStands'
  BY <1>3, <1>4 DEF TestInv
<1>6. Hushed
  BY <1>3, <1>4 DEF Hushed
<1> QED
  BY <1>3, <1>4, <1>5, <1>6 DEF TestInv

LEMMA TestsKept ==
  ASSUME LinkInv, TestInv, [ConnectionEditorNext]_editorVars
  PROVE  TestInv' /\ Hushed
<1>1. CASE UNCHANGED editorVars
  BY <1>1, TestsStand DEF editorVars, AddStands
<1>2. CASE OpenForm
  <2>1. form = NoForm /\ UNCHANGED probes
    BY <1>2 DEF OpenForm
  <2>2. form'.mode # "closed"
    BY <1>2, OpenFormLinks
  <2> QED
    BY <2>1, <2>2, TestsStand DEF AddStands
<1>3. CASE EditDraft
  <2>1. UNCHANGED <<probes, saving>>
    BY <1>3 DEF EditDraft
  <2>2. form'.mode = form.mode /\ form.mode # "closed" /\ form' # NoForm
    BY <1>3, EditDraftLinks, FormsAre
  <2> QED
    BY <2>1, <2>2, TestsStand DEF AddStands
<1>4. CASE CancelForm
  <2>1. form'.mode = "closed" /\ form' # NoForm /\ saving' = saving /\ probes' = OwnerGone(probes)
    BY <1>4, CancelFormLinks DEF CancelForm
  <2> QED
    BY <2>1, OwnerGoneTells DEF AddStands
<1>5. CASE TestDraft
  BY <1>5, TestDraftTells
<1>6. CASE TestRow
  BY <1>6, TestRowTells
<1>7. CASE \E i \in 1 .. Len(probes) : ServeTest(i) \/ TestSettles(i) \/ StillRunning(i)
  BY <1>7, ServeTestTells, TestSettlesTells, StillRunningTells
<1>8. CASE PressSave
  <2>1. UNCHANGED <<probes, form>> /\ form.mode # "closed"
    BY <1>8 DEF PressSave
  <2>2. saving.at = "idle" /\ saving'.shown = listed["own"]
    BY <1>8, PressSaveLinks
  <2>3. form.mode # "edit" => saving'.shown = NoValue
    BY <2>1, <2>2 DEF LinkInv, EditorTyped, FormType, FormModes, FormInv
  <2> QED
    BY <2>1, <2>3, TestsStand DEF AddStands
<1>9. CASE ServePatch
  <2>1. UNCHANGED <<probes, form>>
    BY <1>9 DEF ServePatch
  <2> QED
    BY <1>9, <2>1, ServePatchLinks, TestsStand DEF AddStands
<1>10. CASE PatchAnswered
  <2>1. probes' = OwnerGone(probes)
    BY <1>10 DEF PatchAnswered
  <2> QED
    BY <1>10, <2>1, PatchAnsweredLinks, OwnerGoneTells DEF AddStands
<1>11. CASE ServeSecret
  <2>1. UNCHANGED <<probes, form>>
    BY <1>11 DEF ServeSecret
  <2> QED
    BY <1>11, <2>1, ServeSecretLinks, TestsStand DEF AddStands
<1>12. CASE SecretAnswered
  <2>1. UNCHANGED <<probes, form>>
    BY <1>12 DEF SecretAnswered
  <2> QED
    BY <1>12, <2>1, SecretAnsweredLinks, TestsStand DEF AddStands
<1>13. CASE ToggleOther
  <2>1. UNCHANGED <<probes, form, saving>>
    BY <1>13 DEF ToggleOther
  <2> QED
    BY <2>1, TestsStand DEF AddStands
<1>14. CASE ElsewhereLink
  <2>1. UNCHANGED <<probes, form, saving>>
    BY <1>14 DEF ElsewhereLink
  <2> QED
    BY <2>1, TestsStand DEF AddStands
<1> QED
  BY <1>1, <1>2, <1>3, <1>4, <1>5, <1>6, <1>7, <1>8, <1>9, <1>10, <1>11, <1>12, <1>13, <1>14 DEF ConnectionEditorNext

(* The tests have types, speak in turn, are silenced with their form and   *)
(* reach what their differences make of the stored connection.             *)
THEOREM TestsInvariant == ConnectionEditorSpec => [](LinkInv /\ TestInv)
<1>1. ConnectionEditorInit => LinkInv /\ TestInv
  <2> SUFFICES ASSUME ConnectionEditorInit PROVE TestInv
    BY LinksStart
  <2>1. probes = <<>>
    BY DEF ConnectionEditorInit
  <2> QED
    BY <2>1 DEF TestInv
<1>2. (LinkInv /\ TestInv) /\ [ConnectionEditorNext]_editorVars => (LinkInv /\ TestInv)'
  BY LinksKept, TestsKept
<1> QED
  BY <1>1, <1>2, PTL DEF ConnectionEditorSpec

(* The types of the form, its tests and its save. *)
THEOREM ConnectionEditorTypes == ConnectionEditorSpec => []ConnectionEditorTypeOK
<1>1. LinkInv /\ TestInv => ConnectionEditorTypeOK
  <2> SUFFICES ASSUME LinkInv, TestInv PROVE ConnectionEditorTypeOK
    OBVIOUS
  <2>1. \A l \in LinkNames : linked[l] \in StoredLink \cup {NoValue}
    BY DEF LinkInv, EditorTyped, LinkOrNone
  <2>2. /\ form.draft \in EditorDraft /\ form.mode \in {"closed", "add", "edit"} /\ form.edits \in 0 .. MaxDraftEdits
        /\ saving.at \in {"idle", "patch", "patched", "secret", "written", "done"} /\ shuffled \in BOOLEAN
    BY DEF LinkInv, EditorTyped, FormType, FormModes, SaveType, SaveStages
  <2>3. \A i \in 1 .. Len(probes) : probes[i] \in TestType
    BY DEF TestInv
  <2>4. \A i \in 1 .. Len(probes) : probes[i].at \in {"sent", "probed", "settled"}
    BY <2>3 DEF TestType
  <2> QED
    BY <2>1, <2>2, <2>4 DEF ConnectionEditorTypeOK
<1> QED
  BY <1>1, TestsInvariant, PTL

(* Each test says first that it started, at most once that it still runs,  *)
(* and one outcome last, also when silenced in between (runTest).          *)
THEOREM TestsSpeakInTurn == ConnectionEditorSpec => []TestSpeaksInTurn
<1>1. TestInv => TestSpeaksInTurn
  <2> SUFFICES ASSUME TestInv, NEW i \in 1 .. Len(probes)
               PROVE  /\ SpokenInTurn(probes[i].spoken)
                      /\ probes[i].spoken[Len(probes[i].spoken)] = "outcome" => probes[i].at = "settled"
                      /\ probes[i].at = "settled" /\ ~probes[i].silenced =>
                           probes[i].spoken[Len(probes[i].spoken)] = "outcome"
    BY DEF TestSpeaksInTurn
  <2> DEFINE words == probes[i].spoken
  <2>1. ProbeSpeaks(probes[i]) /\ probes[i] \in TestType
    BY DEF TestInv
  <2>2. words \in Seq(SpokenWords) /\ words # <<>>
    BY <2>1 DEF ProbeSpeaks, SpokenInTurn, TestType
  <2>3. Len(words) \in 1 .. Len(words)
    BY <2>2, EmptySeq
  <2> QED
    BY <2>1, <2>3 DEF ProbeSpeaks, Outcomes
<1> QED
  BY <1>1, TestsInvariant, PTL

(* After its form closed a test says nothing (useOwnerAbortSignal). *)
THEOREM ClosedFormsAreSilent == ConnectionEditorSpec => ClosedFormSilent
<1>1. LinkInv /\ TestInv /\ [ConnectionEditorNext]_editorVars =>
        [\A i \in 1 .. Len(probes) :
           probes[i].owner = "form" /\ form.mode = "closed" => probes'[i].spoken = probes[i].spoken]_editorVars
  <2> SUFFICES ASSUME LinkInv, TestInv, [ConnectionEditorNext]_editorVars, NEW i \in 1 .. Len(probes),
                      probes[i].owner = "form", form.mode = "closed"
               PROVE  probes'[i].spoken = probes[i].spoken
    OBVIOUS
  <2>1. Hushed
    BY TestsKept
  <2>2. Unheard(probes[i])
    BY DEF TestInv
  <2> QED
    BY <2>1, <2>2 DEF Hushed
<1> QED
  BY <1>1, TestsInvariant, PTL DEF ConnectionEditorSpec, ClosedFormSilent

(* The two ways from a draft to a connection: the test lays the text of    *)
(* the URL over the stored connection if it differs from what was shown,   *)
(* the save sends it whole; the secret changes are the same.               *)
LEMMA SameTarget ==
  ASSUME NEW draft \in EditorDraft, NEW base \in StoredLink, draft.type = base.type,
         ~(draft.url = "" /\ base.url # NoValue)
  PROVE  LET shown == Redacted(base)
             ask   == TestRequest(draft, shown)
         IN  ProbeTarget(ApplySecret([base EXCEPT !.url = IF ask.url = "keep" THEN @ ELSE ask.url], ask.secret))
               = ProbeTarget(ApplySecret(AttachSecrets(AssemblePublic(draft, shown), base), AssembleSecret(draft, shown)))
<1> DEFINE shown  == Redacted(base)
           ask    == TestRequest(draft, shown)
           secret == AssembleSecret(draft, shown)
           public == AssemblePublic(draft, shown)
           url    == IF ask.url = "keep" THEN base.url ELSE ask.url
           laid   == [base EXCEPT !.url = url]
           saved  == AttachSecrets(public, base)
<1>1. shown \in ShownOrNone /\ shown.type = base.type /\ shown.url = base.url
  BY RedactedIs, NoneIsNone DEF LinkOrNone
<1>2. secret \in SecretPart
  BY <1>1, SecretAssembled
<1>3. public \in StoredLink /\ public.type = draft.type /\ public.url = (IF draft.url = "" THEN NoValue ELSE draft.url)
  BY <1>1, PublicAssembled
<1>4. ask.secret = secret /\ ask.url = (IF draft.url # (IF base.url = NoValue THEN "" ELSE base.url) THEN draft.url ELSE "keep")
  BY <1>1 DEF TestRequest
<1> HIDE DEF shown, ask, secret, public
<1>5. saved \in StoredLink /\ saved.type = base.type /\ saved.url = public.url /\ saved.key = base.key /\ saved.header = base.header
  <2>1. public \in LinkOrNone /\ base \in LinkOrNone /\ public # NoValue /\ base # NoValue
    BY <1>3, NoneIsNone DEF LinkOrNone
  <2>2. saved \in StoredLink /\ saved.type = public.type /\ saved.url = public.url
    BY <2>1, SecretsAttached
  <2>3. base.type = public.type => saved.key = base.key /\ saved.header = base.header
    BY <2>1, SecretsAttached
  <2> HIDE DEF saved
  <2> QED
    BY <1>3, <2>2, <2>3
<1>6. url = public.url
  <2>1. draft.url \in UrlTexts /\ base.url \in Optional(Urls)
    BY DEF EditorDraft, StoredLink
  <2>2. draft.url # "keep" /\ base.url # ""
    BY <2>1, NoneIsNone DEF UrlTexts, Optional
  <2> QED
    BY <1>3, <1>4, <2>2
<1>7. laid \in StoredLink /\ laid.type = base.type /\ laid.url = url /\ laid.key = base.key /\ laid.header = base.header
  <2>1. url \in Optional(Urls)
    BY <1>3, <1>6 DEF StoredLink
  <2> HIDE DEF url
  <2> QED
    BY <2>1 DEF StoredLink
<1> HIDE DEF url, laid, saved
<1>8. ProbeTarget(ApplySecret(laid, secret)) = ProbeTarget(ApplySecret(saved, secret))
  <2> DEFINE one == ApplySecret(laid, secret)
             two == ApplySecret(saved, secret)
  <2>1. /\ one.type = laid.type /\ one.url = laid.url /\ one.key = AppliedTo(laid.key, secret.key)
        /\ one.header = AppliedTo(laid.header, secret.header)
    BY <1>2, <1>7, SecretApplied
  <2>2. /\ two.type = saved.type /\ two.url = saved.url /\ two.key = AppliedTo(saved.key, secret.key)
        /\ two.header = AppliedTo(saved.header, secret.header)
    BY <1>2, <1>5, SecretApplied
  <2> HIDE DEF one, two
  <2>3. one.type = two.type /\ one.url = two.url /\ one.key = two.key /\ one.header = two.header
    BY <1>5, <1>6, <1>7, <2>1, <2>2
  <2>4. ProbeTarget(one) = ProbeTarget(two)
    BY <2>3 DEF ProbeTarget
  <2> QED
    BY <2>4 DEF one, two
<1> QED
  BY <1>4, <1>8 DEF shown, ask, secret, public, url, laid, saved

(* What a test of the form reached is what the save of that draft stores   *)
(* (testRequest.ts), with no other change in between and no stored URL     *)
(* cleared.                                                                *)
THEOREM TestReachesSaved == ConnectionEditorSpec => []TestedIsSaved
<1>1. TestInv => \A i \in 1 .. Len(probes) : probes[i] \in TestType
  BY DEF TestInv
<1>2. LinkInv /\ TestInv => TestedIsSaved
  <2> SUFFICES ASSUME LinkInv, TestInv, NEW i \in 1 .. Len(probes),
                      probes[i].owner = "form", probes[i].target # NoValue,
                      saving.said = "saved", saving.draft = probes[i].draft, saving.shown = probes[i].shown,
                      saving.base = probes[i].base, Redacted(saving.base) = saving.shown, ~shuffled,
                      ~(saving.draft.url = "" /\ saving.shown # NoValue /\ saving.shown.url # NoValue)
               PROVE  probes[i].target = ProbeTarget(saving.result)
    BY DEF TestedIsSaved
  <2> DEFINE probe == probes[i]
  <2>1. probe \in TestType /\ ProbeTells(probe) /\ (probe.full # NoValue => AddStands)
    <3>1. ProbeTells(probes[i]) /\ (probes[i].full # NoValue => AddStands)
      BY Zenon DEF TestInv
    <3>2. probes[i] \in TestType
      BY <1>1, Zenon
    <3> QED
      BY <3>1, <3>2, Zenon
  <2>2. /\ saving.at = "done" /\ saving.result = SavedLink
        /\ saving.secret = AssembleSecret(saving.draft, saving.shown)
    BY DEF LinkInv, SaveInv
  <2>3. probe.target = ProbeTarget(LaidOver(probe, probe.base)) /\ (probe.full = NoValue => probe.base \in StoredLink)
    BY <2>1 DEF ProbeTells
  <2>4. saving.draft \in EditorDraft /\ saving.base \in LinkOrNone
    BY DEF LinkInv, EditorTyped, SaveType
  <2>5. CASE probe.full # NoValue
    <3>1. saving.shown = NoValue
      BY <2>1, <2>2, <2>5 DEF AddStands
    <3>2. saving.base = NoValue
      BY <2>4, <3>1, RedactedIs
    <3>3. SavedLink = NewLink(saving.draft)
      BY <2>2, <3>1, <3>2 DEF SavedLink, SavedPatched, SavedPublic, AttachSecrets, NewLink
    <3>4. probe.full = NewLink(saving.draft)
      BY <2>1, <2>5 DEF ProbeTells
    <3> QED
      BY <2>2, <2>3, <2>5, <3>3, <3>4 DEF LaidOver
  <2>6. CASE probe.full = NoValue
    <3>1. saving.base \in StoredLink
      BY <2>3, <2>6
    <3>2. /\ probe.request = TestRequest(saving.draft, saving.shown)
          /\ saving.shown # NoValue /\ saving.draft.type = saving.shown.type
      BY <2>1, <2>6 DEF ProbeTells
    <3>3. saving.shown.type = saving.base.type /\ saving.shown.url = saving.base.url
      BY <3>1, RedactedIs, NoneIsNone DEF LinkOrNone
    <3>4. LaidOver(probe, probe.base) =
            ApplySecret([saving.base EXCEPT !.url = IF probe.request.url = "keep" THEN @ ELSE probe.request.url],
                        probe.request.secret)
      BY <2>6 DEF LaidOver
    <3>5. SavedLink = ApplySecret(AttachSecrets(AssemblePublic(saving.draft, saving.shown), saving.base),
                                  AssembleSecret(saving.draft, saving.shown))
      BY <2>2 DEF SavedLink, SavedPatched, SavedPublic
    <3> QED
      BY <2>2, <2>3, <2>4, <3>1, <3>2, <3>3, <3>4, <3>5, SameTarget
  <2> QED
    BY <2>5, <2>6
<1> QED
  BY <1>2, TestsInvariant, PTL
-----------------------------------------------------------------------------
(* What holds of "their public fields pass through": of the connections a  *)
(* save is not about, exactly the effort and the thinking parameters are   *)
(* put back to their defaults; type, URL, switch, key and headers stay     *)
(* (connectionsWire.ts, redactedToPublic; service.ts, the re-attachment).  *)
Defaulted(link) == [link EXCEPT !.effort = "inherit", !.think = TRUE]

SiblingsLoseOnlyDefaults == [][ServePatch => linked'["other"] = Defaulted(linked["other"])]_editorVars

LEMMA DefaultedIs ==
  ASSUME NEW link \in StoredLink
  PROVE  /\ Defaulted(link) = [type |-> link.type, url |-> link.url, on |-> link.on, effort |-> "inherit",
                               think |-> TRUE, key |-> link.key, header |-> link.header]
         /\ Defaulted(link) \in StoredLink
<1> DEFINE effort == "inherit"
           think  == TRUE
           plain(e, t) == [type |-> link.type, url |-> link.url, on |-> link.on, effort |-> e,
                           think |-> t, key |-> link.key, header |-> link.header]
<1>1. plain(effort, think) \in StoredLink
  BY DEF StoredLink
<1>2. Defaulted(link) = [link EXCEPT !.effort = effort, !.think = think]
  BY DEF Defaulted
<1> HIDE DEF effort, think
<1>3. [link EXCEPT !.effort = effort] = plain(effort, link.think)
  BY LinksAre DEF IsLink
<1>4. [plain(effort, link.think) EXCEPT !.think = think] = plain(effort, think)
  OBVIOUS
<1>5. plain(effort, think) = [type |-> link.type, url |-> link.url, on |-> link.on, effort |-> "inherit",
                              think |-> TRUE, key |-> link.key, header |-> link.header]
  BY DEF effort, think
<1> HIDE DEF plain
<1>6. Defaulted(link) = plain(effort, think)
  BY <1>2, <1>3, <1>4
<1> QED
  BY <1>1, <1>5, <1>6

(* Shown, sent back and re-attached, a connection loses those two.         *)
LEMMA SentBack ==
  ASSUME NEW link \in StoredLink
  PROVE  AttachSecrets(RedactedToPublic(Redacted(link)), link) = Defaulted(link)
<1> DEFINE key    == link.key # NoValue
           header == link.header # NoValue
           url    == link.url
           shown  == [type |-> link.type, url |-> link.url, on |-> link.on, effort |-> link.effort,
                      think |-> link.think, key |-> key, header |-> header]
           public == [type |-> link.type, url |-> url, on |-> link.on, effort |-> "inherit",
                      think |-> TRUE, key |-> NoValue, header |-> NoValue]
<1>1. /\ link # NoValue /\ link \in LinkOrNone /\ link.url # "" /\ key \in BOOLEAN /\ header \in BOOLEAN
      /\ NoValue \in Optional(ApiKeys)
  BY NoneIsNone DEF StoredLink, LinkOrNone, Optional
<1>2. Redacted(link) = [link EXCEPT !.key = key, !.header = header]
  BY <1>1 DEF Redacted, StoredLink
<1> HIDE DEF key, header
<1>3. Redacted(link) = shown
  BY <1>2, LinksAre, LinkWithSecrets
<1>4. shown \in ShownLink
  BY <1>1 DEF ShownLink, StoredLink
<1>5. /\ shown # NoValue /\ IsLink(shown) /\ shown.type = link.type /\ shown.url = url /\ shown.on = link.on
      /\ shown.effort = link.effort /\ shown.think = link.think
  BY <1>4, NoneIsNone, LinksAre
<1> HIDE DEF shown
<1>6. RedactedToPublic(shown) = public
  <2> DEFINE bare == [type |-> link.type, url |-> link.url, on |-> link.on, effort |-> link.effort,
                      think |-> link.think, key |-> NoValue, header |-> NoValue]
  <2>1. RedactedToPublic(shown) =
          [shown EXCEPT !.key = NoValue, !.header = NoValue, !.effort = "inherit", !.think = TRUE, !.url = url]
    BY <1>1, <1>4, <1>5 DEF RedactedToPublic, ShownLink
  <2>2. [shown EXCEPT !.key = NoValue, !.header = NoValue] = bare
    <3>1. [shown EXCEPT !.key = NoValue, !.header = NoValue]
            = [type |-> shown.type, url |-> shown.url, on |-> shown.on, effort |-> shown.effort,
               think |-> shown.think, key |-> NoValue, header |-> NoValue]
      BY <1>5, LinkWithSecrets
    <3>2. [type |-> shown.type, url |-> shown.url, on |-> shown.on, effort |-> shown.effort,
           think |-> shown.think, key |-> NoValue, header |-> NoValue] = bare
      BY <1>5
    <3> QED
      BY <3>1, <3>2, Zenon
  <2>3. IsLink(bare)
    BY DEF IsLink
  <2>4. [bare EXCEPT !.effort = "inherit", !.think = TRUE, !.url = url]
          = [type |-> bare.type, url |-> url, on |-> bare.on, effort |-> "inherit",
             think |-> TRUE, key |-> bare.key, header |-> bare.header]
    <3> HIDE DEF bare, url
    <3> QED
      BY <2>3, LinkWithDefaults
  <2>5. [shown EXCEPT !.key = NoValue, !.header = NoValue, !.effort = "inherit", !.think = TRUE, !.url = url]
          = [bare EXCEPT !.effort = "inherit", !.think = TRUE, !.url = url]
    <3> HIDE DEF bare, url
    <3> QED
      BY <2>2
  <2> QED
    BY <2>1, <2>4, <2>5
<1>7. public \in StoredLink
  BY <1>1 DEF StoredLink
<1>8. public.type = link.type /\ public # NoValue
  BY <1>7, NoneIsNone
<1>9. AttachSecrets(public, link) = [public EXCEPT !.key = link.key, !.header = link.header]
  <2> HIDE DEF public
  <2> QED
    BY <1>1, <1>8 DEF AttachSecrets
<1>10. [public EXCEPT !.key = link.key, !.header = link.header]
        = [type |-> public.type, url |-> public.url, on |-> public.on, effort |-> public.effort,
           think |-> public.think, key |-> link.key, header |-> link.header]
  <2> HIDE DEF public
  <2> QED
    BY <1>7, LinksAre, LinkWithSecrets
<1>11. AttachSecrets(public, link) = Defaulted(link)
  BY <1>9, <1>10, DefaultedIs
<1> HIDE DEF public
<1> QED
  BY <1>3, <1>6, <1>11

(* Until it saves, the tab shows the other connection as it is stored; a   *)
(* save under way sends that back.                                         *)
SiblingInv ==
  /\ linked["other"] \in StoredLink
  /\ saving.at = "idle" => listed["other"] = Redacted(linked["other"])
  /\ saving.at = "patch" => saving.wire["other"] = RedactedToPublic(Redacted(linked["other"]))

LEMMA SiblingStart == ConnectionEditorInit => SiblingInv
<1> SUFFICES ASSUME ConnectionEditorInit PROVE SiblingInv
  OBVIOUS
<1>1. linked["other"] = LinkAt("compatible", "old", "old", NoValue)
  BY DEF ConnectionEditorInit
<1>2. LinkAt("compatible", "old", "old", NoValue) \in StoredLink
  BY DEF LinkAt, StoredLink, LinkTypes, Optional
<1>3. saving.at = "idle" /\ listed["other"] = Redacted(linked["other"])
  BY FormsAre, OwnIsALink DEF ConnectionEditorInit, RedactedAll
<1> QED
  BY <1>1, <1>2, <1>3 DEF SiblingInv

(* The PATCH is what the theorem says of it. *)
LEMMA ServePatchSibling ==
  ASSUME LinkInv, SiblingInv, ServePatch
  PROVE  SiblingInv' /\ linked'["other"] = Defaulted(linked["other"])
<1>1. saving.at = "patch" /\ linked'["other"] = AttachSecrets(saving.wire["other"], linked["other"])
  BY OwnIsALink DEF ServePatch
<1>2. linked'["other"] = Defaulted(linked["other"])
  BY <1>1, SentBack DEF SiblingInv
<1>3. saving'.at = "patched"
  BY DEF ServePatch, LinkInv, EditorTyped, SaveType
<1> QED
  BY <1>2, <1>3, DefaultedIs DEF SiblingInv

LEMMA ToggleOtherSibling ==
  ASSUME LinkInv, SiblingInv, ToggleOther
  PROVE  SiblingInv'
<1> DEFINE again == RedactedToPublic(listed["other"])
           other == [again EXCEPT !.on = ~@]
<1>1. /\ form = NoForm /\ listed["other"] # NoValue /\ saving' = saving
      /\ linked'["other"] = AttachSecrets(other, linked["other"])
      /\ listed'["other"] = Redacted(linked'["other"])
  BY OwnIsALink DEF ToggleOther, ConnectionsPatch, RedactedAll
<1>2. saving.at = "idle"
  BY <1>1 DEF LinkInv, FormInv
<1>3. linked["other"] \in LinkOrNone /\ listed["other"] \in ShownOrNone
  BY OwnIsALink DEF LinkInv, EditorTyped
<1>4. again \in StoredLink
  BY <1>1, <1>3, PublicAgain
<1> HIDE DEF again
<1>5. other \in StoredLink
  BY <1>4 DEF StoredLink
<1> HIDE DEF other
<1>6. linked'["other"] \in StoredLink
  <2>1. other \in LinkOrNone /\ other # NoValue
    BY <1>5, NoneIsNone DEF LinkOrNone
  <2>2. AttachSecrets(other, linked["other"]) \in StoredLink
    BY <1>3, <2>1, SecretsAttached
  <2> QED
    BY <1>1, <2>2
<1> QED
  BY <1>1, <1>2, <1>6 DEF SiblingInv

LEMMA SiblingKept == LinkInv /\ SiblingInv /\ [ConnectionEditorNext]_editorVars => SiblingInv'
<1> SUFFICES ASSUME LinkInv, SiblingInv, [ConnectionEditorNext]_editorVars PROVE SiblingInv'
  OBVIOUS
<1>0. /\ linked \in [LinkNames -> LinkOrNone] /\ listed \in [LinkNames -> ShownOrNone]
      /\ "own" # "other" /\ saving \in SaveType
  BY DEF LinkInv, EditorTyped
<1>1. CASE UNCHANGED <<linked, listed, saving>>
  BY <1>1 DEF SiblingInv
<1>2. CASE OpenForm \/ EditDraft \/ CancelForm \/ TestDraft \/ TestRow
  BY <1>1, <1>2 DEF OpenForm, EditDraft, CancelForm, TestDraft, TestRow
<1>3. CASE \E i \in 1 .. Len(probes) : ServeTest(i) \/ TestSettles(i) \/ StillRunning(i)
  BY <1>1, <1>3 DEF ServeTest, TestSettles, StillRunning
<1>4. CASE PressSave
  <2>1. /\ saving'.at = "patch" /\ linked' = linked /\ saving = NoSave
        /\ saving'.wire = ConnectionsPatch("own", AssemblePublic(form.draft, listed["own"]))
    BY <1>4 DEF PressSave
  <2>2. saving'.wire["other"] = RedactedToPublic(listed["other"])
    BY <2>1, OwnIsALink DEF ConnectionsPatch
  <2>3. listed["other"] = Redacted(linked["other"])
    BY <2>1, FormsAre DEF SiblingInv
  <2> QED
    BY <2>1, <2>2, <2>3 DEF SiblingInv
<1>5. CASE ServePatch
  BY <1>5, ServePatchSibling
<1>6. CASE PatchAnswered \/ SecretAnswered
  <2>1. linked' = linked /\ saving'.at \in {"secret", "done"}
    BY <1>0, <1>6 DEF PatchAnswered, SecretAnswered, SaveType
  <2> QED
    BY <2>1 DEF SiblingInv
<1>7. CASE ServeSecret
  <2>1. linked'["other"] = linked["other"] /\ saving'.at = "written"
    BY <1>0, <1>7, OwnIsALink DEF ServeSecret, SaveType
  <2> QED
    BY <2>1 DEF SiblingInv
<1>8. CASE ToggleOther
  BY <1>8, ToggleOtherSibling
<1>9. CASE ElsewhereLink
  <2>1. linked'["other"] = linked["other"] /\ UNCHANGED <<listed, saving>>
    BY <1>0, <1>9, OwnIsALink DEF ElsewhereLink
  <2> QED
    BY <2>1 DEF SiblingInv
<1>10. CASE UNCHANGED editorVars
  BY <1>1, <1>10 DEF editorVars
<1> QED
  BY <1>2, <1>3, <1>4, <1>5, <1>6, <1>7, <1>8, <1>9, <1>10 DEF ConnectionEditorNext

(* Nothing else of a sibling is lost to a save, whatever it holds and      *)
(* whatever the draft is.                                                  *)
THEOREM SiblingsKeepTheRest == ConnectionEditorSpec => SiblingsLoseOnlyDefaults
<1> DEFINE Kept == ServePatch => linked'["other"] = Defaulted(linked["other"])
<1>1. LinkInv /\ SiblingInv /\ [ConnectionEditorNext]_editorVars => [Kept]_editorVars
  BY ServePatchSibling
<1> QED
  BY LinksStart, LinksKept, SiblingStart, SiblingKept, <1>1, PTL
  DEF ConnectionEditorSpec, SiblingsLoseOnlyDefaults
=============================================================================
