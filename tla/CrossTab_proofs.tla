-------------------------- MODULE CrossTab_proofs --------------------------
(***************************************************************************)
(* Proofs about CrossTab: its types, the invariant TabsInv that says why   *)
(* tabs converge, that quiet tabs agree with the server, and that a send   *)
(* whose base is the revision of what it shows takes no stored turn away.  *)
(***************************************************************************)
EXTENDS CrossTab, SequenceTheorems, TLAPS

-----------------------------------------------------------------------------
(***************************************************************************)
(* Sequences: turns in a transcript, events in a channel                   *)
(***************************************************************************)
LEMMA RangeIsElements ==
  ASSUME NEW S, NEW s \in Seq(S)
  PROVE  \A x : x \in Range(s) <=> \E i \in 1 .. Len(s) : s[i] = x
BY DEF Range

LEMMA TurnAppended ==
  ASSUME NEW S, NEW s \in Seq(S), NEW x \in S
  PROVE  Append(s, x) \in Seq(S) /\ Range(s) \subseteq Range(Append(s, x))
<1>1. Append(s, x) \in Seq(S) /\ Len(Append(s, x)) = Len(s) + 1 /\ Len(s) \in Nat
  OBVIOUS
<1>2. \A i \in 1 .. Len(s) : Append(s, x)[i] = s[i] /\ i \in 1 .. Len(s) + 1
  OBVIOUS
<1>3. \A y : y \in Range(Append(s, x)) <=> \E i \in 1 .. Len(s) + 1 : Append(s, x)[i] = y
  BY <1>1, RangeIsElements
<1> QED
  BY <1>1, <1>2, <1>3, RangeIsElements

LEMMA TurnCutOff ==
  ASSUME NEW S, NEW s \in Seq(S), s # <<>>
  PROVE  /\ Front(s) \in Seq(S) /\ Last(s) \in S
         /\ Range(s) \subseteq Range(Front(s)) \cup {Last(s)}
<1>1. Len(s) \in Nat /\ Len(s) >= 1
  OBVIOUS
<1>2. /\ Front(s) \in Seq(S) /\ Len(Front(s)) = Len(s) - 1
      /\ \A i \in 1 .. Len(s) - 1 : Front(s)[i] = s[i]
  <2> DEFINE k == Len(s) - 1
  <2>1. 1 \in Int /\ k \in Int /\ 0 <= k /\ k - 1 + 1 = k /\ Front(s) = SubSeq(s, 1, k)
    BY <1>1 DEF Front
  <2>2. \A i \in 1 .. k : s[i] \in S
    BY <1>1
  <2> HIDE DEF k
  <2>3. SubSeq(s, 1, k) \in Seq(S) /\ Len(SubSeq(s, 1, k)) = k
    BY <2>1, <2>2
  <2>4. ASSUME NEW i \in 1 .. k
        PROVE  SubSeq(s, 1, k)[i] = s[i]
    BY <2>1, <2>2
  <2> QED
    BY <2>1, <2>3, <2>4 DEF k
<1>4. Last(s) \in S
  BY <1>1 DEF Last
<1>5. ASSUME NEW x \in Range(s), x # Last(s)
      PROVE  x \in Range(Front(s))
  <2>1. PICK i \in 1 .. Len(s) : s[i] = x
    BY RangeIsElements
  <2>2. i \in 1 .. Len(s) - 1
    BY <1>1, <1>5, <2>1 DEF Last
  <2> QED
    BY <1>2, <2>1, <2>2, RangeIsElements
<1> QED
  BY <1>2, <1>4, <1>5

(* Two events posted behind those in a channel. *)
LEMMA TwoMore ==
  ASSUME NEW S, NEW c \in Seq(S), NEW a \in S, NEW b \in S
  PROVE  /\ c \o <<a, b>> \in Seq(S)
         /\ DOMAIN (c \o <<a, b>>) = 1 .. Len(c) + 2
         /\ \A i \in 1 .. Len(c) : (c \o <<a, b>>)[i] = c[i]
         /\ (c \o <<a, b>>)[Len(c) + 1] = a
         /\ (c \o <<a, b>>)[Len(c) + 2] = b
<1>1. <<a, b>> \in Seq(S) /\ Len(<<a, b>>) = 2 /\ <<a, b>>[1] = a /\ <<a, b>>[2] = b
  OBVIOUS
<1> DEFINE ab == <<a, b>>
<1> HIDE DEF ab
<1>2. ab \in Seq(S) /\ Len(ab) = 2 /\ ab[1] = a /\ ab[2] = b
  BY <1>1 DEF ab
<1>3. /\ c \o ab \in Seq(S) /\ Len(c \o ab) = Len(c) + Len(ab)
      /\ \A i \in 1 .. Len(c) + Len(ab) :
           (c \o ab)[i] = IF i <= Len(c) THEN c[i] ELSE ab[i - Len(c)]
  BY <1>2, ConcatProperties, Zenon
<1>4. Len(c) \in Nat
  OBVIOUS
<1> QED
  BY <1>2, <1>3, <1>4 DEF ab

LEMMA OneLess ==
  ASSUME NEW S, NEW c \in Seq(S), c # <<>>
  PROVE  /\ Tail(c) \in Seq(S) /\ Head(c) \in S /\ Head(c) = c[1]
         /\ Len(c) \in Nat /\ Len(c) >= 1
         /\ DOMAIN c = 1 .. Len(c)
         /\ DOMAIN Tail(c) = 1 .. Len(c) - 1
         /\ \A i \in 1 .. Len(c) - 1 : Tail(c)[i] = c[i + 1]
OBVIOUS

-----------------------------------------------------------------------------
(***************************************************************************)
(* Types                                                                   *)
(***************************************************************************)
LEMMA RowTypes ==
  /\ Gone \in SavedRow /\ Gone.revision = 0
  /\ <<>> \in Seq(TurnIds)
  /\ \A row \in SavedRow : [row EXCEPT !.log = <<>>] \in SavedRow
<1>1. <<>> \in Seq(TurnIds)
  OBVIOUS
<1>2. Gone \in SavedRow /\ Gone.revision = 0
  BY <1>1 DEF Gone, SavedRow
<1>3. \A row \in SavedRow : [row EXCEPT !.log = <<>>] \in SavedRow
  BY <1>1 DEF SavedRow
<1> QED
  BY <1>1, <1>2, <1>3

LEMMA QueryTypes ==
  ASSUME NEW query \in Query, NEW row \in SavedRow
  PROVE  /\ Loaded(row) \in Query
         /\ Invalidated(query) \in Query
         /\ [query EXCEPT !.fetch = "answered", !.answer = row] \in Query
         /\ query.data \in SavedRow /\ query.answer \in SavedRow
BY RowTypes DEF Query, Loaded, Invalidated

LEMMA LeftType == Left \in TabState /\ Left.turn = 0 /\ Left.phase = "ready" /\ Left.view = "left"
<1>1. Loaded(Gone) \in Query
  BY RowTypes DEF Loaded, Query
<1> QED
  BY <1>1, RowTypes DEF Left, TabState

(* Following the detail touches the transcript and nothing else.           *)
LEMMA SyncedTypes ==
  ASSUME NEW s \in TabState
  PROVE  /\ Synced(s) \in TabState
         /\ Synced(s).view = s.view /\ Synced(s).phase = s.phase /\ Synced(s).turn = s.turn
         /\ Synced(s).list = s.list /\ Synced(s).detail = s.detail
         /\ Synced(s).unheard = s.unheard /\ Synced(s).editing = s.editing
<1>1. CASE s.view = "open" /\ s.phase # "busy" /\ ~s.editing /\ s.detail.data.revision > s.applied
  <2>1. s.detail.data \in SavedRow
    BY DEF TabState, Query
  <2>2. s.detail.data.revision \in Nat /\ s.detail.data.log \in Seq(TurnIds)
    BY <2>1 DEF SavedRow
  <2>3. Synced(s) = [s EXCEPT !.applied = s.detail.data.revision, !.shown = s.detail.data.log,
                              !.redone = {}, !.strayed = FALSE]
    BY <1>1 DEF Synced
  <2> QED
    BY <2>2, <2>3 DEF TabState
<1>2. CASE ~(s.view = "open" /\ s.phase # "busy" /\ ~s.editing /\ s.detail.data.revision > s.applied)
  BY <1>2 DEF Synced
<1> QED
  BY <1>1, <1>2

LEMMA UnheardType ==
  ASSUME NEW s \in TabState
  PROVE  /\ [s EXCEPT !.unheard = TRUE] \in TabState
         /\ [s EXCEPT !.unheard = TRUE].turn = s.turn /\ [s EXCEPT !.unheard = TRUE].phase = s.phase
BY DEF TabState

(* The tabs after a step of one of them.                                   *)
BusyWithTurn(s) == s.phase = "busy" <=> s.turn \in TurnIds

TabsTyped == tab \in [Viewers -> TabState] /\ \A t \in Viewers : BusyWithTurn(tab[t])

LEMMA BecomesTypes ==
  ASSUME TabsTyped, NEW t \in Viewers, NEW s \in TabState, BusyWithTurn(s), Becomes(t, s)
  PROVE  /\ TabsTyped'
         /\ tab'[t] = Synced(s)
         /\ \A v \in Viewers \ {t} : tab'[v] = tab[v]
<1>1. tab' = [tab EXCEPT ![t] = Synced(s)]
  BY DEF Becomes
<1>2. Synced(s) \in TabState /\ BusyWithTurn(Synced(s))
  BY SyncedTypes DEF BusyWithTurn
<1>3. tab'[t] = Synced(s) /\ \A v \in Viewers \ {t} : tab'[v] = tab[v]
  BY <1>1 DEF TabsTyped
<1>4. tab' \in [Viewers -> TabState]
  BY <1>1, <1>2 DEF TabsTyped
<1>5. \A v \in Viewers : BusyWithTurn(tab'[v])
  BY <1>2, <1>3 DEF TabsTyped
<1> QED
  BY <1>3, <1>4, <1>5 DEF TabsTyped, BusyWithTurn

LEMMA AllUnheardTypes ==
  ASSUME NEW tabs \in [Viewers -> TabState], \A v \in Viewers : BusyWithTurn(tabs[v])
  PROVE  /\ AllUnheard(tabs) \in [Viewers -> TabState]
         /\ \A v \in Viewers : /\ BusyWithTurn(AllUnheard(tabs)[v])
                               /\ AllUnheard(tabs)[v] = IF tabs[v].view = "left" THEN tabs[v]
                                                        ELSE [tabs[v] EXCEPT !.unheard = TRUE]
BY UnheardType DEF AllUnheard, BusyWithTurn

(* After a step that may leave every tab behind.                           *)
LEMMA BecomesAndTypes ==
  ASSUME TabsTyped, NEW t \in Viewers, NEW s \in TabState, BusyWithTurn(s), NEW untold \in BOOLEAN,
         BecomesAnd(t, s, untold)
  PROVE  /\ TabsTyped'
         /\ LET Told(v, w) == tab'[v] = IF untold /\ w.view # "left"
                                        THEN [w EXCEPT !.unheard = TRUE] ELSE w
            IN  Told(t, Synced(s)) /\ \A v \in Viewers \ {t} : Told(v, tab[v])
<1> DEFINE tabs == [tab EXCEPT ![t] = Synced(s)]
<1>1. Synced(s) \in TabState /\ BusyWithTurn(Synced(s))
  BY SyncedTypes DEF BusyWithTurn
<1>2. tabs[t] = Synced(s) /\ \A v \in Viewers \ {t} : tabs[v] = tab[v]
  BY DEF TabsTyped
<1>3. tabs \in [Viewers -> TabState] /\ \A v \in Viewers : BusyWithTurn(tabs[v])
  BY <1>1, <1>2 DEF TabsTyped
<1>4. tab' = IF untold THEN AllUnheard(tabs) ELSE tabs
  BY DEF BecomesAnd
<1> HIDE DEF tabs
<1>5. /\ AllUnheard(tabs) \in [Viewers -> TabState]
      /\ \A v \in Viewers : /\ BusyWithTurn(AllUnheard(tabs)[v])
                            /\ AllUnheard(tabs)[v] = IF tabs[v].view = "left" THEN tabs[v]
                                                     ELSE [tabs[v] EXCEPT !.unheard = TRUE]
  BY <1>3, AllUnheardTypes
<1>6. tab' \in [Viewers -> TabState] /\ \A v \in Viewers : BusyWithTurn(tab'[v])
  BY <1>3, <1>4, <1>5
<1>7. \A v \in Viewers : tab'[v] = IF untold /\ tabs[v].view # "left"
                                   THEN [tabs[v] EXCEPT !.unheard = TRUE] ELSE tabs[v]
  BY <1>4, <1>5
<1>8. TabsTyped'
  BY <1>6 DEF TabsTyped, BusyWithTurn
<1> QED
  BY <1>2, <1>7, <1>8

-----------------------------------------------------------------------------
(* The stored row only grows, by a revision at a time, until it is deleted. *)
Grows(old, new) == new = old \/ (new.revision = old.revision + 1 /\ new.born = old.born)

LEMMA StoredTypes ==
  ASSUME server \in SavedRow, sent \in [TurnIds -> SentTurn], NEW n \in TurnIds, Stored(n)
  PROVE  /\ server' \in SavedRow /\ Grows(server, server')
         /\ Stale(n) => server' = server
         /\ ~Stale(n) => server'.revision = server.revision + 1 /\ server'.log = sent[n].log
<1>1. CASE Stale(n)
  BY <1>1 DEF Stored, Grows
<1>2. CASE ~Stale(n)
  <2>1. sent[n].log \in Seq(TurnIds) /\ server.revision \in Nat
    BY DEF SentTurn, SavedRow
  <2>2. server' = [server EXCEPT !.revision = @ + 1, !.log = sent[n].log]
    BY <1>2 DEF Stored
  <2>3. server' \in SavedRow
    <3>1. \A r \in Nat, l \in Seq(TurnIds) : [server EXCEPT !.revision = r, !.log = l] \in SavedRow
      BY DEF SavedRow
    <3>2. server.revision + 1 \in Nat
      BY <2>1
    <3> QED
      BY <2>1, <2>2, <3>1, <3>2
  <2>4. /\ server'.revision = server.revision + 1 /\ server'.log = sent[n].log
        /\ server'.born = server.born
    BY <2>2 DEF SavedRow
  <2> QED
    BY <1>2, <2>3, <2>4 DEF Grows
<1> QED
  BY <1>1, <1>2

(* A turn moves on and stays what it was. *)
Moves(n, at) == sent' = [sent EXCEPT ![n].at = at]

LEMMA MovesTypes ==
  ASSUME sent \in [TurnIds -> SentTurn], NEW n \in TurnIds,
         NEW at \in {"streaming", "aborting", "saved", "ended"}, Moves(n, at)
  PROVE  /\ sent' \in [TurnIds -> SentTurn]
         /\ sent'[n] = [sent[n] EXCEPT !.at = at]
         /\ sent'[n].at = at /\ sent'[n].base = sent[n].base
         /\ \A m \in TurnIds \ {n} : sent'[m] = sent[m]
<1>1. sent[n] \in SentTurn
  OBVIOUS
<1>2. [sent[n] EXCEPT !.at = at] \in SentTurn /\ [sent[n] EXCEPT !.at = at].at = at
      /\ [sent[n] EXCEPT !.at = at].base = sent[n].base
  BY <1>1 DEF SentTurn
<1>3. sent'[n] = [sent[n] EXCEPT !.at = at] /\ \A m \in TurnIds \ {n} : sent'[m] = sent[m]
  BY DEF Moves
<1>4. sent' \in [TurnIds -> SentTurn]
  BY <1>2 DEF Moves
<1> QED
  BY <1>2, <1>3, <1>4

LEMMA AbortTypes ==
  ASSUME TabsTyped, sent \in [TurnIds -> SentTurn], NEW t \in Viewers, AbortTurn(t)
  PROVE  /\ sent' \in [TurnIds -> SentTurn]
         /\ \/ sent' = sent /\ tab[t].phase # "busy"
            \/ \E at \in {"aborting", "ended"} :
                 /\ tab[t].phase = "busy" /\ tab[t].turn \in TurnIds /\ Moves(tab[t].turn, at)
                 /\ at = "aborting" => sent[tab[t].turn].at = "streaming"
<1>1. CASE tab[t].phase = "busy"
  <2>1. tab[t].turn \in TurnIds
    BY <1>1 DEF TabsTyped, BusyWithTurn
  <2> DEFINE n == tab[t].turn
  <2>2. sent' = [sent EXCEPT ![n].at = IF @ = "streaming" THEN "aborting" ELSE "ended"]
    BY <1>1 DEF AbortTurn
  <2>3. PICK at \in {"aborting", "ended"} : /\ sent' = [sent EXCEPT ![n].at = at]
                                            /\ at = "aborting" => sent[n].at = "streaming"
    <3>1. CASE sent[n].at = "streaming"
      BY <2>1, <2>2, <3>1
    <3>2. CASE sent[n].at # "streaming"
      BY <2>1, <2>2, <3>2
    <3> QED
      BY <3>1, <3>2
  <2>4. Moves(n, at)
    BY <2>3 DEF Moves
  <2>5. sent' \in [TurnIds -> SentTurn]
    BY <2>1, <2>4, MovesTypes
  <2> QED
    BY <1>1, <2>1, <2>3, <2>4, <2>5
<1>2. CASE tab[t].phase # "busy"
  BY <1>2 DEF AbortTurn
<1> QED
  BY <1>1, <1>2

LEMMA PostTypes ==
  ASSUME channel \in [Viewers -> Seq(Events)], NEW t \in Viewers,
         NEW a \in Events, NEW b \in Events, Post(t, <<a, b>>)
  PROVE  /\ channel' \in [Viewers -> Seq(Events)]
         /\ \A v \in Viewers : channel'[v] = IF v = t \/ tab[v].view = "left" THEN channel[v]
                                             ELSE channel[v] \o <<a, b>>
<1>1. \A v \in Viewers : channel[v] \o <<a, b>> \in Seq(Events)
  BY TwoMore
<1> QED
  BY <1>1 DEF Post

-----------------------------------------------------------------------------
(* What a tab becomes in each of its steps is a tab. *)
LEMMA FieldTypes ==
  ASSUME NEW s \in TabState
  PROVE  /\ s.list \in Query /\ s.detail \in Query /\ s.shown \in Seq(TurnIds)
         /\ s.applied \in Nat /\ s.turn \in Nat /\ s.target \in Nat /\ s.redone \subseteq TurnIds
         /\ \A query \in Query :
              /\ [s EXCEPT !.list = query] \in TabState
              /\ [s EXCEPT !.detail = query] \in TabState
              /\ [s EXCEPT !.list = query, !.unheard = TRUE] \in TabState
              /\ [s EXCEPT !.detail = query, !.unheard = TRUE] \in TabState
BY DEF TabState

LEMMA InvalidateTypes ==
  ASSUME NEW s \in TabState
  PROVE  /\ InvalidateList(s) \in TabState /\ InvalidateDetail(s) \in TabState
         /\ InvalidateConversation(s) \in TabState
<1>1. \A query \in Query : Invalidated(query) \in Query
  BY RowTypes, QueryTypes
<1>2. \A u \in TabState : InvalidateList(u) \in TabState /\ InvalidateDetail(u) \in TabState
  BY <1>1, FieldTypes DEF InvalidateList, InvalidateDetail
<1> QED
  BY <1>2 DEF InvalidateConversation

LEMMA HandleTypes ==
  ASSUME NEW s \in TabState, BusyWithTurn(s), NEW event \in Events
  PROVE  LET u == [Handle(s, event) EXCEPT !.unheard = StillUnheard(s, event)]
         IN  u \in TabState /\ BusyWithTurn(u)
<1> DEFINE h == Handle(s, event)
<1>1. h \in TabState /\ h.phase = s.phase /\ h.turn = s.turn
  <2>1. CASE event = "list-changed"
    <3>1. h = InvalidateList(s)
      BY <2>1 DEF Handle
    <3> QED
      BY <3>1, InvalidateTypes DEF InvalidateList, TabState
  <2>2. CASE event = "conversation-updated"
    <3>1. h = InvalidateDetail(s) \/ h = s
      BY <2>2 DEF Handle
    <3> QED
      BY <3>1, InvalidateTypes DEF InvalidateDetail, TabState
  <2>3. CASE event = "conversation-deleted"
    <3>1. h = [s EXCEPT !.view = "deleted"]
      BY <2>3 DEF Handle
    <3> QED
      BY <3>1 DEF TabState
  <2> QED
    BY <2>1, <2>2, <2>3 DEF Events
<1>2. StillUnheard(s, event) \in BOOLEAN
  BY DEF StillUnheard, TabState
<1> HIDE DEF h
<1>3. /\ [h EXCEPT !.unheard = StillUnheard(s, event)] \in TabState
      /\ [h EXCEPT !.unheard = StillUnheard(s, event)].phase = h.phase
      /\ [h EXCEPT !.unheard = StillUnheard(s, event)].turn = h.turn
  BY <1>1, <1>2 DEF TabState
<1> QED
  BY <1>1, <1>3 DEF BusyWithTurn, h

(* The tab that posts turn n, and the turn.                                *)
PostedTab(s, n, redone, log) ==
  [s EXCEPT !.phase = "busy", !.turn = n, !.target = 0, !.intent = "send",
            !.redone = redone, !.shown = Append(log, n)]

PostedTurn(s, n, redone, log) ==
  [at |-> "posted", base |-> BaseRevision(s), log |-> Append(log, n),
   drops |-> redone, agreed |-> BaseRevision(s) = s.applied]

(* t posts turn n in place of what it showed, but for log.                 *)
PostsAs(t, n, redone, log) ==
  /\ PostedTab(tab[t], n, redone, log) \in TabState
  /\ BusyWithTurn(PostedTab(tab[t], n, redone, log))
  /\ Becomes(t, PostedTab(tab[t], n, redone, log))
  /\ PostedTurn(tab[t], n, redone, log) \in SentTurn
  /\ sent[n].at = "unused" /\ sent' = [sent EXCEPT ![n] = PostedTurn(tab[t], n, redone, log)]

LEMMA PostTurnTypes ==
  ASSUME CrossTabTypeOK, NEW t \in Viewers, NEW redone \in SUBSET TurnIds,
         NEW log \in Seq(TurnIds), PostTurn(t, redone, log)
  PROVE  \E n \in TurnIds : PostsAs(t, n, redone, log)
<1> DEFINE s == tab[t]
           U(n) == PostedTab(tab[t], n, redone, log)
           P(n) == PostedTurn(tab[t], n, redone, log)
<1>1. PICK n \in TurnIds : /\ \A m \in TurnIds : sent[m].at = "unused" <=> m >= n
                           /\ sent' = [sent EXCEPT ![n] = P(n)]
                           /\ Becomes(t, U(n))
  BY DEF PostTurn, PostedTab, PostedTurn
<1>2. n \in Nat /\ n >= n
  BY CrossTabAssumption DEF TurnIds
<1>3. s \in TabState /\ Append(log, n) \in Seq(TurnIds)
  BY DEF CrossTabTypeOK
<1>4. U(n) \in TabState /\ U(n).phase = "busy" /\ U(n).turn = n
  BY <1>2, <1>3 DEF TabState, PostedTab
<1>5. BaseRevision(s) \in Nat
  BY <1>3 DEF BaseRevision, TabState, Query, SavedRow
<1>6. P(n) \in SentTurn
  BY <1>3, <1>5 DEF SentTurn, PostedTurn
<1> QED
  BY <1>1, <1>2, <1>4, <1>6 DEF BusyWithTurn, PostsAs

-----------------------------------------------------------------------------
(* The types of a step that changes one tab, or one turn and a tab.        *)
Types == /\ server \in SavedRow /\ TabsTyped /\ sent \in [TurnIds -> SentTurn]
         /\ channel \in [Viewers -> Seq(Events)] /\ failures \in Nat
         /\ deleting \in [Viewers -> {"no", "stored", "lost"}]

LEMMA TypesAre == CrossTabTypeOK <=> Types
BY DEF CrossTabTypeOK, Types, TabsTyped, BusyWithTurn

LEMMA InitTypes == CrossTabInit => CrossTabTypeOK
<1> SUFFICES ASSUME CrossTabInit PROVE Types
  BY TypesAre
<1> DEFINE row == [Gone EXCEPT !.revision = 1]
           first == [Left EXCEPT !.view = "open", !.list = Loaded(row),
                                 !.detail = Loaded(row), !.applied = 1]
<1>1. row \in SavedRow
  BY RowTypes DEF SavedRow
<1>2. Loaded(row) \in Query
  BY <1>1, RowTypes DEF Loaded, Query
<1>3. first \in TabState /\ first.turn = 0 /\ first.phase = "ready"
  BY <1>2, LeftType DEF TabState
<1>4. BusyWithTurn(first)
  BY <1>3, CrossTabAssumption DEF BusyWithTurn, TurnIds
<1>5. Unused \in SentTurn
  BY RowTypes DEF Unused, SentTurn
<1>6. server = row /\ tab = [t \in Viewers |-> first] /\ sent = [n \in TurnIds |-> Unused]
      /\ channel = [t \in Viewers |-> <<>>] /\ failures = 0 /\ deleting = [t \in Viewers |-> "no"]
  BY DEF CrossTabInit
<1> HIDE DEF row, first
<1>7. <<>> \in Seq(Events)
  OBVIOUS
<1>8. TabsTyped
  BY <1>3, <1>4, <1>6 DEF TabsTyped
<1> QED
  BY <1>1, <1>5, <1>6, <1>7, <1>8 DEF Types

(* The steps of a tab by itself: what it becomes, and everything else as   *)
(* it was.                                                                 *)
ByItself(t, s) ==
  /\ s \in TabState /\ BusyWithTurn(s) /\ Becomes(t, s)
  /\ UNCHANGED <<server, sent, channel>>

LEMMA ByItselfTypes ==
  ASSUME CrossTabTypeOK, UNCHANGED deleting, NEW t \in Viewers, NEW s, ByItself(t, s), failures' \in Nat
  PROVE  CrossTabTypeOK'
<1>1. TabsTyped /\ s \in TabState /\ BusyWithTurn(s) /\ Becomes(t, s)
  BY TypesAre DEF Types, ByItself
<1>2. TabsTyped'
  BY <1>1, BecomesTypes
<1> QED
  BY <1>2 DEF CrossTabTypeOK, TabsTyped, BusyWithTurn, ByItself

LEMMA ActTypes ==
  ASSUME CrossTabTypeOK, NEW t \in Viewers, Act(t)
  PROVE  /\ failures' = failures /\ tab[t].view = "open" /\ tab[t].phase = "ready"
         /\ \/ ByItself(t, [tab[t] EXCEPT !.phase = "gated", !.intent = "send"])
            \/ ByItself(t, [tab[t] EXCEPT !.phase = "gated", !.intent = "redo",
                                          !.target = Last(tab[t].shown), !.editing = FALSE])
<1>1. tab[t] \in TabState /\ BusyWithTurn(tab[t]) /\ tab[t].phase = "ready"
  BY TypesAre DEF Types, TabsTyped, Act, Idle
<1>2. tab[t].turn \notin TurnIds
  BY <1>1 DEF BusyWithTurn
<1> DEFINE a == [tab[t] EXCEPT !.phase = "gated", !.intent = "send"]
           b == [tab[t] EXCEPT !.phase = "gated", !.intent = "redo",
                               !.target = Last(tab[t].shown), !.editing = FALSE]
<1>3. a \in TabState /\ BusyWithTurn(a)
  BY <1>1, <1>2 DEF TabState, BusyWithTurn
<1>4. ASSUME tab[t].shown # <<>>
      PROVE  b \in TabState /\ BusyWithTurn(b)
  <2>1. Last(tab[t].shown) \in TurnIds
    BY <1>1, <1>4, FieldTypes, TurnCutOff
  <2>2. Last(tab[t].shown) \in Nat
    BY <2>1 DEF TurnIds
  <2> QED
    BY <1>1, <1>2, <2>2 DEF TabState, BusyWithTurn
<1> HIDE DEF a, b
<1>5. \/ Becomes(t, a)
      \/ tab[t].shown # <<>> /\ Becomes(t, b)
  BY DEF Act, a, b
<1>6. UNCHANGED <<server, sent, channel, failures>> /\ tab[t].view = "open" /\ tab[t].phase = "ready"
  BY DEF Act, Idle
<1>7. failures' = failures /\ (ByItself(t, a) \/ ByItself(t, b))
  BY <1>3, <1>4, <1>5, <1>6 DEF ByItself
<1> QED
  BY <1>6, <1>7 DEF a, b

LEMMA MessageActionFailsTypes ==
  ASSUME CrossTabTypeOK, NEW t \in Viewers, MessageActionFails(t)
  PROVE  /\ failures' = failures /\ tab[t].view # "left" /\ tab[t].phase = "gated"
         /\ ByItself(t, [tab[t] EXCEPT !.phase = "ready", !.target = 0, !.intent = "send"])
<1>1. tab[t] \in TabState /\ BusyWithTurn(tab[t]) /\ tab[t].phase = "gated"
  BY TypesAre DEF Types, TabsTyped, MessageActionFails
<1>2. tab[t].turn \notin TurnIds
  BY <1>1 DEF BusyWithTurn
<1>3. /\ [tab[t] EXCEPT !.phase = "ready", !.target = 0, !.intent = "send"] \in TabState
      /\ BusyWithTurn([tab[t] EXCEPT !.phase = "ready", !.target = 0, !.intent = "send"])
  BY <1>1, <1>2 DEF TabState, BusyWithTurn
<1> QED
  BY <1>3 DEF MessageActionFails, ByItself

LEMMA EditorTypes ==
  ASSUME CrossTabTypeOK, NEW t \in Viewers, OpenEditor(t) \/ CloseEditor(t)
  PROVE  /\ failures' = failures /\ tab[t].view = "open"
         /\ \E editing \in BOOLEAN : ByItself(t, [tab[t] EXCEPT !.editing = editing])
<1>1. tab[t] \in TabState /\ BusyWithTurn(tab[t])
  BY TypesAre DEF Types, TabsTyped
<1>2. \A editing \in BOOLEAN : /\ [tab[t] EXCEPT !.editing = editing] \in TabState
                               /\ BusyWithTurn([tab[t] EXCEPT !.editing = editing])
  BY <1>1 DEF TabState, BusyWithTurn
<1>3. \E editing \in BOOLEAN : Becomes(t, [tab[t] EXCEPT !.editing = editing])
  BY DEF OpenEditor, CloseEditor
<1>4. UNCHANGED <<server, sent, channel>> /\ failures' = failures /\ tab[t].view = "open"
  BY DEF OpenEditor, CloseEditor, Idle
<1> QED
  BY <1>2, <1>3, <1>4 DEF ByItself

(* A step of a query: asked to answered, answered to loaded, or failed.    *)
QueryMoves(old, new) ==
  \/ old.fetch = "asked" /\ new = Answered(old)
  \/ old.fetch = "answered" /\ new = Loaded(old.answer)
  \/ old.fetch = "answered" /\ new = Loaded([old.answer EXCEPT !.log = <<>>])

LEMMA QueryMovesTypes ==
  ASSUME server \in SavedRow, NEW old \in Query, NEW new, QueryMoves(old, new)
  PROVE  new \in Query
BY RowTypes, QueryTypes DEF QueryMoves, Answered

LEMMA CacheTypes ==
  ASSUME CrossTabTypeOK, NEW t \in Viewers, CacheStep(t)
  PROVE  /\ failures' = failures
         /\ \E query \in Query :
              \/ QueryMoves(tab[t].list, query) /\ ByItself(t, [tab[t] EXCEPT !.list = query])
              \/ /\ QueryMoves(tab[t].detail, query)
                 /\ query = Loaded(tab[t].detail.answer) \/ query = Answered(tab[t].detail)
                 /\ ByItself(t, [tab[t] EXCEPT !.detail = query])
<1>1. tab[t] \in TabState /\ BusyWithTurn(tab[t]) /\ server \in SavedRow
  BY TypesAre DEF Types, TabsTyped
<1>2. tab[t].list \in Query /\ tab[t].detail \in Query
  BY <1>1, FieldTypes
<1>3. \A query \in Query : /\ [tab[t] EXCEPT !.list = query] \in TabState
                           /\ [tab[t] EXCEPT !.detail = query] \in TabState
                           /\ BusyWithTurn([tab[t] EXCEPT !.list = query])
                           /\ BusyWithTurn([tab[t] EXCEPT !.detail = query])
  BY <1>1 DEF TabState, BusyWithTurn
<1>4. \E query :
         \/ QueryMoves(tab[t].list, query) /\ Becomes(t, [tab[t] EXCEPT !.list = query])
         \/ /\ QueryMoves(tab[t].detail, query)
            /\ query = Loaded(tab[t].detail.answer) \/ query = Answered(tab[t].detail)
            /\ Becomes(t, [tab[t] EXCEPT !.detail = query])
  <2>1. CASE AnswerList(t)
    <3>1. Becomes(t, [tab[t] EXCEPT !.list = Answered(tab[t].list)])
      BY <2>1, <1>1 DEF AnswerList, TabState
    <3> QED
      BY <2>1, <3>1 DEF AnswerList, QueryMoves
  <2>2. CASE AnswerDetail(t)
    <3>1. Becomes(t, [tab[t] EXCEPT !.detail = Answered(tab[t].detail)])
      BY <2>2, <1>1 DEF AnswerDetail, TabState
    <3> QED
      BY <2>2, <3>1 DEF AnswerDetail, QueryMoves
  <2>3. CASE LoadList(t)
    <3>1. Becomes(t, [tab[t] EXCEPT !.list = Loaded([tab[t].list.answer EXCEPT !.log = <<>>])])
      BY <2>3, <1>1 DEF LoadList, TabState
    <3> QED
      BY <2>3, <3>1 DEF LoadList, QueryMoves
  <2>4. CASE LoadDetail(t)
    <3>1. Becomes(t, [tab[t] EXCEPT !.detail = Loaded(tab[t].detail.answer)])
      BY <2>4, <1>1 DEF LoadDetail, TabState
    <3> QED
      BY <2>4, <3>1 DEF LoadDetail, QueryMoves
  <2> QED
    BY <2>1, <2>2, <2>3, <2>4 DEF CacheStep
<1>5. UNCHANGED <<server, sent, channel>> /\ failures' = failures
  BY DEF CacheStep, AnswerList, AnswerDetail, LoadList, LoadDetail
<1> QED
  BY <1>1, <1>2, <1>3, <1>4, <1>5, QueryMovesTypes DEF ByItself

LEMMA RefetchFailsTypes ==
  ASSUME CrossTabTypeOK, NEW t \in Viewers, RefetchFails(t)
  PROVE  /\ failures' \in Nat
         /\ \/ /\ tab[t].list.fetch = "asked"
               /\ ByItself(t, [tab[t] EXCEPT !.list = Loaded(tab[t].list.data), !.unheard = TRUE])
            \/ /\ tab[t].detail.fetch = "asked"
               /\ ByItself(t, [tab[t] EXCEPT !.detail = Loaded(tab[t].detail.data), !.unheard = TRUE])
<1>1. tab[t] \in TabState /\ BusyWithTurn(tab[t]) /\ failures \in Nat
  BY TypesAre DEF Types, TabsTyped
<1>2. tab[t].list \in Query /\ tab[t].detail \in Query
  BY <1>1, FieldTypes
<1>3. Loaded(tab[t].list.data) \in Query /\ Loaded(tab[t].detail.data) \in Query
  BY <1>2, RowTypes, QueryTypes
<1> DEFINE a == [tab[t] EXCEPT !.list = Loaded(tab[t].list.data), !.unheard = TRUE]
           b == [tab[t] EXCEPT !.detail = Loaded(tab[t].detail.data), !.unheard = TRUE]
<1>4. a \in TabState /\ b \in TabState
  BY <1>1, <1>3, FieldTypes
<1>5. BusyWithTurn(a) /\ BusyWithTurn(b)
  BY <1>1 DEF TabState, BusyWithTurn
<1>6. \/ tab[t].list.fetch = "asked" /\ Becomes(t, a)
      \/ tab[t].detail.fetch = "asked" /\ Becomes(t, b)
  BY <1>1 DEF RefetchFails, TabState
<1>7. UNCHANGED <<server, sent, channel>> /\ failures' \in Nat
  BY <1>1 DEF RefetchFails
<1> QED
  BY <1>4, <1>5, <1>6, <1>7 DEF ByItself

-----------------------------------------------------------------------------
(* The steps that end, stop or leave a turn, and those that hear of one.   *)
LEMMA RestedTypes ==
  ASSUME NEW s \in TabState, BusyWithTurn(s),
         NEW strayed \in BOOLEAN, NEW unheard \in BOOLEAN
  PROVE  LET u == [s EXCEPT !.phase = "ready", !.turn = 0, !.strayed = strayed, !.unheard = unheard]
         IN  /\ u \in TabState /\ BusyWithTurn(u)
             /\ InvalidateConversation(u) \in TabState /\ BusyWithTurn(InvalidateConversation(u))
<1> DEFINE u == [s EXCEPT !.phase = "ready", !.turn = 0, !.strayed = strayed, !.unheard = unheard]
<1>1. u \in TabState /\ u.phase = "ready" /\ u.turn = 0
  BY DEF TabState
<1>2. 0 \notin TurnIds
  BY CrossTabAssumption DEF TurnIds
<1> HIDE DEF u
<1>3. InvalidateConversation(u) \in TabState
  BY <1>1, InvalidateTypes
<1>4. InvalidateConversation(u).phase = "ready" /\ InvalidateConversation(u).turn = 0
  BY <1>1 DEF InvalidateConversation, InvalidateDetail, InvalidateList, TabState
<1> QED
  BY <1>1, <1>2, <1>3, <1>4 DEF BusyWithTurn, u

LEMMA StopTypes ==
  ASSUME CrossTabTypeOK, UNCHANGED deleting, NEW t \in Viewers, StopTurn(t)
  PROVE  /\ CrossTabTypeOK'
         /\ LET s == [tab[t] EXCEPT !.phase = "ready", !.turn = 0, !.strayed = TRUE, !.unheard = TRUE]
            IN  s \in TabState /\ BusyWithTurn(s)
<1>1. tab[t] \in TabState /\ BusyWithTurn(tab[t]) /\ TabsTyped
      /\ sent \in [TurnIds -> SentTurn]
  BY TypesAre DEF Types, TabsTyped
<1> DEFINE s == [tab[t] EXCEPT !.phase = "ready", !.turn = 0, !.strayed = TRUE, !.unheard = TRUE]
<1>2. s \in TabState /\ BusyWithTurn(s)
  BY <1>1, RestedTypes
<1>3. BecomesAnd(t, s, Untold(t)) /\ AbortTurn(t) /\ UNCHANGED <<server, channel, failures>>
  BY DEF StopTurn
<1>4. Untold(t) \in BOOLEAN
  BY DEF Untold
<1> HIDE DEF s
<1>5. TabsTyped'
  BY <1>1, <1>2, <1>3, <1>4, BecomesAndTypes
<1>6. sent' \in [TurnIds -> SentTurn]
  BY <1>1, <1>3, AbortTypes
<1> QED
  BY <1>2, <1>3, <1>5, <1>6 DEF CrossTabTypeOK, TabsTyped, BusyWithTurn, s

LEMMA LeaveTypes ==
  ASSUME CrossTabTypeOK, UNCHANGED deleting, NEW t \in Viewers, Leave(t)
  PROVE  CrossTabTypeOK' /\ BusyWithTurn(Left)
<1>1. tab[t] \in TabState /\ TabsTyped /\ sent \in [TurnIds -> SentTurn]
  BY TypesAre DEF Types, TabsTyped
<1>2. Left \in TabState /\ BusyWithTurn(Left)
  BY LeftType, CrossTabAssumption DEF BusyWithTurn, TurnIds
<1>3. BecomesAnd(t, Left, Untold(t)) /\ AbortTurn(t) /\ UNCHANGED <<server, failures>>
      /\ channel' = [channel EXCEPT ![t] = <<>>]
  BY DEF Leave
<1>4. Untold(t) \in BOOLEAN
  BY DEF Untold
<1>5. TabsTyped'
  BY <1>1, <1>2, <1>3, <1>4, BecomesAndTypes
<1>6. sent' \in [TurnIds -> SentTurn]
  BY <1>1, <1>3, AbortTypes
<1>7. channel' \in [Viewers -> Seq(Events)]
  BY <1>3 DEF CrossTabTypeOK
<1> QED
  BY <1>2, <1>3, <1>5, <1>6, <1>7 DEF CrossTabTypeOK, TabsTyped, BusyWithTurn

LEMMA PassGateTypes ==
  ASSUME CrossTabTypeOK, UNCHANGED deleting, NEW t \in Viewers, PassGate(t)
  PROVE  /\ CrossTabTypeOK'
         /\ \E redone \in SUBSET TurnIds, log \in Seq(TurnIds) :
              /\ PostTurn(t, redone, log)
              /\ Range(tab[t].shown) \cup tab[t].redone \subseteq Range(log) \cup redone
<1>1. tab[t] \in TabState /\ TabsTyped /\ sent \in [TurnIds -> SentTurn]
  BY TypesAre DEF Types, TabsTyped
<1>2. tab[t].shown \in Seq(TurnIds) /\ tab[t].redone \in SUBSET TurnIds
  BY <1>1, FieldTypes
<1>3. PICK redone \in SUBSET TurnIds, log \in Seq(TurnIds) :
              /\ PostTurn(t, redone, log)
              /\ Range(tab[t].shown) \cup tab[t].redone \subseteq Range(log) \cup redone
  <2>1. CASE PostTurn(t, tab[t].redone, tab[t].shown)
    BY <1>2, <2>1
  <2>2. CASE /\ tab[t].shown # <<>> /\ Last(tab[t].shown) = tab[t].target
             /\ PostTurn(t, tab[t].redone \cup {tab[t].target}, Front(tab[t].shown))
    <3>1. /\ Front(tab[t].shown) \in Seq(TurnIds) /\ tab[t].target \in TurnIds
          /\ Range(tab[t].shown) \subseteq Range(Front(tab[t].shown)) \cup {tab[t].target}
      BY <1>2, <2>2, TurnCutOff
    <3> QED
      BY <1>2, <2>2, <3>1
  <2> QED
    BY <2>1, <2>2 DEF PassGate
<1>4. PICK n \in TurnIds : PostsAs(t, n, redone, log)
  BY <1>3, PostTurnTypes
<1>5. TabsTyped'
  BY <1>1, <1>4, BecomesTypes DEF PostsAs
<1>6. sent' \in [TurnIds -> SentTurn]
  BY <1>1, <1>4 DEF PostsAs
<1> QED
  BY <1>3, <1>5, <1>6 DEF CrossTabTypeOK, TabsTyped, BusyWithTurn, PassGate

LEMMA TurnStepTypes ==
  ASSUME CrossTabTypeOK, UNCHANGED deleting, NEW n \in TurnIds, TurnStep(n)
  PROVE  CrossTabTypeOK'
<1>1. /\ server \in SavedRow /\ TabsTyped /\ tab \in [Viewers -> TabState]
      /\ \A v \in Viewers : BusyWithTurn(tab[v])
      /\ sent \in [TurnIds -> SentTurn]
  BY TypesAre DEF Types, TabsTyped
<1>2. \E at \in {"streaming", "saved", "ended"} : Moves(n, at)
  BY DEF TurnStep, AcceptSent, SaveSent, SavePartial, Moves
<1>3. sent' \in [TurnIds -> SentTurn]
  BY <1>1, <1>2, MovesTypes
<1>4. server' \in SavedRow
  BY <1>1, StoredTypes DEF TurnStep, AcceptSent, SaveSent, SavePartial
<1>5. tab' = tab \/ tab' = AllUnheard(tab)
  BY DEF TurnStep, AcceptSent, SaveSent, SavePartial
<1>6. tab' \in [Viewers -> TabState] /\ \A v \in Viewers : BusyWithTurn(tab'[v])
  BY <1>1, <1>5, AllUnheardTypes
<1>7. UNCHANGED <<channel, failures>>
  BY DEF TurnStep, AcceptSent, SaveSent, SavePartial
<1> QED
  BY <1>3, <1>4, <1>6, <1>7 DEF CrossTabTypeOK, BusyWithTurn

LEMMA FinishTypes ==
  ASSUME CrossTabTypeOK, UNCHANGED deleting, NEW t \in Viewers, TurnFinishes(t)
  PROVE  CrossTabTypeOK'
<1>1. tab[t] \in TabState /\ BusyWithTurn(tab[t]) /\ TabsTyped /\ tab[t].phase = "busy"
      /\ sent \in [TurnIds -> SentTurn] /\ channel \in [Viewers -> Seq(Events)]
  BY TypesAre DEF Types, TabsTyped, TurnFinishes, Ends
<1> DEFINE u == [tab[t] EXCEPT !.phase = "ready", !.turn = 0, !.unheard = FALSE]
<1>2. u = [tab[t] EXCEPT !.phase = "ready", !.turn = 0, !.strayed = tab[t].strayed, !.unheard = FALSE]
      /\ tab[t].strayed \in BOOLEAN
  BY <1>1 DEF TabState
<1>3. InvalidateConversation(u) \in TabState /\ BusyWithTurn(InvalidateConversation(u))
  BY <1>1, <1>2, RestedTypes
<1>4. /\ Becomes(t, InvalidateConversation(u)) /\ Moves(tab[t].turn, "ended")
      /\ Post(t, <<"conversation-updated", "list-changed">>) /\ UNCHANGED <<server, failures>>
  BY DEF TurnFinishes, Moves
<1> HIDE DEF u
<1>5. TabsTyped'
  BY <1>1, <1>3, <1>4, BecomesTypes
<1>6. sent' \in [TurnIds -> SentTurn]
  BY <1>1, <1>4, MovesTypes DEF BusyWithTurn
<1>7. channel' \in [Viewers -> Seq(Events)]
  BY <1>1, <1>4, PostTypes DEF Events
<1> QED
  BY <1>4, <1>5, <1>6, <1>7 DEF CrossTabTypeOK, TabsTyped, BusyWithTurn

LEMMA RefusedTypes ==
  ASSUME CrossTabTypeOK, UNCHANGED deleting, NEW t \in Viewers, TurnRefused(t)
  PROVE  CrossTabTypeOK'
<1>1. tab[t] \in TabState /\ BusyWithTurn(tab[t]) /\ TabsTyped /\ tab[t].phase = "busy"
      /\ sent \in [TurnIds -> SentTurn]
  BY TypesAre DEF Types, TabsTyped, TurnRefused, Ends
<1> DEFINE u == [tab[t] EXCEPT !.phase = "ready", !.turn = 0, !.strayed = TRUE, !.unheard = FALSE]
<1>2. InvalidateConversation(u) \in TabState /\ BusyWithTurn(InvalidateConversation(u))
  BY <1>1, RestedTypes
<1>3. /\ Becomes(t, InvalidateConversation(u)) /\ Moves(tab[t].turn, "ended")
      /\ UNCHANGED <<server, channel, failures>>
  BY DEF TurnRefused, Moves
<1> HIDE DEF u
<1>4. TabsTyped'
  BY <1>1, <1>2, <1>3, BecomesTypes
<1>5. sent' \in [TurnIds -> SentTurn]
  BY <1>1, <1>3, MovesTypes DEF BusyWithTurn
<1> QED
  BY <1>3, <1>4, <1>5 DEF CrossTabTypeOK, TabsTyped, BusyWithTurn

LEMMA FailsTypes ==
  ASSUME CrossTabTypeOK, UNCHANGED deleting, NEW t \in Viewers, TurnFails(t)
  PROVE  CrossTabTypeOK'
<1>1. /\ tab[t] \in TabState /\ BusyWithTurn(tab[t]) /\ TabsTyped /\ tab[t].phase = "busy"
      /\ sent \in [TurnIds -> SentTurn] /\ server \in SavedRow /\ failures \in Nat
  BY TypesAre DEF Types, TabsTyped, TurnFails, Ends
<1> DEFINE u == [tab[t] EXCEPT !.phase = "ready", !.turn = 0, !.strayed = TRUE, !.unheard = TRUE]
           streamed == sent[tab[t].turn].at = "streaming"
<1>2. u \in TabState /\ BusyWithTurn(u) /\ streamed \in BOOLEAN
  BY <1>1, RestedTypes
<1>3. /\ BecomesAnd(t, u, streamed) /\ Moves(tab[t].turn, "ended")
      /\ server' = server \/ Stored(tab[t].turn)
      /\ UNCHANGED channel /\ failures' = failures + 1
  BY DEF TurnFails, Moves
<1> HIDE DEF u, streamed
<1>4. TabsTyped'
  BY <1>1, <1>2, <1>3, BecomesAndTypes
<1>5. sent' \in [TurnIds -> SentTurn] /\ server' \in SavedRow
  BY <1>1, <1>3, MovesTypes, StoredTypes DEF BusyWithTurn
<1> QED
  BY <1>1, <1>3, <1>4, <1>5 DEF CrossTabTypeOK, TabsTyped, BusyWithTurn

LEMMA DeleteTypes ==
  ASSUME CrossTabTypeOK, NEW t \in Viewers, DeleteStep(t)
  PROVE  CrossTabTypeOK' /\ (DeleteHere(t) => server'.born # 0)
<1>1. /\ TabsTyped /\ sent \in [TurnIds -> SentTurn] /\ server \in SavedRow
      /\ channel \in [Viewers -> Seq(Events)] /\ failures \in Nat
      /\ deleting \in [Viewers -> {"no", "stored", "lost"}]
  BY TypesAre DEF Types
<1>2. deleting' \in [Viewers -> {"no", "stored", "lost"}]
  BY <1>1 DEF DeleteStep, DeleteHere, DeleteSucceeds, DeleteFails
<1>3. CASE DeleteHere(t)
  <2>1. server.born + 1 \in Nat /\ server.born + 1 # 0
    BY <1>1 DEF SavedRow
  <2>2. server' = [Gone EXCEPT !.born = server.born + 1] /\ UNCHANGED <<tab, sent, channel, failures>>
    BY <1>3 DEF DeleteHere
  <2>3. server' \in SavedRow /\ server'.born # 0
    BY <2>1, <2>2, RowTypes DEF SavedRow
  <2> QED
    BY <1>1, <1>2, <2>2, <2>3 DEF CrossTabTypeOK, TabsTyped, BusyWithTurn
<1>4. CASE DeleteSucceeds(t)
  <2>1. sent' \in [TurnIds -> SentTurn]
    BY <1>1, <1>4, AbortTypes DEF DeleteSucceeds
  <2>2. Left \in TabState /\ BusyWithTurn(Left)
    BY LeftType, CrossTabAssumption DEF BusyWithTurn, TurnIds
  <2>3. tab' = [tab EXCEPT ![t] = Left] /\ UNCHANGED <<server, failures>>
    BY <1>4 DEF DeleteSucceeds
  <2>4. tab' \in [Viewers -> TabState] /\ \A v \in Viewers : BusyWithTurn(tab'[v])
    BY <1>1, <2>2, <2>3 DEF TabsTyped
  <2>5. channel' \in [Viewers -> Seq(Events)]
    <3>1. \A v \in Viewers : channel[v] \o <<"conversation-deleted", "list-changed">> \in Seq(Events)
      BY <1>1, TwoMore DEF Events
    <3>2. <<>> \in Seq(Events)
      OBVIOUS
    <3> QED
      BY <1>1, <1>4, <3>1, <3>2 DEF DeleteSucceeds
  <2>6. ~DeleteHere(t)
    BY <1>4 DEF DeleteSucceeds, DeleteHere
  <2> QED
    BY <1>1, <1>2, <2>1, <2>3, <2>4, <2>5, <2>6 DEF CrossTabTypeOK, BusyWithTurn
<1>5. CASE DeleteFails(t)
  <2>1. failures' \in Nat /\ UNCHANGED <<server, tab, sent, channel>> /\ ~DeleteHere(t)
    BY <1>1, <1>5 DEF DeleteFails, DeleteHere
  <2> QED
    BY <1>1, <1>2, <2>1 DEF CrossTabTypeOK, TabsTyped, BusyWithTurn
<1> QED
  BY <1>3, <1>4, <1>5 DEF DeleteStep

LEMMA ReceiveTypes ==
  ASSUME CrossTabTypeOK, UNCHANGED deleting, NEW t \in Viewers, Receive(t)
  PROVE  /\ CrossTabTypeOK'
         /\ Head(channel[t]) \in Events
         /\ LET event == Head(channel[t])
                s == [Handle(tab[t], event) EXCEPT !.unheard = StillUnheard(tab[t], event)]
            IN  s \in TabState /\ BusyWithTurn(s) /\ Becomes(t, s)
<1>1. /\ tab[t] \in TabState /\ BusyWithTurn(tab[t]) /\ TabsTyped
      /\ channel \in [Viewers -> Seq(Events)] /\ channel[t] # <<>>
  BY TypesAre DEF Types, TabsTyped, Receive
<1>2. Head(channel[t]) \in Events /\ Tail(channel[t]) \in Seq(Events)
  BY <1>1, OneLess
<1> DEFINE event == Head(channel[t])
           s == [Handle(tab[t], event) EXCEPT !.unheard = StillUnheard(tab[t], event)]
<1>3. s \in TabState /\ BusyWithTurn(s)
  BY <1>1, <1>2, HandleTypes
<1>4. Becomes(t, s)
  BY DEF Receive
<1> HIDE DEF s
<1>5. TabsTyped'
  BY <1>1, <1>3, <1>4, BecomesTypes
<1>6. channel' \in [Viewers -> Seq(Events)]
  BY <1>1, <1>2 DEF Receive
<1> QED
  BY <1>2, <1>3, <1>4, <1>5, <1>6 DEF CrossTabTypeOK, TabsTyped, BusyWithTurn, Receive, s

LEMMA TypesStep == CrossTabTypeOK /\ [CrossTabNext]_tabVars => CrossTabTypeOK'
<1> SUFFICES ASSUME CrossTabTypeOK, [CrossTabNext]_tabVars PROVE CrossTabTypeOK'
  OBVIOUS
<1>1. failures \in Nat
  BY DEF CrossTabTypeOK
<1>2. ASSUME UNCHANGED deleting, NEW t \in Viewers, NEW s, ByItself(t, s), failures' \in Nat
      PROVE  CrossTabTypeOK'
  BY <1>2, ByItselfTypes
<1>3. ASSUME UNCHANGED deleting, NEW t \in Viewers, Act(t) PROVE CrossTabTypeOK'
  BY <1>1, <1>2, <1>3, ActTypes
<1>4. ASSUME UNCHANGED deleting, NEW t \in Viewers, MessageActionFails(t) PROVE CrossTabTypeOK'
  BY <1>1, <1>2, <1>4, MessageActionFailsTypes
<1>5. ASSUME UNCHANGED deleting, NEW t \in Viewers, OpenEditor(t) \/ CloseEditor(t) PROVE CrossTabTypeOK'
  BY <1>1, <1>2, <1>5, EditorTypes
<1>6. ASSUME UNCHANGED deleting, NEW t \in Viewers, CacheStep(t) PROVE CrossTabTypeOK'
  BY <1>1, <1>2, <1>6, CacheTypes
<1>7. ASSUME UNCHANGED deleting, NEW t \in Viewers, RefetchFails(t) PROVE CrossTabTypeOK'
  BY <1>2, <1>7, RefetchFailsTypes
<1>8. CASE UNCHANGED tabVars
  BY <1>8 DEF tabVars, CrossTabTypeOK
<1> QED
  BY <1>3, <1>4, <1>5, <1>6, <1>7, <1>8, StopTypes, LeaveTypes, PassGateTypes, TurnStepTypes,
     FinishTypes, RefusedTypes, FailsTypes, DeleteTypes, ReceiveTypes DEF CrossTabNext

(* Every variable keeps its type, and a tab is busy exactly while it has a *)
(* turn.                                                                   *)
THEOREM CrossTabTypes == CrossTabSpec => []CrossTabTypeOK
<1> QED
  BY InitTypes, TypesStep, PTL DEF CrossTabSpec

-----------------------------------------------------------------------------
(***************************************************************************)
(* News in a channel                                                       *)
(***************************************************************************)
Holds(c, event) == \E i \in DOMAIN c : c[i] = event

UpdatesPaired(c) ==
  \A i \in DOMAIN c : c[i] = "conversation-updated" =>
    \E j \in DOMAIN c : j > i /\ c[j] = "list-changed"

LEMMA NewsPosted ==
  ASSUME NEW c \in Seq(Events), NEW a \in Events, NEW b \in Events
  PROVE  /\ Holds(c \o <<a, b>>, a) /\ Holds(c \o <<a, b>>, b)
         /\ \A event : Holds(c, event) => Holds(c \o <<a, b>>, event)
         /\ b = "list-changed" /\ UpdatesPaired(c) => UpdatesPaired(c \o <<a, b>>)
<1> DEFINE k == Len(c)
           d == c \o <<a, b>>
<1>1. /\ DOMAIN d = 1 .. k + 2 /\ \A i \in 1 .. k : d[i] = c[i]
      /\ d[k + 1] = a /\ d[k + 2] = b /\ k \in Nat /\ DOMAIN c = 1 .. k
  BY TwoMore
<1> HIDE DEF k, d
<1>2. k + 1 \in 1 .. k + 2 /\ k + 2 \in 1 .. k + 2
  BY <1>1
<1>3. Holds(d, a) /\ Holds(d, b)
  BY <1>1, <1>2 DEF Holds
<1>4. ASSUME NEW event, Holds(c, event) PROVE Holds(d, event)
  <2>1. PICK i \in 1 .. k : c[i] = event
    BY <1>1, <1>4 DEF Holds
  <2>2. i \in 1 .. k + 2 /\ d[i] = event
    BY <1>1, <2>1
  <2> QED
    BY <1>1, <2>2 DEF Holds
<1>5. ASSUME b = "list-changed", UpdatesPaired(c) PROVE UpdatesPaired(d)
  <2> SUFFICES ASSUME NEW i \in 1 .. k + 2, d[i] = "conversation-updated"
               PROVE  \E j \in 1 .. k + 2 : j > i /\ d[j] = "list-changed"
    BY <1>1 DEF UpdatesPaired
  <2>1. i # k + 2
    BY <1>1, <1>5
  <2>2. k + 2 > i
    BY <1>1, <2>1
  <2> QED
    BY <1>1, <1>2, <1>5, <2>2
<1> QED
  BY <1>3, <1>4, <1>5 DEF d

LEMMA NewsHandled ==
  ASSUME NEW c \in Seq(Events), c # <<>>
  PROVE  /\ \A event : Holds(c, event) /\ Head(c) # event => Holds(Tail(c), event)
         /\ UpdatesPaired(c) => /\ UpdatesPaired(Tail(c))
                                /\ Head(c) = "conversation-updated" => Holds(Tail(c), "list-changed")
<1> DEFINE k == Len(c)
           d == Tail(c)
<1>1. /\ DOMAIN d = 1 .. k - 1 /\ \A i \in 1 .. k - 1 : d[i] = c[i + 1]
      /\ Head(c) = c[1] /\ k \in Nat /\ k >= 1 /\ DOMAIN c = 1 .. k
  BY OneLess
<1> HIDE DEF k, d
<1>2. \A i \in 1 .. k : i > 1 => i - 1 \in 1 .. k - 1 /\ d[i - 1] = c[i]
  <2> TAKE i \in 1 .. k
  <2> HAVE i > 1
  <2>1. i - 1 \in 1 .. k - 1 /\ i - 1 + 1 = i
    BY <1>1
  <2> QED
    BY <1>1, <2>1
<1>3. ASSUME NEW event, Holds(c, event), Head(c) # event PROVE Holds(d, event)
  <2>1. PICK i \in 1 .. k : c[i] = event
    BY <1>1, <1>3 DEF Holds
  <2>2. i > 1
    BY <1>1, <1>3, <2>1
  <2> QED
    BY <1>1, <1>2, <2>1, <2>2 DEF Holds
<1>4. ASSUME UpdatesPaired(c) PROVE UpdatesPaired(d)
  <2> SUFFICES ASSUME NEW i \in 1 .. k - 1, d[i] = "conversation-updated"
               PROVE  \E j \in 1 .. k - 1 : j > i /\ d[j] = "list-changed"
    BY <1>1 DEF UpdatesPaired
  <2>1. i + 1 \in 1 .. k /\ c[i + 1] = "conversation-updated"
    BY <1>1
  <2>2. PICK j \in 1 .. k : j > i + 1 /\ c[j] = "list-changed"
    BY <1>1, <1>4, <2>1 DEF UpdatesPaired
  <2>3. j - 1 \in 1 .. k - 1 /\ d[j - 1] = "list-changed" /\ j - 1 > i
    BY <1>1, <1>2, <2>2
  <2> QED
    BY <2>3
<1>5. ASSUME UpdatesPaired(c), Head(c) = "conversation-updated" PROVE Holds(d, "list-changed")
  <2>1. 1 \in 1 .. k
    BY <1>1
  <2>2. PICK j \in 1 .. k : j > 1 /\ c[j] = "list-changed"
    BY <1>1, <1>5, <2>1 DEF UpdatesPaired
  <2> QED
    BY <1>1, <1>2, <2>2 DEF Holds
<1> QED
  BY <1>3, <1>4, <1>5 DEF d

-----------------------------------------------------------------------------
(***************************************************************************)
(* What a tab knows of a row, with the row as a parameter                  *)
(***************************************************************************)
KnownOf(stored, row) ==
  row.revision <= stored.revision /\ (row.revision = stored.revision => row = stored)

KnowsOf(stored, s) ==
  /\ s.applied \in 1 .. stored.revision
  /\ s.list.data.revision \in 1 .. stored.revision
  /\ s.list.fetch = "answered" => s.list.answer.revision \in 1 .. stored.revision
  /\ KnownOf(stored, s.detail.data)
  /\ s.detail.fetch = "answered" => KnownOf(stored, s.detail.answer)

ShowsOf(stored, s) ==
  s.applied = stored.revision =>
    /\ Range(stored.log) \subseteq Range(s.shown) \cup s.redone
    /\ s.phase # "busy" /\ ~s.strayed => s.shown = stored.log

Settled(stored, s) == Synced(s) = s /\ KnowsOf(stored, s) /\ ShowsOf(stored, s)

(* Adopting a detail keeps what is known, and is done once.                *)
LEMMA SyncedSettles ==
  ASSUME NEW stored \in SavedRow, NEW s \in TabState, KnowsOf(stored, s), ShowsOf(stored, s)
  PROVE  Settled(stored, Synced(s)) /\ (s.phase = "busy" => Synced(s) = s)
<1> DEFINE Adopts == /\ s.view = "open" /\ s.phase # "busy" /\ ~s.editing
                     /\ s.detail.data.revision > s.applied
<1>1. CASE ~Adopts
  <2>1. Synced(s) = s
    BY <1>1 DEF Synced
  <2> QED
    BY <2>1 DEF Settled
<1>2. CASE Adopts
  <2> DEFINE row == s.detail.data
             u == [s EXCEPT !.applied = row.revision, !.shown = row.log,
                            !.redone = {}, !.strayed = FALSE]
  <2>1. Synced(s) = u
    BY <1>2 DEF Synced
  <2>2. row \in SavedRow
    BY DEF TabState, Query
  <2>3. /\ u.applied = row.revision /\ u.shown = row.log /\ u.redone = {}
        /\ u.detail = s.detail /\ u.list = s.list
    BY DEF TabState
  <2>4. row.revision \in Nat /\ stored.revision \in Nat /\ row.revision > s.applied
        /\ s.applied \in 1 .. stored.revision /\ KnownOf(stored, row)
    BY <1>2, <2>2 DEF SavedRow, KnowsOf
  <2>5. row.revision \in 1 .. stored.revision /\ (row.revision = stored.revision => row = stored)
    BY <2>4 DEF KnownOf
  <2> HIDE DEF row, u
  <2>6. KnowsOf(stored, u)
    BY <2>3, <2>5 DEF KnowsOf
  <2>7. ShowsOf(stored, u)
    BY <2>3, <2>5 DEF ShowsOf
  <2>8. Synced(u) = u
    <3>1. u.detail.data = row
      BY <2>3 DEF row
    <3>2. ~(u.detail.data.revision > u.applied)
      BY <2>3, <2>4, <3>1
    <3> QED
      BY <3>2 DEF Synced
  <2> QED
    BY <1>2, <2>1, <2>6, <2>7, <2>8 DEF Settled
<1> QED
  BY <1>1, <1>2

LEMMA GrowthSettles ==
  ASSUME NEW old \in SavedRow, NEW new \in SavedRow, Grows(old, new),
         NEW s \in TabState, Settled(old, s)
  PROVE  Settled(new, s)
<1>1. CASE new = old
  BY <1>1
<1>2. CASE new.revision = old.revision + 1
  <2>1. old.revision \in Nat /\ new.revision \in Nat
    BY DEF SavedRow
  <2>2. \A row \in SavedRow : KnownOf(old, row) => KnownOf(new, row)
    <3>1. \A row \in SavedRow : row.revision \in Nat
      BY DEF SavedRow
    <3> QED
      BY <1>2, <2>1, <3>1 DEF KnownOf
  <2>3. KnowsOf(new, s)
    <3>1. s.detail.data \in SavedRow /\ s.detail.answer \in SavedRow
      BY DEF TabState, Query
    <3> QED
      BY <1>2, <2>1, <2>2, <3>1 DEF Settled, KnowsOf
  <2>4. s.applied # new.revision
    BY <1>2, <2>1 DEF Settled, KnowsOf
  <2> QED
    BY <2>3, <2>4 DEF Settled, ShowsOf
<1> QED
  BY <1>1, <1>2 DEF Grows

LEMMA UnheardSettles ==
  ASSUME NEW stored, NEW s \in TabState, Settled(stored, s)
  PROVE  Settled(stored, [s EXCEPT !.unheard = TRUE])
<1> DEFINE u == [s EXCEPT !.unheard = TRUE]
<1>1. /\ u.view = s.view /\ u.phase = s.phase /\ u.editing = s.editing /\ u.detail = s.detail
      /\ u.list = s.list /\ u.applied = s.applied /\ u.shown = s.shown /\ u.redone = s.redone
      /\ u.strayed = s.strayed /\ u \in TabState
  BY DEF TabState
<1> HIDE DEF u
<1>2. KnowsOf(stored, u) /\ ShowsOf(stored, u)
  BY <1>1 DEF Settled, KnowsOf, ShowsOf
<1>3. Synced(u) = u
  <2>1. CASE /\ s.view = "open" /\ s.phase # "busy" /\ ~s.editing
             /\ s.detail.data.revision > s.applied
    <3>1. Synced(s).applied = s.detail.data.revision
      BY <2>1 DEF Synced, TabState
    <3>2. FALSE
      <4>1. s.detail.data.revision \in Nat /\ s.applied \in Nat
        BY DEF TabState, Query, SavedRow
      <4> QED
        BY <2>1, <3>1, <4>1 DEF Settled
    <3> QED
      BY <3>2
  <2>2. CASE ~(/\ s.view = "open" /\ s.phase # "busy" /\ ~s.editing
               /\ s.detail.data.revision > s.applied)
    BY <1>1, <2>2 DEF Synced
  <2> QED
    BY <2>1, <2>2
<1> QED
  BY <1>2, <1>3 DEF Settled, u

-----------------------------------------------------------------------------
(***************************************************************************)
(* The invariant, tab by tab and turn by turn                              *)
(***************************************************************************)
(* A turn the server took is ahead of the tab that had adopted `applied'.  *)
Ahead(applied, stored, turn) ==
  /\ turn.at = "streaming" => applied <= turn.base
  /\ turn.at = "saved" => applied < stored.revision

FreshOf(stored, query) ==
  \/ query.fetch = "asked"
  \/ query.fetch = "answered" /\ query.answer.revision = stored.revision
  \/ query.fetch = "idle" /\ query.data.revision = stored.revision

HearsOfList(t)   == FreshOf(server, tab[t].list) \/ Holds(channel[t], "list-changed") \/ SomeUntold
HearsOfDetail(t) == FreshOf(server, tab[t].detail) \/ Holds(channel[t], "conversation-updated") \/ SomeUntold

TabHolds(t) ==
  tab[t].view # "left" =>
    /\ Settled(server, tab[t])
    /\ tab[t].phase = "busy" => Ahead(tab[t].applied, server, sent[tab[t].turn])
    /\ ~tab[t].unheard => HearsOfList(t) /\ HearsOfDetail(t)

KeepsOf(stored, turn) ==
  turn.at \in {"posted", "streaming", "aborting"} =>
    /\ turn.base \in 1 .. stored.revision
    /\ turn.agreed /\ turn.base = stored.revision =>
         Range(stored.log) \subseteq Range(turn.log) \cup turn.drops

Before == /\ server.revision >= 1
          /\ \A n \in TurnIds : KeepsOf(server, sent[n])
          /\ \A t \in Viewers : TabHolds(t)

NewsHeld == /\ server.born # 0 /\ ~DeletionUntold => \A t \in Viewers : tab[t].view = "open" => Holds(channel[t], "conversation-deleted")
            /\ \A t \in Viewers : UpdatesPaired(channel[t]) /\ (tab[t].view = "left" => channel[t] = <<>>)

LEMMA TabsInvIs == TabsInv <=> NewsHeld /\ (DeletionUntold => server.born # 0) /\ (server.born = 0 => Before)
<1>1. \A t : Hears(t) <=> (~tab[t].unheard => HearsOfList(t) /\ HearsOfDetail(t))
  BY DEF Hears, Fresh, FreshOf, HearsOfList, HearsOfDetail, Awaits, Holds
<1>2. \A s : KnowsRows(s) /\ ShowsStored(s) <=> KnowsOf(server, s) /\ ShowsOf(server, s)
  BY DEF KnowsRows, KnowsOf, ShowsStored, ShowsOf, Known, KnownOf
<1>3. \A s : Overtakes(s) <=> (s.phase = "busy" => Ahead(s.applied, server, sent[s.turn]))
  BY DEF Overtakes, Ahead
<1>4. \A n : SentKeeps(n) <=> KeepsOf(server, sent[n])
  BY DEF SentKeeps, KeepsOf
<1>5. \A t : TabHolds(t) <=> (tab[t].view # "left" =>
               /\ Synced(tab[t]) = tab[t]
               /\ KnowsRows(tab[t]) /\ ShowsStored(tab[t]) /\ Overtakes(tab[t]) /\ Hears(t))
  BY <1>1, <1>2, <1>3 DEF TabHolds, Settled
<1>6. BeforeDeletion <=> Before
  BY <1>4, <1>5 DEF BeforeDeletion, Before
<1>7. NewsHeld <=> DeletionHeard /\ \A t \in Viewers : Paired(t) /\ Deaf(t)
  BY DEF NewsHeld, DeletionHeard, Awaits, Holds, Paired, UpdatesPaired, Deaf
<1> QED
  BY <1>6, <1>7 DEF TabsInv

(* What a step must not do to the tabs it leaves alone.                    *)
AheadKept(n) ==
  \A applied \in 1 .. server.revision :
    Ahead(applied, server, sent[n]) => Ahead(applied, server', sent'[n])

NewsKept(v) ==
  \/ /\ server' = server
     /\ \A event : Holds(channel[v], event) => Holds(channel'[v], event)
     /\ SomeUntold => SomeUntold'
  \/ SomeUntold'
  \/ Holds(channel'[v], "list-changed") /\ Holds(channel'[v], "conversation-updated")

LEMMA OtherTab ==
  ASSUME server \in SavedRow, server' \in SavedRow, Grows(server, server'),
         NEW v \in Viewers, tab[v] \in TabState, BusyWithTurn(tab[v]), TabHolds(v),
         \A n \in TurnIds : AheadKept(n),
         \/ tab[v].view # "left" /\ tab'[v] = [tab[v] EXCEPT !.unheard = TRUE]
         \/ tab'[v] = tab[v] /\ NewsKept(v)
         \/ tab'[v] = tab[v] /\ tab[v].view = "left"
  PROVE  TabHolds(v)'
<1> SUFFICES ASSUME tab'[v].view # "left" PROVE TabHolds(v)'
  BY DEF TabHolds
<1> DEFINE s == tab[v]
<1>1. s.view # "left" /\ Settled(server, s) /\ Settled(server', s)
  <2>1. s.view # "left"
    BY DEF TabState
  <2> QED
    BY <2>1, GrowthSettles DEF TabHolds
<1>2. s.phase = "busy" => Ahead(s.applied, server', sent'[s.turn])
  <2> HAVE s.phase = "busy"
  <2>1. s.turn \in TurnIds /\ s.applied \in 1 .. server.revision
    BY <1>1 DEF BusyWithTurn, Settled, KnowsOf
  <2>2. Ahead(s.applied, server, sent[s.turn])
    BY <1>1 DEF TabHolds
  <2> QED
    BY <2>1, <2>2 DEF AheadKept
<1>3. CASE tab'[v] = [s EXCEPT !.unheard = TRUE]
  <2> DEFINE u == [s EXCEPT !.unheard = TRUE]
  <2>1. Settled(server', u)
    BY <1>1, UnheardSettles
  <2>2. u.phase = s.phase /\ u.applied = s.applied /\ u.turn = s.turn /\ u.unheard = TRUE
    BY DEF TabState
  <2> HIDE DEF u
  <2>3. tab'[v] = u
    BY <1>3 DEF u
  <2> QED
    BY <1>2, <2>1, <2>2, <2>3 DEF TabHolds
<1>4. CASE tab'[v] = s /\ NewsKept(v)
  <2>1. ~s.unheard => HearsOfList(v)' /\ HearsOfDetail(v)'
    <3> HAVE ~s.unheard
    <3>1. HearsOfList(v) /\ HearsOfDetail(v)
      BY <1>1 DEF TabHolds
    <3> QED
      BY <1>4, <3>1 DEF NewsKept, HearsOfList, HearsOfDetail
  <2> QED
    BY <1>1, <1>2, <1>4, <2>1 DEF TabHolds
<1> QED
  BY <1>1, <1>3, <1>4

(* What a step owes the tab it changes.                                    *)
LEMMA ThisTab ==
  ASSUME server' \in SavedRow, NEW t \in Viewers, NEW s \in TabState,
         tab'[t] = Synced(s) \/ tab'[t] = [Synced(s) EXCEPT !.unheard = TRUE],
         KnowsOf(server', s), ShowsOf(server', s),
         s.phase = "busy" => Ahead(s.applied, server', sent'[s.turn]),
         ~s.unheard =>
           /\ FreshOf(server', s.list) \/ Holds(channel'[t], "list-changed") \/ SomeUntold'
           /\ FreshOf(server', s.detail) \/ Holds(channel'[t], "conversation-updated") \/ SomeUntold'
  PROVE  TabHolds(t)'
<1> DEFINE z == Synced(s)
<1>1. /\ z \in TabState /\ z.phase = s.phase /\ z.turn = s.turn /\ z.list = s.list
      /\ z.detail = s.detail /\ z.unheard = s.unheard
  BY SyncedTypes
<1>2. Settled(server', z) /\ (s.phase = "busy" => z = s)
  BY SyncedSettles
<1> HIDE DEF z
<1>3. CASE tab'[t] = z
  <2>1. z.phase = "busy" => Ahead(z.applied, server', sent'[z.turn])
    BY <1>1, <1>2
  <2>2. ~z.unheard => HearsOfList(t)' /\ HearsOfDetail(t)'
    BY <1>1, <1>3 DEF HearsOfList, HearsOfDetail
  <2> QED
    BY <1>2, <1>3, <2>1, <2>2 DEF TabHolds
<1>4. CASE tab'[t] = [z EXCEPT !.unheard = TRUE]
  <2> DEFINE u == [z EXCEPT !.unheard = TRUE]
  <2>1. Settled(server', u)
    BY <1>1, <1>2, UnheardSettles
  <2>2. u.phase = z.phase /\ u.applied = z.applied /\ u.turn = z.turn /\ u.unheard = TRUE
    BY <1>1 DEF TabState
  <2>3. tab'[t] = u
    BY <1>4
  <2> HIDE DEF u
  <2>4. u.phase = "busy" => Ahead(u.applied, server', sent'[u.turn])
    BY <1>1, <1>2, <2>2
  <2> QED
    BY <2>1, <2>2, <2>3, <2>4 DEF TabHolds
<1> QED
  BY <1>3, <1>4 DEF z

Inv == CrossTabTypeOK /\ NewsHeld /\ (server.born = 0 => Before)

LEMMA InvGives ==
  ASSUME Inv, NEW v \in Viewers
  PROVE  /\ server \in SavedRow /\ sent \in [TurnIds -> SentTurn] /\ tab[v] \in TabState
         /\ BusyWithTurn(tab[v]) /\ channel[v] \in Seq(Events) /\ TabsTyped
         /\ channel \in [Viewers -> Seq(Events)] /\ tab \in [Viewers -> TabState]
         /\ server.born = 0 => TabHolds(v)
BY TypesAre DEF Inv, Types, TabsTyped, Before

(* News are kept when no tab opens and every channel of an open tab still  *)
(* holds what it held.                                                     *)
LEMMA NewsKeptHeld ==
  ASSUME NewsHeld, server'.born = server.born, UNCHANGED deleting,
         \A v \in Viewers : tab'[v].view = "open" =>
            tab[v].view = "open" /\ (Holds(channel[v], "conversation-deleted") => Holds(channel'[v], "conversation-deleted")),
         \A v \in Viewers : UpdatesPaired(channel'[v]) /\ (tab'[v].view = "left" => channel'[v] = <<>>)
  PROVE  NewsHeld'
BY DEF NewsHeld, DeletionUntold

(* The steps of a tab by itself.                                           *)
LEMMA ByItselfHolds ==
  ASSUME Inv, UNCHANGED deleting, NEW t \in Viewers, NEW s, ByItself(t, s), s.view = tab[t].view,
         Before /\ s.view # "left" =>
                   /\ KnowsOf(server, s) /\ ShowsOf(server, s)
                   /\ s.phase = "busy" => tab[t].phase = "busy" /\ s.turn = tab[t].turn /\ s.applied = tab[t].applied
                   /\ ~s.unheard => ~tab[t].unheard
                   /\ ~s.unheard /\ FreshOf(server, tab[t].list) => FreshOf(server, s.list)
                   /\ ~s.unheard /\ FreshOf(server, tab[t].detail) => FreshOf(server, s.detail)
  PROVE  NewsHeld' /\ (server'.born = 0 => Before')
<1>1. server \in SavedRow /\ tab[t] \in TabState /\ TabsTyped
  BY InvGives
<1>2. /\ s \in TabState /\ BusyWithTurn(s) /\ Becomes(t, s)
      /\ server' = server /\ sent' = sent /\ channel' = channel
  BY DEF ByItself
<1>3. tab'[t] = Synced(s) /\ \A v \in Viewers \ {t} : tab'[v] = tab[v]
  BY <1>1, <1>2, BecomesTypes
<1>4. NewsHeld'
  <2>1. \A v \in Viewers : tab'[v].view = tab[v].view
    BY <1>2, <1>3, SyncedTypes
  <2> QED
    BY <1>2, <2>1, NewsKeptHeld DEF Inv, NewsHeld
<1>5. ASSUME server'.born = 0 PROVE Before'
  <2>1. Before
    BY <1>2, <1>5 DEF Inv
  <2>2. SomeUntold' <=> SomeUntold
    BY <1>2 DEF SomeUntold
  <2>3. TabHolds(t)'
    <3>0. CASE s.view = "left"
      BY <1>2, <1>3, <3>0, SyncedTypes DEF TabHolds
    <3> SUFFICES ASSUME s.view # "left" PROVE TabHolds(t)'
      BY <3>0
    <3>1. TabHolds(t)
      BY <2>1 DEF Before
    <3>2. s.phase = "busy" => Ahead(s.applied, server', sent'[s.turn])
      BY <1>2, <2>1, <3>1 DEF TabHolds
    <3>3. ~s.unheard => /\ FreshOf(server', s.list) \/ Holds(channel'[t], "list-changed") \/ SomeUntold'
                        /\ FreshOf(server', s.detail) \/ Holds(channel'[t], "conversation-updated") \/ SomeUntold'
      BY <1>2, <2>1, <2>2, <3>1 DEF TabHolds, HearsOfList, HearsOfDetail
    <3> QED
      BY <1>1, <1>2, <1>3, <2>1, <3>2, <3>3, ThisTab
  <2>4. ASSUME NEW v \in Viewers \ {t} PROVE TabHolds(v)'
    <3>1. TabHolds(v) /\ tab'[v] = tab[v] /\ tab[v] \in TabState /\ BusyWithTurn(tab[v])
      BY <1>3, <2>1, InvGives DEF Before
    <3>2. NewsKept(v) /\ \A n \in TurnIds : AheadKept(n)
      BY <1>2, <2>2 DEF NewsKept, AheadKept
    <3> QED
      BY <1>1, <1>2, <3>1, <3>2, OtherTab DEF Grows
  <2> QED
    BY <1>2, <2>1, <2>3, <2>4 DEF Before
<1> QED
  BY <1>4, <1>5

(* A tab that only changes what it is about to do sees what it saw.        *)
SameSight(s, u) ==
  /\ u.view = s.view /\ u.list = s.list /\ u.detail = s.detail /\ u.applied = s.applied
  /\ u.shown = s.shown /\ u.redone = s.redone /\ u.strayed = s.strayed /\ u.unheard = s.unheard
  /\ u.turn = s.turn /\ (u.phase = "busy" <=> s.phase = "busy")

LEMMA SameSightSees ==
  ASSUME NEW s, NEW u, SameSight(s, u), NEW stored, Settled(stored, s)
  PROVE  KnowsOf(stored, u) /\ ShowsOf(stored, u)
<1>1. KnowsOf(stored, u)
  BY DEF SameSight, Settled, KnowsOf
<1>2. ShowsOf(stored, u)
  BY DEF SameSight, Settled, ShowsOf
<1> QED
  BY <1>1, <1>2

LEMMA SameSightHolds ==
  ASSUME Inv, UNCHANGED deleting, NEW t \in Viewers, NEW s, ByItself(t, s), SameSight(tab[t], s), tab[t].view # "left"
  PROVE  NewsHeld' /\ (server'.born = 0 => Before')
<1>1. s.view = tab[t].view /\ s.view # "left"
  BY DEF SameSight
<1>2. Before => /\ KnowsOf(server, s) /\ ShowsOf(server, s)
  <2> HAVE Before
  <2>1. Settled(server, tab[t])
    BY DEF Before, TabHolds
  <2> QED
    BY <2>1, SameSightSees
<1>3. /\ s.phase = "busy" => tab[t].phase = "busy" /\ s.turn = tab[t].turn /\ s.applied = tab[t].applied
      /\ ~s.unheard => ~tab[t].unheard
      /\ ~s.unheard /\ FreshOf(server, tab[t].list) => FreshOf(server, s.list)
      /\ ~s.unheard /\ FreshOf(server, tab[t].detail) => FreshOf(server, s.detail)
  BY DEF SameSight
<1> QED
  BY <1>1, <1>2, <1>3, ByItselfHolds

LEMMA ActHolds ==
  ASSUME Inv, UNCHANGED deleting, NEW t \in Viewers, Act(t)
  PROVE  NewsHeld' /\ (server'.born = 0 => Before')
<1>1. tab[t] \in TabState
  BY InvGives
<1> DEFINE a == [tab[t] EXCEPT !.phase = "gated", !.intent = "send"]
           b == [tab[t] EXCEPT !.phase = "gated", !.intent = "redo",
                               !.target = Last(tab[t].shown), !.editing = FALSE]
<1>2. tab[t].phase = "ready" => SameSight(tab[t], a) /\ SameSight(tab[t], b)
  BY <1>1 DEF TabState, SameSight
<1>3. tab[t].view # "left" /\ tab[t].phase = "ready" /\ (ByItself(t, a) \/ ByItself(t, b))
  BY ActTypes DEF Inv
<1> HIDE DEF a, b
<1> QED
  BY <1>2, <1>3, SameSightHolds

LEMMA MessageActionFailsHolds ==
  ASSUME Inv, UNCHANGED deleting, NEW t \in Viewers, MessageActionFails(t)
  PROVE  NewsHeld' /\ (server'.born = 0 => Before')
<1>1. tab[t] \in TabState
  BY InvGives
<1> DEFINE a == [tab[t] EXCEPT !.phase = "ready", !.target = 0, !.intent = "send"]
<1>2. tab[t].view # "left" /\ tab[t].phase = "gated" /\ ByItself(t, a)
  BY MessageActionFailsTypes DEF Inv
<1>3. SameSight(tab[t], a)
  BY <1>1, <1>2 DEF TabState, SameSight
<1> HIDE DEF a
<1> QED
  BY <1>2, <1>3, SameSightHolds

LEMMA EditorHolds ==
  ASSUME Inv, UNCHANGED deleting, NEW t \in Viewers, OpenEditor(t) \/ CloseEditor(t)
  PROVE  NewsHeld' /\ (server'.born = 0 => Before')
<1>1. tab[t] \in TabState
  BY InvGives
<1>2. tab[t].view = "open" /\ \E editing \in BOOLEAN : ByItself(t, [tab[t] EXCEPT !.editing = editing])
  BY EditorTypes DEF Inv
<1>3. \A editing \in BOOLEAN : SameSight(tab[t], [tab[t] EXCEPT !.editing = editing])
  BY <1>1 DEF TabState, SameSight
<1> QED
  BY <1>2, <1>3, SameSightHolds

(* A refetch brings a row that the server had, as late as it was asked.    *)
LEMMA QueryMovesKnows ==
  ASSUME server \in SavedRow, server.revision >= 1, NEW old \in Query, NEW new, QueryMoves(old, new)
  PROVE  /\ FreshOf(server, old) => FreshOf(server, new)
         /\ /\ old.data.revision \in 1 .. server.revision
            /\ old.fetch = "answered" => old.answer.revision \in 1 .. server.revision
            => /\ new.data.revision \in 1 .. server.revision
               /\ new.fetch = "answered" => new.answer.revision \in 1 .. server.revision
         /\ /\ new = Loaded(old.answer) \/ new = Answered(old)
            /\ KnownOf(server, old.data)
            /\ old.fetch = "answered" => KnownOf(server, old.answer)
            => /\ KnownOf(server, new.data)
               /\ new.fetch = "answered" => KnownOf(server, new.answer)
<1>1. server.revision \in Nat /\ server.revision \in 1 .. server.revision /\ KnownOf(server, server)
  BY DEF SavedRow, KnownOf
<1>2. CASE old.fetch = "asked" /\ new = Answered(old)
  <2>1. new.fetch = "answered" /\ new.answer = server /\ new.data = old.data
    BY <1>2 DEF Answered, Query
  <2> QED
    BY <1>1, <2>1 DEF FreshOf
<1>3. CASE old.fetch = "answered" /\ new = Loaded(old.answer)
  <2>1. new.fetch = "idle" /\ new.data = old.answer
    BY <1>3 DEF Loaded
  <2> QED
    BY <1>3, <2>1 DEF FreshOf
<1>4. CASE old.fetch = "answered" /\ new = Loaded([old.answer EXCEPT !.log = <<>>])
  <2>1. old.answer \in SavedRow
    BY DEF Query
  <2>2. new.fetch = "idle" /\ new.data = [old.answer EXCEPT !.log = <<>>]
    BY <1>4 DEF Loaded
  <2>3. new.data.revision = old.answer.revision
    BY <2>1, <2>2 DEF SavedRow
  <2>4. new = Loaded(old.answer) \/ new = Answered(old) => new.data = old.answer
    BY <1>4, <2>2 DEF Loaded, Answered, Query
  <2> QED
    BY <1>4, <2>2, <2>3, <2>4 DEF FreshOf
<1> QED
  BY <1>2, <1>3, <1>4 DEF QueryMoves

LEMMA CacheHolds ==
  ASSUME Inv, UNCHANGED deleting, NEW t \in Viewers, CacheStep(t)
  PROVE  NewsHeld' /\ (server'.born = 0 => Before')
<1>1. tab[t] \in TabState /\ server \in SavedRow /\ tab[t].list \in Query /\ tab[t].detail \in Query
  BY InvGives, FieldTypes
<1>2. PICK query \in Query :
         \/ QueryMoves(tab[t].list, query) /\ ByItself(t, [tab[t] EXCEPT !.list = query])
         \/ /\ QueryMoves(tab[t].detail, query)
            /\ query = Loaded(tab[t].detail.answer) \/ query = Answered(tab[t].detail)
            /\ ByItself(t, [tab[t] EXCEPT !.detail = query])
  BY CacheTypes DEF Inv
<1>3. CASE QueryMoves(tab[t].list, query) /\ ByItself(t, [tab[t] EXCEPT !.list = query])
  <2> DEFINE u == [tab[t] EXCEPT !.list = query]
  <2>1. /\ u.list = query /\ u.detail = tab[t].detail /\ u.applied = tab[t].applied
        /\ u.shown = tab[t].shown /\ u.redone = tab[t].redone /\ u.strayed = tab[t].strayed
        /\ u.view = tab[t].view /\ u.phase = tab[t].phase /\ u.turn = tab[t].turn
        /\ u.unheard = tab[t].unheard
    BY <1>1 DEF TabState
  <2>2. ByItself(t, u)
    BY <1>3
  <2> HIDE DEF u
  <2>3. ASSUME Before, u.view # "left"
        PROVE  /\ KnowsOf(server, u) /\ ShowsOf(server, u)
               /\ FreshOf(server, tab[t].list) => FreshOf(server, u.list)
    <3>1. Settled(server, tab[t]) /\ server.revision >= 1
      BY <2>1, <2>3 DEF Before, TabHolds
    <3>2. KnowsOf(server, u)
      BY <1>1, <1>3, <2>1, <3>1, QueryMovesKnows DEF Settled, KnowsOf
    <3>3. ShowsOf(server, u)
      BY <2>1, <3>1 DEF Settled, ShowsOf
    <3>4. FreshOf(server, tab[t].list) => FreshOf(server, u.list)
      BY <1>1, <1>3, <2>1, <3>1, QueryMovesKnows
    <3> QED
      BY <3>2, <3>3, <3>4
  <2> QED
    BY <2>1, <2>2, <2>3, ByItselfHolds
<1>4. CASE /\ QueryMoves(tab[t].detail, query)
           /\ query = Loaded(tab[t].detail.answer) \/ query = Answered(tab[t].detail)
           /\ ByItself(t, [tab[t] EXCEPT !.detail = query])
  <2> DEFINE u == [tab[t] EXCEPT !.detail = query]
  <2>1. /\ u.detail = query /\ u.list = tab[t].list /\ u.applied = tab[t].applied
        /\ u.shown = tab[t].shown /\ u.redone = tab[t].redone /\ u.strayed = tab[t].strayed
        /\ u.view = tab[t].view /\ u.phase = tab[t].phase /\ u.turn = tab[t].turn
        /\ u.unheard = tab[t].unheard
    BY <1>1 DEF TabState
  <2>2. ByItself(t, u)
    BY <1>4
  <2> HIDE DEF u
  <2>3. ASSUME Before, u.view # "left"
        PROVE  /\ KnowsOf(server, u) /\ ShowsOf(server, u)
               /\ FreshOf(server, tab[t].detail) => FreshOf(server, u.detail)
    <3>1. Settled(server, tab[t]) /\ server.revision >= 1
      BY <2>1, <2>3 DEF Before, TabHolds
    <3>2. KnowsOf(server, u)
      BY <1>1, <1>4, <2>1, <3>1, QueryMovesKnows DEF Settled, KnowsOf
    <3>3. ShowsOf(server, u)
      BY <2>1, <3>1 DEF Settled, ShowsOf
    <3>4. FreshOf(server, tab[t].detail) => FreshOf(server, u.detail)
      BY <1>1, <1>4, <2>1, <3>1, QueryMovesKnows
    <3> QED
      BY <3>2, <3>3, <3>4
  <2> QED
    BY <2>1, <2>2, <2>3, ByItselfHolds
<1> QED
  BY <1>2, <1>3, <1>4

LEMMA RefetchFailsHolds ==
  ASSUME Inv, UNCHANGED deleting, NEW t \in Viewers, RefetchFails(t)
  PROVE  NewsHeld' /\ (server'.born = 0 => Before')
<1>1. tab[t] \in TabState
  BY InvGives
<1> DEFINE a == [tab[t] EXCEPT !.list = Loaded(tab[t].list.data), !.unheard = TRUE]
           b == [tab[t] EXCEPT !.detail = Loaded(tab[t].detail.data), !.unheard = TRUE]
<1>2. ASSUME NEW u, u = a \/ u = b
      PROVE  /\ u.view = tab[t].view /\ u.phase = tab[t].phase /\ u.turn = tab[t].turn
             /\ u.applied = tab[t].applied /\ u.unheard
             /\ Settled(server, tab[t]) => KnowsOf(server, u) /\ ShowsOf(server, u)
  <2>1. /\ u.list = tab[t].list \/ u.list = Loaded(tab[t].list.data)
        /\ u.detail = tab[t].detail \/ u.detail = Loaded(tab[t].detail.data)
        /\ u.shown = tab[t].shown /\ u.redone = tab[t].redone /\ u.strayed = tab[t].strayed
        /\ u.view = tab[t].view /\ u.phase = tab[t].phase /\ u.turn = tab[t].turn
        /\ u.applied = tab[t].applied /\ u.unheard
    BY <1>1, <1>2 DEF TabState
  <2>2. \A row : Loaded(row).data = row /\ Loaded(row).fetch = "idle"
    BY DEF Loaded
  <2>3. Settled(server, tab[t]) => KnowsOf(server, u)
    BY <2>1, <2>2 DEF Settled, KnowsOf
  <2>4. Settled(server, tab[t]) => ShowsOf(server, u)
    BY <2>1 DEF Settled, ShowsOf
  <2> QED
    BY <2>1, <2>3, <2>4
<1>3. ByItself(t, a) \/ ByItself(t, b)
  BY RefetchFailsTypes DEF Inv
<1>4. PICK u : (u = a \/ u = b) /\ ByItself(t, u)
  BY <1>3
<1> HIDE DEF a, b
<1>5. Before /\ u.view # "left" => Settled(server, tab[t])
  BY <1>2, <1>4 DEF Before, TabHolds
<1> QED
  BY <1>2, <1>4, <1>5, ByItselfHolds

-----------------------------------------------------------------------------
(***************************************************************************)
(* Turns that move on                                                      *)
(***************************************************************************)
LEMMA GrowthKeeps ==
  ASSUME NEW old \in SavedRow, NEW new \in SavedRow, Grows(old, new),
         NEW turn \in SentTurn, KeepsOf(old, turn)
  PROVE  KeepsOf(new, turn)
<1>1. old.revision \in Nat /\ new.revision \in Nat /\ turn.base \in Nat
  BY DEF SavedRow, SentTurn
<1> QED
  BY <1>1 DEF KeepsOf, Grows

LEMMA TurnMoved ==
  ASSUME server \in SavedRow, server' \in SavedRow, Grows(server, server'),
         sent \in [TurnIds -> SentTurn], \A m \in TurnIds : KeepsOf(server, sent[m]),
         NEW n \in TurnIds, NEW at \in {"streaming", "aborting", "saved", "ended"}, Moves(n, at),
         at \in {"streaming", "aborting"} => sent[n].at \in {"posted", "streaming"},
         at = "streaming" => sent[n].base = server.revision,
         at = "saved" => sent[n].at = "streaming" /\ Stored(n)
  PROVE  /\ \A m \in TurnIds : KeepsOf(server', sent'[m]) /\ AheadKept(m)
         /\ at = "saved" => SomeUntold'
         /\ sent[n].at # "saved" => (SomeUntold => SomeUntold')
<1>1. /\ sent'[n] = [sent[n] EXCEPT !.at = at] /\ sent'[n].at = at /\ sent'[n].base = sent[n].base
      /\ \A m \in TurnIds \ {n} : sent'[m] = sent[m]
  BY MovesTypes
<1>2. sent[n] \in SentTurn
  OBVIOUS
<1>3. /\ sent'[n].log = sent[n].log /\ sent'[n].drops = sent[n].drops
      /\ sent'[n].agreed = sent[n].agreed
  BY <1>1, <1>2 DEF SentTurn
<1>4. server.revision \in Nat /\ server'.revision \in Nat /\ server'.revision >= server.revision
  BY DEF SavedRow, Grows
<1>5. KeepsOf(server', sent[n])
  BY <1>2, GrowthKeeps
<1>6. KeepsOf(server', sent'[n])
  BY <1>1, <1>3, <1>5 DEF KeepsOf
<1>7. AheadKept(n)
  <2> SUFFICES ASSUME NEW applied \in 1 .. server.revision, Ahead(applied, server, sent[n])
               PROVE  Ahead(applied, server', sent'[n])
    BY DEF AheadKept
  <2>1. CASE at \in {"aborting", "ended"}
    BY <1>1, <2>1 DEF Ahead
  <2>2. CASE at = "streaming"
    BY <1>1, <1>4, <2>2 DEF Ahead
  <2>3. CASE at = "saved"
    <3>1. sent[n].base \in 1 .. server.revision /\ applied <= sent[n].base
      BY <2>3 DEF Ahead, KeepsOf
    <3>2. CASE Stale(n)
      <4>1. server' = server /\ sent[n].base # server.revision
        BY <2>3, <3>2, StoredTypes DEF Stale
      <4>2. applied < server'.revision
        BY <1>4, <3>1, <4>1
      <4> QED
        BY <1>1, <2>3, <4>2 DEF Ahead
    <3>3. CASE ~Stale(n)
      <4>1. server'.revision = server.revision + 1
        BY <2>3, <3>3, StoredTypes
      <4>2. applied < server'.revision
        BY <1>4, <4>1
      <4> QED
        BY <1>1, <2>3, <4>2 DEF Ahead
    <3> QED
      BY <3>2, <3>3
  <2> QED
    BY <2>1, <2>2, <2>3
<1>8. ASSUME NEW m \in TurnIds \ {n} PROVE KeepsOf(server', sent'[m]) /\ AheadKept(m)
  <2>1. sent'[m] = sent[m] /\ sent[m] \in SentTurn
    BY <1>1
  <2>2. KeepsOf(server', sent'[m])
    BY <2>1, GrowthKeeps
  <2>3. AheadKept(m)
    BY <1>4, <2>1 DEF AheadKept, Ahead
  <2> QED
    BY <2>2, <2>3
<1>9. at = "saved" => SomeUntold'
  BY <1>1 DEF SomeUntold
<1>10. sent[n].at # "saved" => (SomeUntold => SomeUntold')
  BY <1>1 DEF SomeUntold
<1> QED
  BY <1>6, <1>7, <1>8, <1>9, <1>10

(* A step of the server on a turn.                                         *)
LEMMA TurnStepHolds ==
  ASSUME Inv, UNCHANGED deleting, NEW n \in TurnIds, TurnStep(n)
  PROVE  NewsHeld' /\ (server'.born = 0 => Before')
<1>1. /\ server \in SavedRow /\ TabsTyped /\ sent \in [TurnIds -> SentTurn]
      /\ channel \in [Viewers -> Seq(Events)]
  BY TypesAre DEF Inv, Types
<1>2. PICK at \in {"streaming", "saved", "ended"} :
         /\ Moves(n, at)
         /\ at = "streaming" => sent[n].at = "posted" /\ ~Stale(n)
         /\ at = "saved" => sent[n].at = "streaming" /\ Stored(n)
         /\ at = "ended" => sent[n].at = "aborting"
         /\ \/ tab' = tab /\ (at = "saved" \/ server' = server)
            \/ tab' = AllUnheard(tab)
         /\ server' = server \/ Stored(n)
         /\ channel' = channel
  <2>1. CASE AcceptSent(n)
    BY <2>1 DEF AcceptSent, Moves
  <2>2. CASE SaveSent(n)
    BY <2>2 DEF SaveSent, Moves
  <2>3. CASE SavePartial(n)
    BY <2>3 DEF SavePartial, Moves
  <2> QED
    BY <2>1, <2>2, <2>3 DEF TurnStep
<1>3. server' \in SavedRow /\ Grows(server, server')
  BY <1>1, <1>2, StoredTypes DEF Grows
<1>4. server'.born = server.born
  BY <1>3 DEF Grows
<1>5. \A v \in Viewers : \/ tab'[v] = tab[v] /\ (at = "saved" \/ server' = server \/ tab[v].view = "left")
                         \/ tab[v].view # "left" /\ tab'[v] = [tab[v] EXCEPT !.unheard = TRUE]
  BY <1>1, <1>2, AllUnheardTypes DEF TabsTyped
<1>6. \A v \in Viewers : tab'[v].view = tab[v].view
  BY <1>1, <1>5 DEF TabsTyped, TabState
<1>7. NewsHeld'
  BY <1>2, <1>4, <1>6, NewsKeptHeld DEF Inv, NewsHeld
<1>8. ASSUME server'.born = 0 PROVE Before'
  <2>1. Before
    BY <1>4, <1>8 DEF Inv
  <2>2. at = "streaming" => sent[n].base = server.revision
    BY <1>1, <1>2, <2>1 DEF Before, KeepsOf, Stale, SavedRow
  <2>3. /\ \A m \in TurnIds : KeepsOf(server', sent'[m]) /\ AheadKept(m)
        /\ at = "saved" => SomeUntold'
        /\ sent[n].at # "saved" => (SomeUntold => SomeUntold')
    BY <1>1, <1>2, <1>3, <2>1, <2>2, TurnMoved DEF Before
  <2>4. server'.revision >= 1
    BY <1>1, <1>3, <2>1 DEF Before, Grows, SavedRow
  <2>5. ASSUME NEW v \in Viewers PROVE TabHolds(v)'
    <3>1. tab[v] \in TabState /\ BusyWithTurn(tab[v]) /\ TabHolds(v)
      BY <2>1, InvGives DEF Before
    <3>2. at = "saved" \/ server' = server => NewsKept(v)
      BY <1>2, <2>3 DEF NewsKept
    <3> QED
      BY <1>1, <1>3, <1>5, <2>3, <3>1, <3>2, OtherTab
  <2> QED
    BY <2>3, <2>4, <2>5 DEF Before
<1> QED
  BY <1>7, <1>8

-----------------------------------------------------------------------------
(***************************************************************************)
(* Turns that end without a refresh: stopped, left, failed                 *)
(***************************************************************************)
Rested(s, strayed, unheard) ==
  [s EXCEPT !.phase = "ready", !.turn = 0, !.strayed = strayed, !.unheard = unheard]

LEMMA RestedIs ==
  ASSUME NEW s \in TabState, BusyWithTurn(s), NEW strayed \in BOOLEAN, NEW unheard \in BOOLEAN
  PROVE  LET u == Rested(s, strayed, unheard)
         IN  /\ u \in TabState /\ BusyWithTurn(u)
             /\ u.phase = "ready" /\ u.view = s.view /\ u.unheard = unheard /\ u.strayed = strayed
             /\ u.list = s.list /\ u.detail = s.detail /\ u.applied = s.applied
             /\ u.shown = s.shown /\ u.redone = s.redone
<1> DEFINE u == Rested(s, strayed, unheard)
<1>1. u \in TabState /\ BusyWithTurn(u)
  BY RestedTypes DEF Rested
<1>2. /\ u.phase = "ready" /\ u.view = s.view /\ u.unheard = unheard /\ u.strayed = strayed
      /\ u.list = s.list /\ u.detail = s.detail /\ u.applied = s.applied
      /\ u.shown = s.shown /\ u.redone = s.redone
  BY DEF Rested, TabState
<1> QED
  BY <1>1, <1>2

LEMMA StrayedSees ==
  ASSUME NEW stored, NEW s \in TabState, BusyWithTurn(s), Settled(stored, s), NEW unheard \in BOOLEAN
  PROVE  KnowsOf(stored, Rested(s, TRUE, unheard)) /\ ShowsOf(stored, Rested(s, TRUE, unheard))
<1> DEFINE u == Rested(s, TRUE, unheard)
<1>1. /\ u.strayed = TRUE /\ u.list = s.list /\ u.detail = s.detail /\ u.applied = s.applied
      /\ u.shown = s.shown /\ u.redone = s.redone
  BY RestedIs
<1> HIDE DEF u
<1>2. KnowsOf(stored, u) /\ ShowsOf(stored, u)
  BY <1>1 DEF Settled, KnowsOf, ShowsOf
<1> QED
  BY <1>2 DEF u

LEMMA SilentEndHolds ==
  ASSUME Inv, UNCHANGED deleting, NEW t \in Viewers, NEW s, NEW untold \in BOOLEAN, BecomesAnd(t, s, untold),
         \/ s = Left /\ channel'[t] = <<>>
         \/ s = Rested(tab[t], TRUE, TRUE) /\ tab[t].view # "left" /\ channel'[t] = channel[t],
         server' \in SavedRow, Grows(server, server'),
         \A v \in Viewers : channel'[v] = channel[v] \/ (v = t /\ channel'[v] = <<>>),
         Before => \A m \in TurnIds : KeepsOf(server', sent'[m]) /\ AheadKept(m),
         untold \/ (server' = server /\ (SomeUntold => SomeUntold'))
  PROVE  NewsHeld' /\ (server'.born = 0 => Before')
<1>1. tab[t] \in TabState /\ BusyWithTurn(tab[t]) /\ TabsTyped /\ server \in SavedRow
  BY InvGives
<1>2. s \in TabState /\ BusyWithTurn(s)
  <2>1. BusyWithTurn(Left)
    BY LeftType, CrossTabAssumption DEF BusyWithTurn, TurnIds
  <2> QED
    BY <1>1, <2>1, LeftType, RestedIs
<1>3. /\ tab'[t] = IF untold /\ Synced(s).view # "left" THEN [Synced(s) EXCEPT !.unheard = TRUE]
                                                       ELSE Synced(s)
      /\ \A v \in Viewers \ {t} : tab'[v] = IF untold /\ tab[v].view # "left"
                                            THEN [tab[v] EXCEPT !.unheard = TRUE] ELSE tab[v]
  BY <1>1, <1>2, BecomesAndTypes
<1>4. Synced(s) \in TabState /\ Synced(s).view = s.view
  BY <1>2, SyncedTypes
<1>5. tab'[t].view = s.view /\ (s = Left => tab'[t].view = "left")
      /\ \A v \in Viewers \ {t} : tab'[v].view = tab[v].view
  <2>1. \A z \in TabState : [z EXCEPT !.unheard = TRUE].view = z.view
    BY DEF TabState
  <2>2. \A v \in Viewers : tab[v] \in TabState
    BY <1>1 DEF TabsTyped
  <2>3. tab'[t].view = s.view
    BY <1>3, <1>4, <2>1
  <2>4. \A v \in Viewers \ {t} : tab'[v].view = tab[v].view
    BY <1>3, <2>1, <2>2
  <2> QED
    BY <2>3, <2>4, LeftType
<1>6. server'.born = server.born
  BY DEF Grows
<1>7. NewsHeld'
  <2>1. UpdatesPaired(<<>>)
    BY DEF UpdatesPaired
  <2>2. \A v \in Viewers : UpdatesPaired(channel'[v])
    BY <2>1 DEF Inv, NewsHeld
  <2>3. s # Left => s.view = tab[t].view /\ channel'[t] = channel[t]
    <3>1. Rested(tab[t], TRUE, TRUE).view = tab[t].view
      BY <1>1, RestedIs
    <3>2. CASE s = Rested(tab[t], TRUE, TRUE) /\ channel'[t] = channel[t]
      BY <3>1, <3>2
    <3> QED
      BY <3>2
  <2>4. ASSUME NEW v \in Viewers, tab'[v].view = "open"
        PROVE  /\ tab[v].view = "open"
               /\ Holds(channel[v], "conversation-deleted") => Holds(channel'[v], "conversation-deleted")
    BY <1>5, <2>3, <2>4
  <2>5. ASSUME NEW v \in Viewers, tab'[v].view = "left" PROVE channel'[v] = <<>>
    <3>1. CASE v = t
      <4>1. Rested(tab[t], TRUE, TRUE).view = tab[t].view
        BY <1>1, RestedIs
      <4>2. CASE s = Rested(tab[t], TRUE, TRUE) /\ tab[t].view # "left"
        BY <1>5, <2>5, <3>1, <4>1, <4>2
      <4> QED
        BY <3>1, <4>2
    <3>2. CASE v # t
      BY <1>5, <2>5, <3>2 DEF Inv, NewsHeld
    <3> QED
      BY <3>1, <3>2
  <2> QED
    BY <1>6, <2>2, <2>4, <2>5, NewsKeptHeld DEF Inv
<1>8. ASSUME server'.born = 0 PROVE Before'
  <2>1. Before
    BY <1>6, <1>8 DEF Inv
  <2>2. server'.revision >= 1
    BY <1>1, <2>1 DEF Before, Grows, SavedRow
  <2>3. TabHolds(t)'
    <3>1. CASE s = Left
      BY <1>5, <3>1 DEF TabHolds
    <3>2. CASE s = Rested(tab[t], TRUE, TRUE) /\ tab[t].view # "left"
      <4>1. Settled(server', tab[t])
        BY <1>1, <2>1, <3>2, GrowthSettles DEF Before, TabHolds
      <4>2. KnowsOf(server', s) /\ ShowsOf(server', s)
        BY <1>1, <3>2, <4>1, StrayedSees
      <4>3. s.phase = "ready" /\ s.unheard
        BY <1>1, <3>2, RestedIs
      <4> QED
        BY <1>2, <1>3, <4>2, <4>3, ThisTab
    <3> QED
      BY <3>1, <3>2
  <2>4. ASSUME NEW v \in Viewers \ {t} PROVE TabHolds(v)'
    <3>1. tab[v] \in TabState /\ BusyWithTurn(tab[v]) /\ TabHolds(v)
      BY <2>1, InvGives DEF Before
    <3>2. \/ tab[v].view # "left" /\ tab'[v] = [tab[v] EXCEPT !.unheard = TRUE]
          \/ tab'[v] = tab[v] /\ NewsKept(v)
          \/ tab'[v] = tab[v] /\ tab[v].view = "left"
      <4>1. CASE untold
        BY <1>3, <4>1
      <4>2. CASE ~untold
        BY <1>3, <4>2 DEF NewsKept
      <4> QED
        BY <4>1, <4>2
    <3> QED
      BY <1>1, <2>1, <3>1, <3>2, OtherTab
  <2> QED
    BY <2>1, <2>2, <2>3, <2>4 DEF Before
<1> QED
  BY <1>7, <1>8

(* An aborted turn is stored or it is not, and neither takes a turn away.  *)
LEMMA AbortKeeps ==
  ASSUME Inv, NEW t \in Viewers, AbortTurn(t), server' = server
  PROVE  /\ Before => \A m \in TurnIds : KeepsOf(server', sent'[m]) /\ AheadKept(m)
         /\ Untold(t) \/ (SomeUntold => SomeUntold')
<1>1. TabsTyped /\ sent \in [TurnIds -> SentTurn] /\ server \in SavedRow
  BY InvGives
<1>2. CASE sent' = sent /\ tab[t].phase # "busy"
  BY <1>2 DEF Before, AheadKept, SomeUntold
<1>3. ASSUME NEW at \in {"aborting", "ended"}, tab[t].phase = "busy", tab[t].turn \in TurnIds,
             Moves(tab[t].turn, at), at = "aborting" => sent[tab[t].turn].at = "streaming"
      PROVE  /\ Before => \A m \in TurnIds : KeepsOf(server', sent'[m]) /\ AheadKept(m)
             /\ Untold(t) \/ (SomeUntold => SomeUntold')
  <2>1. Before => \A m \in TurnIds : KeepsOf(server', sent'[m]) /\ AheadKept(m)
    BY <1>1, <1>3, TurnMoved DEF Before, Grows
  <2>2. Untold(t) \/ sent[tab[t].turn].at # "saved"
    BY <1>3 DEF Untold
  <2>3. sent[tab[t].turn].at # "saved" => (SomeUntold => SomeUntold')
    BY <1>1, <1>3, MovesTypes DEF SomeUntold
  <2> QED
    BY <2>1, <2>2, <2>3
<1> QED
  BY <1>1, <1>2, <1>3, AbortTypes

LEMMA StopHolds ==
  ASSUME Inv, UNCHANGED deleting, NEW t \in Viewers, StopTurn(t)
  PROVE  NewsHeld' /\ (server'.born = 0 => Before')
<1>1. /\ tab[t].view # "left" /\ AbortTurn(t) /\ UNCHANGED <<server, channel>>
      /\ BecomesAnd(t, Rested(tab[t], TRUE, TRUE), Untold(t))
  BY DEF StopTurn, Rested
<1>2. server \in SavedRow /\ Untold(t) \in BOOLEAN
  BY InvGives DEF Untold
<1>3. /\ Before => \A m \in TurnIds : KeepsOf(server', sent'[m]) /\ AheadKept(m)
      /\ Untold(t) \/ (SomeUntold => SomeUntold')
  BY <1>1, AbortKeeps
<1> QED
  BY <1>1, <1>2, <1>3, SilentEndHolds DEF Grows

LEMMA LeaveHolds ==
  ASSUME Inv, UNCHANGED deleting, NEW t \in Viewers, Leave(t)
  PROVE  NewsHeld' /\ (server'.born = 0 => Before')
<1>1. /\ AbortTurn(t) /\ server' = server /\ channel' = [channel EXCEPT ![t] = <<>>]
      /\ BecomesAnd(t, Left, Untold(t))
  BY DEF Leave
<1>2. server \in SavedRow /\ Untold(t) \in BOOLEAN /\ channel \in [Viewers -> Seq(Events)]
  BY InvGives DEF Untold
<1>3. /\ Before => \A m \in TurnIds : KeepsOf(server', sent'[m]) /\ AheadKept(m)
      /\ Untold(t) \/ (SomeUntold => SomeUntold')
  BY <1>1, AbortKeeps
<1>4. \A v \in Viewers : channel'[v] = channel[v] \/ (v = t /\ channel'[v] = <<>>)
  BY <1>1, <1>2
<1> QED
  BY <1>1, <1>2, <1>3, <1>4, SilentEndHolds DEF Grows

LEMMA FailsHolds ==
  ASSUME Inv, UNCHANGED deleting, NEW t \in Viewers, TurnFails(t)
  PROVE  NewsHeld' /\ (server'.born = 0 => Before')
<1>1. /\ server \in SavedRow /\ TabsTyped /\ sent \in [TurnIds -> SentTurn]
      /\ BusyWithTurn(tab[t])
  BY InvGives
<1> DEFINE n == tab[t].turn
           streamed == sent[n].at = "streaming"
<1>2. /\ tab[t].view # "left" /\ tab[t].phase = "busy" /\ Moves(n, "ended") /\ channel' = channel
      /\ BecomesAnd(t, Rested(tab[t], TRUE, TRUE), streamed)
      /\ \/ sent[n].at = "posted" /\ server' = server
         \/ sent[n].at = "streaming" /\ Stored(n)
  BY DEF TurnFails, Ends, Moves, Rested
<1>3. n \in TurnIds
  BY <1>1, <1>2 DEF BusyWithTurn
<1>4. server' \in SavedRow /\ Grows(server, server')
  BY <1>1, <1>2, <1>3, StoredTypes DEF Grows
<1> HIDE DEF n
<1>5. Before => \A m \in TurnIds : KeepsOf(server', sent'[m]) /\ AheadKept(m)
  BY <1>1, <1>2, <1>3, <1>4, TurnMoved DEF Before
<1>6. sent[n].at # "saved" => (SomeUntold => SomeUntold')
  BY <1>1, <1>2, <1>3, MovesTypes DEF SomeUntold
<1>7. streamed \in BOOLEAN /\ (streamed \/ (server' = server /\ (SomeUntold => SomeUntold')))
  BY <1>2, <1>6
<1> QED
  BY <1>2, <1>4, <1>5, <1>7, SilentEndHolds

-----------------------------------------------------------------------------
(***************************************************************************)
(* Turns that are posted                                                   *)
(***************************************************************************)
LEMMA PassGateHolds ==
  ASSUME Inv, UNCHANGED deleting, NEW t \in Viewers, PassGate(t)
  PROVE  NewsHeld' /\ (server'.born = 0 => Before')
<1>1. /\ server \in SavedRow /\ TabsTyped /\ sent \in [TurnIds -> SentTurn]
      /\ tab[t] \in TabState /\ CrossTabTypeOK
  BY InvGives DEF Inv
<1>2. PICK redone \in SUBSET TurnIds, log \in Seq(TurnIds) :
         /\ PostTurn(t, redone, log)
         /\ Range(tab[t].shown) \cup tab[t].redone \subseteq Range(log) \cup redone
  BY <1>1, PassGateTypes
<1>3. PICK n \in TurnIds : PostsAs(t, n, redone, log)
  BY <1>1, <1>2, PostTurnTypes
<1> DEFINE u == PostedTab(tab[t], n, redone, log)
           turn == PostedTurn(tab[t], n, redone, log)
<1>4. /\ u.view = tab[t].view /\ u.phase = "busy" /\ u.turn = n /\ u.list = tab[t].list
      /\ u.detail = tab[t].detail /\ u.applied = tab[t].applied /\ u.unheard = tab[t].unheard
      /\ u.shown = Append(log, n) /\ u.redone = redone
  BY <1>1 DEF PostedTab, TabState
<1>5. /\ turn.at = "posted" /\ turn.base = tab[t].list.data.revision /\ turn.log = Append(log, n)
      /\ turn.drops = redone /\ turn.agreed = (turn.base = tab[t].applied)
  BY DEF PostedTurn, BaseRevision
<1>6. u \in TabState /\ BusyWithTurn(u) /\ Becomes(t, u) /\ turn \in SentTurn
      /\ sent[n].at = "unused" /\ sent' = [sent EXCEPT ![n] = turn]
  BY <1>3 DEF PostsAs
<1>7. server' = server /\ channel' = channel /\ tab[t].view # "left"
  BY DEF PassGate
<1> HIDE DEF u, turn
<1>8. tab'[t] = Synced(u) /\ \A v \in Viewers \ {t} : tab'[v] = tab[v]
  BY <1>1, <1>6, BecomesTypes
<1>9. Range(log) \subseteq Range(Append(log, n))
  BY TurnAppended
<1>10. sent'[n] = turn /\ \A m \in TurnIds \ {n} : sent'[m] = sent[m]
  BY <1>1, <1>6
<1>11. NewsHeld'
  <2>1. \A v \in Viewers : tab'[v].view = tab[v].view
    BY <1>4, <1>6, <1>8, SyncedTypes
  <2> QED
    BY <1>7, <2>1, NewsKeptHeld DEF Inv, NewsHeld
<1>12. ASSUME server'.born = 0 PROVE Before'
  <2>1. Before /\ Settled(server, tab[t])
    BY <1>7, <1>12 DEF Inv, Before, TabHolds
  <2>2. tab[t].applied = server.revision => Range(server.log) \subseteq Range(Append(log, n)) \cup redone
    BY <1>2, <1>9, <2>1 DEF Settled, ShowsOf
  <2>3. KeepsOf(server, turn)
    BY <1>5, <2>1, <2>2 DEF Settled, KnowsOf, KeepsOf
  <2>4. KnowsOf(server, u) /\ ShowsOf(server, u)
    BY <1>4, <2>1, <2>2 DEF Settled, KnowsOf, ShowsOf
  <2>5. \A m \in TurnIds : KeepsOf(server', sent'[m]) /\ AheadKept(m)
    BY <1>5, <1>7, <1>10, <2>1, <2>3 DEF Before, AheadKept, Ahead
  <2>6. SomeUntold => SomeUntold'
    BY <1>6, <1>10 DEF SomeUntold
  <2>7. TabHolds(t)'
    <3>1. u.phase = "busy" => Ahead(u.applied, server', sent'[u.turn])
      BY <1>4, <1>5, <1>10 DEF Ahead
    <3>2. ~u.unheard => /\ FreshOf(server', u.list) \/ Holds(channel'[t], "list-changed") \/ SomeUntold'
                        /\ FreshOf(server', u.detail) \/ Holds(channel'[t], "conversation-updated") \/ SomeUntold'
      BY <1>4, <1>7, <2>1, <2>6 DEF Before, TabHolds, HearsOfList, HearsOfDetail
    <3> QED
      BY <1>1, <1>6, <1>7, <1>8, <2>4, <3>1, <3>2, ThisTab
  <2>8. ASSUME NEW v \in Viewers \ {t} PROVE TabHolds(v)'
    <3>1. TabHolds(v) /\ tab'[v] = tab[v] /\ tab[v] \in TabState /\ BusyWithTurn(tab[v])
      BY <1>8, <2>1, InvGives DEF Before
    <3>2. NewsKept(v)
      BY <1>7, <2>6 DEF NewsKept
    <3> QED
      BY <1>1, <1>7, <2>5, <3>1, <3>2, OtherTab DEF Grows
  <2> QED
    BY <1>7, <2>1, <2>5, <2>7, <2>8 DEF Before
<1> QED
  BY <1>11, <1>12

-----------------------------------------------------------------------------
(***************************************************************************)
(* Turns that end with a refresh: finished, refused                        *)
(***************************************************************************)
LEMMA InvalidateIs ==
  ASSUME NEW s \in TabState
  PROVE  /\ InvalidateList(s).list.fetch = "asked" /\ InvalidateList(s).list.data = s.list.data
         /\ InvalidateList(s).detail = s.detail
         /\ InvalidateDetail(s).detail.fetch = "asked" /\ InvalidateDetail(s).detail.data = s.detail.data
         /\ InvalidateDetail(s).list = s.list
         /\ \A u \in {InvalidateList(s), InvalidateDetail(s)} :
              /\ u.view = s.view /\ u.phase = s.phase /\ u.turn = s.turn /\ u.applied = s.applied
              /\ u.shown = s.shown /\ u.redone = s.redone /\ u.strayed = s.strayed
              /\ u.unheard = s.unheard
<1>1. Invalidated(s.list).fetch = "asked" /\ Invalidated(s.list).data = s.list.data
      /\ Invalidated(s.detail).fetch = "asked" /\ Invalidated(s.detail).data = s.detail.data
  BY DEF Invalidated, TabState, Query
<1> QED
  BY <1>1 DEF InvalidateList, InvalidateDetail, TabState

LEMMA InvalidateSees ==
  ASSUME NEW s \in TabState, NEW stored, KnowsOf(stored, s), ShowsOf(stored, s)
  PROVE  \A u \in {InvalidateList(s), InvalidateDetail(s)} : KnowsOf(stored, u) /\ ShowsOf(stored, u)
BY InvalidateIs DEF KnowsOf, ShowsOf

LEMMA RefreshSees ==
  ASSUME NEW s \in TabState, NEW stored, KnowsOf(stored, s), ShowsOf(stored, s)
  PROVE  LET u == InvalidateConversation(s)
         IN  /\ KnowsOf(stored, u) /\ ShowsOf(stored, u)
             /\ FreshOf(stored, u.list) /\ FreshOf(stored, u.detail)
             /\ u.view = s.view /\ u.phase = s.phase
<1> DEFINE w == InvalidateList(s)
<1>1. w \in TabState /\ KnowsOf(stored, w) /\ ShowsOf(stored, w) /\ w.list.fetch = "asked"
      /\ w.view = s.view /\ w.phase = s.phase
  BY InvalidateTypes, InvalidateIs, InvalidateSees
<1> HIDE DEF w
<1>2. /\ KnowsOf(stored, InvalidateDetail(w)) /\ ShowsOf(stored, InvalidateDetail(w))
      /\ InvalidateDetail(w).list = w.list /\ InvalidateDetail(w).detail.fetch = "asked"
      /\ InvalidateDetail(w).view = w.view /\ InvalidateDetail(w).phase = w.phase
  BY <1>1, InvalidateIs, InvalidateSees
<1>3. InvalidateConversation(s) = InvalidateDetail(w)
  BY DEF InvalidateConversation, w
<1> QED
  BY <1>1, <1>2, <1>3 DEF FreshOf

LEMMA RefreshedEndHolds ==
  ASSUME Inv, UNCHANGED deleting, NEW t \in Viewers, tab[t].view # "left", tab[t].phase = "busy", server' = server,
         Moves(tab[t].turn, "ended"), NEW strayed \in BOOLEAN,
         Becomes(t, InvalidateConversation(Rested(tab[t], strayed, FALSE))),
         sent[tab[t].turn].at = "saved" \/ strayed,
         \/ channel' = channel /\ sent[tab[t].turn].at # "saved"
         \/ Post(t, <<"conversation-updated", "list-changed">>)
  PROVE  NewsHeld' /\ (server'.born = 0 => Before')
<1> DEFINE n == tab[t].turn
           r == Rested(tab[t], strayed, FALSE)
           u == InvalidateConversation(r)
<1>1. /\ server \in SavedRow /\ TabsTyped /\ sent \in [TurnIds -> SentTurn]
      /\ tab[t] \in TabState /\ BusyWithTurn(tab[t]) /\ channel \in [Viewers -> Seq(Events)]
  BY InvGives
<1>2. n \in TurnIds
  BY <1>1 DEF BusyWithTurn
<1>3. r \in TabState /\ u \in TabState /\ BusyWithTurn(u)
  BY <1>1, RestedTypes DEF Rested
<1>4. /\ r.phase = "ready" /\ r.view = tab[t].view /\ r.strayed = strayed
      /\ r.list = tab[t].list /\ r.detail = tab[t].detail /\ r.applied = tab[t].applied
      /\ r.shown = tab[t].shown /\ r.redone = tab[t].redone
  BY <1>1, RestedIs
<1>5. u.phase = "ready" /\ u.view = tab[t].view
  <2>1. \A s \in TabState : InvalidateConversation(s).phase = s.phase /\ InvalidateConversation(s).view = s.view
    <3> TAKE s \in TabState
    <3>1. InvalidateList(s) \in TabState
      BY InvalidateTypes
    <3> QED
      BY <3>1, InvalidateIs DEF InvalidateConversation
  <2> QED
    BY <1>3, <1>4, <2>1
<1>6. Becomes(t, u) /\ Moves(n, "ended")
  OBVIOUS
<1> HIDE DEF n, r, u
<1>7. tab'[t] = Synced(u) /\ \A v \in Viewers \ {t} : tab'[v] = tab[v]
  BY <1>1, <1>3, <1>6, BecomesTypes
<1>8. Events = {"list-changed", "conversation-updated", "conversation-deleted"}
  BY DEF Events
<1>9. \A v \in Viewers :
        \/ channel'[v] = channel[v] /\ (v = t \/ tab[v].view = "left" \/ sent[n].at # "saved")
        \/ /\ tab[v].view # "left"
           /\ channel'[v] = channel[v] \o <<"conversation-updated", "list-changed">>
  <2>1. CASE channel' = channel /\ sent[tab[t].turn].at # "saved"
    BY <2>1 DEF n
  <2>2. CASE Post(t, <<"conversation-updated", "list-changed">>)
    BY <1>1, <1>8, <2>2 DEF Post
  <2> QED
    BY <2>1, <2>2
<1>10. \A v \in Viewers :
         LET c == channel[v] \o <<"conversation-updated", "list-changed">>
         IN  /\ \A event : Holds(channel[v], event) => Holds(c, event)
             /\ Holds(c, "conversation-updated") /\ Holds(c, "list-changed")
             /\ UpdatesPaired(channel[v]) => UpdatesPaired(c)
  BY <1>1, <1>8, NewsPosted
<1>11. NewsHeld'
  <2>1. \A v \in Viewers : tab'[v].view = tab[v].view
    BY <1>3, <1>5, <1>7, SyncedTypes
  <2>2. \A v \in Viewers :
          /\ UpdatesPaired(channel'[v])
          /\ Holds(channel[v], "conversation-deleted") => Holds(channel'[v], "conversation-deleted")
          /\ tab[v].view = "left" => channel'[v] = <<>>
    BY <1>9, <1>10 DEF Inv, NewsHeld
  <2> QED
    BY <2>1, <2>2, NewsKeptHeld DEF Inv
<1>12. ASSUME server'.born = 0 PROVE Before'
  <2>1. Before /\ TabHolds(t) /\ Settled(server, tab[t])
    BY <1>12 DEF Inv, Before, TabHolds
  <2>2. KnowsOf(server, r)
    BY <1>4, <2>1 DEF Settled, KnowsOf
  <2>3. ShowsOf(server, r)
    <3>1. CASE strayed
      BY <1>4, <2>1, <3>1 DEF Settled, ShowsOf
    <3>2. CASE sent[n].at = "saved"
      <4>1. tab[t].applied < server.revision
        BY <2>1, <3>2 DEF TabHolds, Ahead, n
      <4>2. tab[t].applied # server.revision
        BY <1>1, <4>1 DEF SavedRow
      <4> QED
        BY <1>4, <4>2 DEF ShowsOf
    <3> QED
      BY <3>1, <3>2 DEF n
  <2>4. /\ KnowsOf(server, u) /\ ShowsOf(server, u)
        /\ FreshOf(server, u.list) /\ FreshOf(server, u.detail)
    BY <1>3, <2>2, <2>3, RefreshSees DEF u
  <2>5. TabHolds(t)'
    BY <1>1, <1>3, <1>5, <1>7, <2>4, ThisTab
  <2>6. /\ \A m \in TurnIds : KeepsOf(server', sent'[m]) /\ AheadKept(m)
        /\ sent[n].at # "saved" => (SomeUntold => SomeUntold')
    BY <1>1, <1>2, <1>6, <2>1, TurnMoved DEF Before, Grows
  <2>7. ASSUME NEW v \in Viewers \ {t} PROVE TabHolds(v)'
    <3>1. TabHolds(v) /\ tab'[v] = tab[v] /\ tab[v] \in TabState /\ BusyWithTurn(tab[v])
      BY <1>7, <2>1, InvGives DEF Before
    <3>2. tab[v].view = "left" \/ NewsKept(v)
      BY <1>9, <1>10, <2>6 DEF NewsKept
    <3> QED
      BY <1>1, <2>6, <3>1, <3>2, OtherTab DEF Grows
  <2> QED
    BY <2>1, <2>5, <2>6, <2>7 DEF Before
<1> QED
  BY <1>11, <1>12

LEMMA FinishHolds ==
  ASSUME Inv, UNCHANGED deleting, NEW t \in Viewers, TurnFinishes(t)
  PROVE  NewsHeld' /\ (server'.born = 0 => Before')
<1>1. tab[t] \in TabState
  BY InvGives
<1>2. tab[t].strayed \in BOOLEAN
      /\ [tab[t] EXCEPT !.phase = "ready", !.turn = 0, !.unheard = FALSE] = Rested(tab[t], tab[t].strayed, FALSE)
  BY <1>1 DEF TabState, Rested
<1>3. /\ tab[t].view # "left" /\ tab[t].phase = "busy" /\ server' = server
      /\ Moves(tab[t].turn, "ended") /\ sent[tab[t].turn].at = "saved"
      /\ Becomes(t, InvalidateConversation([tab[t] EXCEPT !.phase = "ready", !.turn = 0, !.unheard = FALSE]))
      /\ Post(t, <<"conversation-updated", "list-changed">>)
  BY DEF TurnFinishes, Ends, Moves
<1> QED
  BY <1>2, <1>3, RefreshedEndHolds

LEMMA RefusedHolds ==
  ASSUME Inv, UNCHANGED deleting, NEW t \in Viewers, TurnRefused(t)
  PROVE  NewsHeld' /\ (server'.born = 0 => Before')
<1>1. /\ tab[t].view # "left" /\ tab[t].phase = "busy" /\ server' = server
      /\ Moves(tab[t].turn, "ended") /\ sent[tab[t].turn].at = "posted"
      /\ Becomes(t, InvalidateConversation(Rested(tab[t], TRUE, FALSE)))
      /\ channel' = channel
  BY DEF TurnRefused, Ends, Moves, Rested
<1> QED
  BY <1>1, RefreshedEndHolds

-----------------------------------------------------------------------------
(***************************************************************************)
(* Deletion, and what a tab hears                                          *)
(***************************************************************************)
LEMMA DeleteHolds ==
  ASSUME Inv, NEW t \in Viewers, DeleteStep(t), DeletionUntold => server.born # 0
  PROVE  NewsHeld' /\ (server'.born = 0 => Before')
<1>1. tab \in [Viewers -> TabState] /\ channel \in [Viewers -> Seq(Events)]
      /\ deleting \in [Viewers -> {"no", "stored", "lost"}]
  BY InvGives DEF Inv, CrossTabTypeOK
<1>2. \A v \in Viewers : UpdatesPaired(channel[v]) /\ (tab[v].view = "left" => channel[v] = <<>>)
  BY DEF Inv, NewsHeld
(* Nobody has been told yet, or ever will.                                 *)
<1>3. CASE DeleteHere(t) \/ DeleteFails(t)
  <2>1. DeletionUntold'
    BY <1>1, <1>3 DEF DeleteHere, DeleteFails, DeletionUntold
  <2>2. UNCHANGED <<tab, sent, channel>>
    BY <1>3 DEF DeleteHere, DeleteFails
  <2>3. NewsHeld'
    BY <1>2, <2>1, <2>2 DEF NewsHeld
  <2>4. ASSUME server'.born = 0 PROVE Before'
    <3>1. ~DeleteHere(t)
      BY <2>4, DeleteTypes DEF Inv
    <3>2. server' = server
      BY <1>3, <3>1 DEF DeleteFails
    <3> QED
      BY <2>2, <2>4, <3>2 DEF Inv, Before, TabHolds, HearsOfList, HearsOfDetail, SomeUntold
  <2> QED
    BY <2>3, <2>4
<1>4. CASE DeleteSucceeds(t)
  <2>1. tab' = [tab EXCEPT ![t] = Left] /\ server' = server
        /\ \A v \in Viewers : channel'[v] = IF v = t \/ tab[v].view = "left" THEN <<>>
                              ELSE channel[v] \o <<"conversation-deleted", "list-changed">>
    BY <1>1, <1>4 DEF DeleteSucceeds
  <2>2. "conversation-deleted" \in Events /\ "list-changed" \in Events
    BY DEF Events
  <2>3. ASSUME NEW v \in Viewers
        PROVE  /\ tab'[v].view = "open" => Holds(channel'[v], "conversation-deleted")
               /\ UpdatesPaired(channel'[v]) /\ (tab'[v].view = "left" => channel'[v] = <<>>)
    <3>1. CASE v = t \/ tab[v].view = "left"
      <4>1. tab'[v].view = "left"
        BY <1>1, <2>1, <3>1, LeftType
      <4>2. UpdatesPaired(channel'[v]) /\ channel'[v] = <<>>
        BY <2>1, <3>1 DEF UpdatesPaired
      <4> QED
        BY <4>1, <4>2
    <3>2. CASE ~(v = t \/ tab[v].view = "left")
      BY <1>1, <1>2, <2>1, <2>2, <3>2, NewsPosted
    <3> QED
      BY <3>1, <3>2
  <2>4. NewsHeld'
    BY <2>3 DEF NewsHeld
  <2>5. server'.born # 0
    BY <1>4, <2>1 DEF DeleteSucceeds, DeletionUntold
  <2> QED
    BY <2>4, <2>5
<1> QED
  BY <1>3, <1>4 DEF DeleteStep

(* What handling an event leaves of a tab.                                 *)
LEMMA HandleIs ==
  ASSUME NEW s \in TabState, NEW event \in Events
  PROVE  LET u == [Handle(s, event) EXCEPT !.unheard = StillUnheard(s, event)]
         IN  /\ u.view = s.view \/ u.view = "deleted"
             /\ event = "conversation-deleted" => u.view = "deleted"
             /\ u.phase = s.phase /\ u.turn = s.turn /\ u.applied = s.applied
             /\ \A stored : KnowsOf(stored, s) /\ ShowsOf(stored, s) => KnowsOf(stored, u) /\ ShowsOf(stored, u)
             /\ ~u.unheard /\ event # "conversation-updated" => ~s.unheard
             /\ \/ u.list.fetch = "asked"
                \/ u.list = s.list /\ event # "list-changed"
             /\ \/ u.detail.fetch = "asked"
                \/ u.detail = s.detail /\ event # "conversation-updated"
                \/ u.unheard
<1> DEFINE h == Handle(s, event)
           b == StillUnheard(s, event)
           u == [h EXCEPT !.unheard = b]
<1>1. h \in {InvalidateList(s), InvalidateDetail(s), s, [s EXCEPT !.view = "deleted"]}
  BY DEF Handle, Events
<1>2. h \in TabState
  <2>1. InvalidateList(s) \in TabState /\ InvalidateDetail(s) \in TabState
    BY InvalidateTypes
  <2>2. [s EXCEPT !.view = "deleted"] \in TabState
    BY DEF TabState
  <2> QED
    BY <1>1, <2>1, <2>2
<1>3. /\ h.view = s.view \/ h.view = "deleted"
      /\ h.phase = s.phase /\ h.turn = s.turn /\ h.applied = s.applied
      /\ h.shown = s.shown /\ h.redone = s.redone /\ h.strayed = s.strayed
  BY <1>1, InvalidateIs DEF TabState
<1>4. \A stored : KnowsOf(stored, s) /\ ShowsOf(stored, s) => KnowsOf(stored, h) /\ ShowsOf(stored, h)
  <2> TAKE stored
  <2> HAVE KnowsOf(stored, s) /\ ShowsOf(stored, s)
  <2>1. CASE h = [s EXCEPT !.view = "deleted"]
    <3>1. h.list = s.list /\ h.detail = s.detail
      BY <2>1 DEF TabState
    <3> QED
      BY <1>3, <3>1 DEF KnowsOf, ShowsOf
  <2>2. CASE h \in {InvalidateList(s), InvalidateDetail(s), s}
    BY <2>2, InvalidateSees
  <2> QED
    BY <1>1, <2>1, <2>2
<1>5. b \in BOOLEAN
  BY DEF StillUnheard, TabState
<1> HIDE DEF h, b
<1>6. /\ u.view = h.view /\ u.phase = h.phase /\ u.turn = h.turn /\ u.applied = h.applied
      /\ u.shown = h.shown /\ u.redone = h.redone /\ u.strayed = h.strayed
      /\ u.list = h.list /\ u.detail = h.detail /\ u.unheard = b
  BY <1>2 DEF TabState
<1> HIDE DEF u
<1>7. \A stored : KnowsOf(stored, h) /\ ShowsOf(stored, h) => KnowsOf(stored, u) /\ ShowsOf(stored, u)
  BY <1>6 DEF KnowsOf, ShowsOf
<1>8. event = "conversation-deleted" => h.view = "deleted"
  BY DEF h, Handle, TabState
<1>9. \/ h.list.fetch = "asked"
      \/ h.list = s.list /\ event # "list-changed"
  BY InvalidateIs DEF h, Handle, Events, TabState
<1>10. \/ h.detail.fetch = "asked"
       \/ h.detail = s.detail /\ event # "conversation-updated"
       \/ b
  BY InvalidateIs DEF h, b, Handle, StillUnheard, Events, TabState
<1>11. ~b /\ event # "conversation-updated" => ~s.unheard
  BY DEF b, StillUnheard
<1>12. \A stored : KnowsOf(stored, s) /\ ShowsOf(stored, s) => KnowsOf(stored, u) /\ ShowsOf(stored, u)
  BY <1>4, <1>7
<1> QED
  BY <1>3, <1>6, <1>8, <1>9, <1>10, <1>11, <1>12 DEF h, b, u

LEMMA ReceiveHolds ==
  ASSUME Inv, UNCHANGED deleting, NEW t \in Viewers, Receive(t)
  PROVE  NewsHeld' /\ (server'.born = 0 => Before')
<1> DEFINE event == Head(channel[t])
           s == tab[t]
           u == [Handle(s, event) EXCEPT !.unheard = StillUnheard(s, event)]
<1>1. /\ server \in SavedRow /\ TabsTyped /\ s \in TabState
      /\ channel \in [Viewers -> Seq(Events)] /\ channel[t] \in Seq(Events)
  BY InvGives
<1>2. event \in Events /\ u \in TabState /\ BusyWithTurn(u) /\ Becomes(t, u)
  BY ReceiveTypes DEF Inv
<1>3. /\ u.view = s.view \/ u.view = "deleted"
      /\ event = "conversation-deleted" => u.view = "deleted"
      /\ u.phase = s.phase /\ u.turn = s.turn /\ u.applied = s.applied
      /\ \A stored : KnowsOf(stored, s) /\ ShowsOf(stored, s) => KnowsOf(stored, u) /\ ShowsOf(stored, u)
      /\ ~u.unheard /\ event # "conversation-updated" => ~s.unheard
      /\ \/ u.list.fetch = "asked"
         \/ u.list = s.list /\ event # "list-changed"
      /\ \/ u.detail.fetch = "asked"
         \/ u.detail = s.detail /\ event # "conversation-updated"
         \/ u.unheard
  BY <1>1, <1>2, HandleIs
<1> HIDE DEF u
<1>4. tab'[t] = Synced(u) /\ \A v \in Viewers \ {t} : tab'[v] = tab[v]
  BY <1>1, <1>2, BecomesTypes
<1>5. /\ channel[t] # <<>> /\ channel'[t] = Tail(channel[t]) /\ server' = server /\ sent' = sent
      /\ \A v \in Viewers \ {t} : channel'[v] = channel[v]
  BY <1>1 DEF Receive
<1>6. /\ \A e : Holds(channel[t], e) /\ event # e => Holds(channel'[t], e)
      /\ UpdatesPaired(channel[t]) => UpdatesPaired(channel'[t])
      /\ UpdatesPaired(channel[t]) /\ event = "conversation-updated" => Holds(channel'[t], "list-changed")
  BY <1>1, <1>5, NewsHandled
<1> HIDE DEF event
<1>7. s.view # "left" /\ u.view # "left"
  BY <1>3, <1>5 DEF Inv, NewsHeld
<1>8. NewsHeld'
  <2>1. tab'[t].view = u.view
    BY <1>2, <1>4, SyncedTypes
  <2>2. ASSUME NEW v \in Viewers, tab'[v].view = "open"
        PROVE  /\ tab[v].view = "open"
               /\ Holds(channel[v], "conversation-deleted") => Holds(channel'[v], "conversation-deleted")
    <3>1. CASE v = t
      BY <1>3, <1>6, <2>1, <2>2, <3>1
    <3>2. CASE v # t
      BY <1>4, <1>5, <2>2, <3>2
    <3> QED
      BY <3>1, <3>2
  <2>3. \A v \in Viewers : UpdatesPaired(channel'[v])
    BY <1>5, <1>6 DEF Inv, NewsHeld
  <2>4. ASSUME NEW v \in Viewers, tab'[v].view = "left" PROVE channel'[v] = <<>>
    BY <1>4, <1>5, <1>7, <2>1, <2>4 DEF Inv, NewsHeld
  <2> QED
    BY <1>5, <2>2, <2>3, <2>4, NewsKeptHeld DEF Inv
<1>9. ASSUME server'.born = 0 PROVE Before'
  <2>1. Before
    BY <1>5, <1>9 DEF Inv
  <2>2. SomeUntold' <=> SomeUntold
    BY <1>5 DEF SomeUntold
  <2>3. TabHolds(t)'
    <3>1. CASE s.view # "left"
      <4>1. /\ Settled(server, s)
            /\ s.phase = "busy" => Ahead(s.applied, server, sent[s.turn])
            /\ ~s.unheard => HearsOfList(t) /\ HearsOfDetail(t)
        BY <2>1, <3>1 DEF Before, TabHolds
      <4>2. KnowsOf(server', u) /\ ShowsOf(server', u)
        BY <1>3, <1>5, <4>1 DEF Settled
      <4>3. u.phase = "busy" => Ahead(u.applied, server', sent'[u.turn])
        BY <1>3, <1>5, <4>1
      <4>4. ~u.unheard => FreshOf(server', u.list) \/ Holds(channel'[t], "list-changed") \/ SomeUntold'
        <5> HAVE ~u.unheard
        <5>1. CASE event = "conversation-updated"
          BY <1>6, <5>1 DEF Inv, NewsHeld
        <5>2. CASE event # "conversation-updated" /\ u.list.fetch = "asked"
          BY <5>2 DEF FreshOf
        <5>3. CASE event # "conversation-updated" /\ u.list = s.list /\ event # "list-changed"
          BY <1>3, <1>5, <1>6, <2>2, <4>1, <5>3 DEF HearsOfList
        <5> QED
          BY <1>3, <5>1, <5>2, <5>3
      <4>5. ~u.unheard => FreshOf(server', u.detail) \/ Holds(channel'[t], "conversation-updated") \/ SomeUntold'
        <5> HAVE ~u.unheard
        <5>1. CASE u.detail.fetch = "asked"
          BY <5>1 DEF FreshOf
        <5>2. CASE u.detail = s.detail /\ event # "conversation-updated"
          BY <1>3, <1>5, <1>6, <2>2, <4>1, <5>2 DEF HearsOfDetail
        <5> QED
          BY <1>3, <5>1, <5>2
      <4> QED
        BY <1>1, <1>2, <1>4, <1>5, <4>2, <4>3, <4>4, <4>5, ThisTab
    <3> QED
      BY <1>7, <3>1
  <2>4. ASSUME NEW v \in Viewers \ {t} PROVE TabHolds(v)'
    <3>1. TabHolds(v) /\ tab'[v] = tab[v] /\ tab[v] \in TabState /\ BusyWithTurn(tab[v])
      BY <1>4, <2>1, InvGives DEF Before
    <3>2. NewsKept(v) /\ \A n \in TurnIds : AheadKept(n)
      BY <1>5, <2>2 DEF NewsKept, AheadKept
    <3> QED
      BY <1>1, <1>5, <3>1, <3>2, OtherTab DEF Grows
  <2> QED
    BY <1>5, <2>1, <2>3, <2>4 DEF Before
<1> QED
  BY <1>8, <1>9

-----------------------------------------------------------------------------
(***************************************************************************)
(* The theorems                                                            *)
(***************************************************************************)
LEMMA InitHolds == CrossTabInit => Inv
<1> SUFFICES ASSUME CrossTabInit PROVE Inv
  OBVIOUS
<1> DEFINE row == [Gone EXCEPT !.revision = 1]
           first == [Left EXCEPT !.view = "open", !.list = Loaded(row),
                                 !.detail = Loaded(row), !.applied = 1]
<1>1. CrossTabTypeOK
  BY InitTypes
<1>2. server = row /\ tab = [t \in Viewers |-> first] /\ sent = [n \in TurnIds |-> Unused]
      /\ channel = [t \in Viewers |-> <<>>]
  BY DEF CrossTabInit
<1>3. row.revision = 1 /\ row.log = <<>> /\ row.born = 0
  BY DEF Gone
<1>4. /\ first.view = "open" /\ first.phase = "ready" /\ first.applied = 1
      /\ first.shown = <<>> /\ first.redone = {} /\ first.unheard = FALSE
      /\ first.list = Loaded(row) /\ first.detail = Loaded(row)
  BY DEF Left
<1>5. Loaded(row).data = row /\ Loaded(row).fetch = "idle"
  BY DEF Loaded
<1> HIDE DEF row, first
<1>6. 1 \in 1 .. 1
  OBVIOUS
<1>7. NewsHeld
  BY <1>2, <1>3, <1>4 DEF NewsHeld, UpdatesPaired
<1>8. \A n \in TurnIds : KeepsOf(server, sent[n])
  BY <1>2 DEF KeepsOf, Unused
<1>9. ASSUME NEW t \in Viewers PROVE TabHolds(t)
  <2>1. tab[t] = first
    BY <1>2
  <2>2. KnowsOf(row, first)
    BY <1>3, <1>4, <1>5, <1>6 DEF KnowsOf, KnownOf
  <2>3. ShowsOf(row, first)
    BY <1>3, <1>4 DEF ShowsOf, Range
  <2>4. Synced(first) = first
    BY <1>3, <1>4, <1>5 DEF Synced
  <2>5. HearsOfList(t) /\ HearsOfDetail(t)
    BY <1>2, <1>4, <1>5, <2>1 DEF HearsOfList, HearsOfDetail, FreshOf
  <2> QED
    BY <1>2, <1>4, <2>1, <2>2, <2>3, <2>4, <2>5 DEF TabHolds, Settled
<1> QED
  BY <1>1, <1>2, <1>3, <1>7, <1>8, <1>9 DEF Inv, Before

(* Who has deleted a row has deleted a row: the count never goes back.     *)
LEMMA DeletionsCounted ==
  ASSUME CrossTabTypeOK, [CrossTabNext]_tabVars, DeletionUntold => server.born # 0
  PROVE  DeletionUntold' => server'.born # 0
<1>1. server \in SavedRow /\ sent \in [TurnIds -> SentTurn] /\ TabsTyped
      /\ deleting \in [Viewers -> {"no", "stored", "lost"}]
  BY TypesAre DEF Types
<1>2. ASSUME NEW t \in Viewers, DeleteHere(t) PROVE server'.born # 0
  BY <1>2, DeleteTypes DEF DeleteStep
<1>3. ASSUME NEW t \in Viewers, DeleteSucceeds(t) \/ DeleteFails(t) PROVE DeletionUntold /\ server' = server
  BY <1>3 DEF DeleteSucceeds, DeleteFails, DeletionUntold
<1>4. ASSUME NEW n \in TurnIds, Stored(n) PROVE server'.born = server.born
  BY <1>1, <1>4, StoredTypes DEF Grows
<1>5. ASSUME NEW n \in TurnIds, TurnStep(n) PROVE server'.born = server.born
  BY <1>4, <1>5 DEF TurnStep, AcceptSent, SaveSent, SavePartial
<1>6. ASSUME NEW t \in Viewers, TurnFails(t) PROVE server'.born = server.born
  BY <1>1, <1>4, <1>6 DEF TurnFails, Ends, TabsTyped, BusyWithTurn
<1>7. ASSUME NEW t \in Viewers,
             \/ Act(t) \/ PassGate(t) \/ MessageActionFails(t) \/ StopTurn(t) \/ Leave(t)
             \/ OpenEditor(t) \/ CloseEditor(t) \/ TurnFinishes(t) \/ TurnRefused(t)
             \/ Receive(t) \/ CacheStep(t) \/ RefetchFails(t)
      PROVE  server' = server
  BY <1>7 DEF Act, PassGate, MessageActionFails, StopTurn, Leave, OpenEditor, CloseEditor, TurnFinishes,
         TurnRefused, Receive, CacheStep, AnswerList, AnswerDetail, LoadList, LoadDetail, RefetchFails
<1>8. UNCHANGED deleting => (DeletionUntold' <=> DeletionUntold)
  BY DEF DeletionUntold
<1>9. CASE UNCHANGED tabVars
  BY <1>8, <1>9 DEF tabVars
<1>10. CASE CrossTabNext
  BY <1>2, <1>3, <1>5, <1>6, <1>7, <1>8, <1>10 DEF CrossTabNext, DeleteStep
<1> QED
  BY <1>9, <1>10

WholeInv == Inv /\ (DeletionUntold => server.born # 0)

LEMMA InvStep == WholeInv /\ [CrossTabNext]_tabVars => WholeInv'
<1> SUFFICES ASSUME Inv, DeletionUntold => server.born # 0, [CrossTabNext]_tabVars
             PROVE  NewsHeld' /\ (server'.born = 0 => Before')
  BY TypesStep, DeletionsCounted DEF WholeInv, Inv
<1>1. CASE UNCHANGED tabVars
  BY <1>1 DEF tabVars, Inv, NewsHeld, DeletionUntold, Before, TabHolds, HearsOfList, HearsOfDetail, SomeUntold
<1> QED
  BY <1>1, ActHolds, PassGateHolds, MessageActionFailsHolds, StopHolds, LeaveHolds, EditorHolds,
     FinishHolds, RefusedHolds, FailsHolds, DeleteHolds, ReceiveHolds, CacheHolds,
     RefetchFailsHolds, TurnStepHolds DEF CrossTabNext

LEMMA Invariance == CrossTabSpec => []WholeInv
<1>1. CrossTabInit => WholeInv
  BY InitHolds DEF WholeInv, CrossTabInit, DeletionUntold
<1> QED
  BY <1>1, InvStep, PTL DEF CrossTabSpec

(* Why tabs converge: until a deletion every cache, answer and request     *)
(* names a revision that stands for one row, a tab that is behind has news *)
(* of it on the way, and once a deletion is answered every open tab is     *)
(* about to hear of it.                                                    *)
THEOREM TabsAreTold == CrossTabSpec => []TabsInv
<1>1. WholeInv => TabsInv
  BY TabsInvIs DEF WholeInv, Inv
<1> QED
  BY Invariance, <1>1, PTL

(* Tabs converge: with nothing on its way, an open tab that no silent end  *)
(* of a turn, failed refetch or lost answer to a deletion has left behind  *)
(* holds the stored revision in both caches, and shows the stored          *)
(* transcript unless its own turn was stopped, refused or failed since.    *)
THEOREM QuietTabsConverge == CrossTabSpec => []QuietTabsAgree
<1>1. WholeInv => QuietTabsAgree
  <2> SUFFICES ASSUME Inv, NEW t \in Viewers, ~InFlight, ~DeletionUntold, Still(t), tab[t].view = "open", ~tab[t].unheard
               PROVE  /\ tab[t].list.data.revision = server.revision
                      /\ tab[t].detail.data = server
                      /\ ~tab[t].strayed => tab[t].shown = server.log
    BY DEF WholeInv, QuietTabsAgree
  <2>1. /\ tab[t].phase = "ready" /\ ~tab[t].editing /\ channel[t] = <<>>
        /\ tab[t].list.fetch = "idle" /\ tab[t].detail.fetch = "idle"
    BY DEF Still
  <2>2. \A event : ~Holds(channel[t], event)
    BY <2>1 DEF Holds
  <2>3. ~SomeUntold
    BY DEF InFlight, SomeUntold
  <2>4. server.born = 0
    BY <2>2 DEF Inv, NewsHeld
  <2>5. Settled(server, tab[t]) /\ HearsOfList(t) /\ HearsOfDetail(t)
    BY <2>4 DEF Inv, Before, TabHolds
  <2>6. /\ tab[t].list.data.revision = server.revision
        /\ tab[t].detail.data.revision = server.revision
    BY <2>1, <2>2, <2>3, <2>5 DEF HearsOfList, HearsOfDetail, FreshOf
  <2>7. tab[t].detail.data = server
    BY <2>5, <2>6 DEF Settled, KnowsOf, KnownOf
  <2>8. tab[t].applied = server.revision
    <3>1. server.revision \in Nat /\ tab[t].applied \in 1 .. server.revision /\ tab[t] \in TabState
      BY <2>5, InvGives DEF Settled, KnowsOf, SavedRow
    <3>2. ~(tab[t].detail.data.revision > tab[t].applied)
      <4> SUFFICES ASSUME tab[t].detail.data.revision > tab[t].applied PROVE FALSE
        OBVIOUS
      <4>1. Synced(tab[t]).applied = tab[t].detail.data.revision
        BY <2>1, <3>1 DEF Synced, TabState
      <4> QED
        BY <2>5, <2>6, <3>1, <4>1 DEF Settled
    <3> QED
      BY <2>6, <3>1, <3>2
  <2>9. ~tab[t].strayed => tab[t].shown = server.log
    BY <2>1, <2>5, <2>8 DEF Settled, ShowsOf
  <2> QED
    BY <2>6, <2>7, <2>9
<1> QED
  BY Invariance, <1>1, PTL

(* The row grows by a turn that passes the check, and by nothing else.     *)
LEMMA SavesIs ==
  ASSUME CrossTabTypeOK, CrossTabNext, NEW n \in TurnIds, Saves(n)
  PROVE  sent[n].at \in {"streaming", "aborting"} /\ ~Stale(n)
<1>1. server \in SavedRow /\ sent \in [TurnIds -> SentTurn] /\ TabsTyped
  BY TypesAre DEF Types
<1>2. /\ sent'[n].at # sent[n].at /\ server'.revision > server.revision
      /\ server.revision \in Nat
  BY <1>1 DEF Saves, SavedRow
<1>3. ASSUME NEW m \in TurnIds, NEW at \in {"streaming", "saved", "ended"}, Moves(m, at),
             sent[m].at \in {"streaming", "aborting"}, Stored(m)
      PROVE  sent[n].at \in {"streaming", "aborting"} /\ ~Stale(n)
  <2>1. m = n
    BY <1>1, <1>2, <1>3, MovesTypes
  <2>2. ~Stale(n)
    BY <1>1, <1>2, <1>3, <2>1, StoredTypes
  <2> QED
    BY <1>3, <2>1, <2>2
<1>4. server' # server
  BY <1>2
<1>5. ASSUME NEW m \in TurnIds, TurnStep(m)
      PROVE  sent[n].at \in {"streaming", "aborting"} /\ ~Stale(n)
  <2>1. CASE SaveSent(m)
    BY <1>3, <2>1 DEF SaveSent, Moves
  <2>2. CASE SavePartial(m)
    BY <1>3, <1>4, <2>2 DEF SavePartial, Moves
  <2> QED
    BY <1>4, <1>5, <2>1, <2>2 DEF TurnStep, AcceptSent
<1>6. ASSUME NEW t \in Viewers, TurnFails(t)
      PROVE  sent[n].at \in {"streaming", "aborting"} /\ ~Stale(n)
  <2>1. /\ tab[t].phase = "busy" /\ Stored(tab[t].turn) /\ sent[tab[t].turn].at = "streaming"
        /\ Moves(tab[t].turn, "ended")
    BY <1>4, <1>6 DEF TurnFails, Ends, Moves
  <2>2. tab[t].turn \in TurnIds
    BY <1>1, <2>1 DEF TabsTyped, BusyWithTurn
  <2> QED
    BY <1>3, <2>1, <2>2
<1>7. ASSUME NEW t \in Viewers, DeleteStep(t) PROVE FALSE
  <2>1. server'.revision = 0 \/ server' = server
    BY <1>7 DEF DeleteStep, DeleteHere, DeleteSucceeds, DeleteFails, Gone
  <2> QED
    BY <1>2, <2>1
<1>8. ASSUME NEW t \in Viewers,
             \/ Act(t) \/ PassGate(t) \/ MessageActionFails(t) \/ StopTurn(t) \/ Leave(t)
             \/ OpenEditor(t) \/ CloseEditor(t) \/ TurnFinishes(t) \/ TurnRefused(t)
             \/ Receive(t) \/ CacheStep(t) \/ RefetchFails(t)
      PROVE  FALSE
  <2>1. server' = server
    BY <1>8 DEF Act, PassGate, MessageActionFails, StopTurn, Leave, OpenEditor, CloseEditor, TurnFinishes,
           TurnRefused, Receive, CacheStep, AnswerList, AnswerDetail, LoadList, LoadDetail, RefetchFails
  <2> QED
    BY <1>4, <2>1
<1> QED
  BY <1>5, <1>6, <1>7, <1>8 DEF CrossTabNext

(* A turn sent while the list's revision was that of the transcript shown  *)
(* never takes away a turn that was stored, short of a deletion, but those *)
(* edited or regenerated in its own tab.                                   *)
THEOREM AgreedSendsKeep == CrossTabSpec => AgreedSendKeepsStored
<1> DEFINE Kept == \A n \in TurnIds : Saves(n) /\ sent[n].agreed /\ server.born = 0 => KeepsStored(n)
<1>1. WholeInv /\ [CrossTabNext]_tabVars => [Kept]_tabVars
  <2> SUFFICES ASSUME Inv, CrossTabNext, NEW n \in TurnIds,
                      Saves(n), sent[n].agreed, server.born = 0
               PROVE  KeepsStored(n)
    BY DEF WholeInv, tabVars
  <2>1. sent[n].at \in {"streaming", "aborting"} /\ ~Stale(n)
    BY SavesIs DEF Inv
  <2>2. KeepsOf(server, sent[n]) /\ server.revision >= 1 /\ server \in SavedRow
    BY DEF Inv, Before, CrossTabTypeOK
  <2>3. sent[n].base = server.revision
    BY <2>1, <2>2 DEF Stale, KeepsOf, SavedRow
  <2> QED
    BY <2>1, <2>2, <2>3 DEF KeepsOf, KeepsStored
<1> QED
  BY Invariance, <1>1, PTL DEF CrossTabSpec, AgreedSendKeepsStored

-----------------------------------------------------------------------------
(***************************************************************************)
(* The row and the turns implement SharedRows.                             *)
(***************************************************************************)
AbsentRow == [revision |-> 0, log |-> <<>>]
RowOf(row) == [revision |-> row.revision, log |-> IF row.revision = 0 THEN <<>> ELSE row.log]
None == [at |-> "none"]
AskedBy(turn) ==
  CASE turn.at = "posted"                   -> Pending(turn, "posted")
    [] turn.at \in {"streaming", "aborting"} -> Pending(turn, "accepted")
    [] OTHER                                -> None

LEMMA Seen ==
  /\ SharedRow = [row \in {"row"} |-> RowOf(server)]
  /\ SharedRow' = [row \in {"row"} |-> RowOf(server')]
  /\ PendingTurns = [n \in TurnIds |-> AskedBy(sent[n])]
  /\ PendingTurns' = [n \in TurnIds |-> AskedBy(sent'[n])]
BY DEF SharedRow, RowOf, PendingTurns, AskedBy, None

(* Turns end, and perhaps the row goes. *)
LEMMA EndsImplement ==
  ASSUME \A n \in TurnIds : AskedBy(sent'[n]) \in {AskedBy(sent[n]), None},
         server' = server \/ server'.revision = 0
  PROVE  Shared!Remove
<1> DEFINE ended == {n \in TurnIds : AskedBy(sent'[n]) = None}
<1>1. PendingTurns' = [n \in TurnIds |-> IF n \in ended THEN None ELSE AskedBy(sent[n])]
  BY Seen
<1>2. PendingTurns' = [n \in TurnIds |-> IF n \in ended THEN None ELSE PendingTurns[n]]
  BY <1>1, Seen
<1>3. ended \in SUBSET TurnIds
  OBVIOUS
<1> HIDE DEF ended
<1>4. Shared!Ended
  BY <1>2, <1>3 DEF Shared!Ended, Shared!NoRequest, None
<1>5. CASE server' = server
  <2>1. SharedRow' = [id \in {"row"} |-> IF id \in {} THEN AbsentRow ELSE SharedRow[id]]
    BY <1>5, Seen
  <2>2. {} \in SUBSET {"row"}
    OBVIOUS
  <2> QED
    BY <1>4, <2>1, <2>2 DEF Shared!Remove, AbsentRow
<1>6. CASE server'.revision = 0
  <2>1. RowOf(server') = AbsentRow
    BY <1>6 DEF RowOf, AbsentRow
  <2>2. SharedRow' = [id \in {"row"} |-> IF id \in {"row"} THEN AbsentRow ELSE SharedRow[id]]
    BY <2>1, Seen
  <2>3. {"row"} \in SUBSET {"row"}
    OBVIOUS
  <2> QED
    BY <1>4, <2>2, <2>3 DEF Shared!Remove, AbsentRow
<1> QED
  BY <1>5, <1>6

LEMMA MovesEnd ==
  ASSUME sent \in [TurnIds -> SentTurn], NEW n \in TurnIds, NEW at \in {"aborting", "saved", "ended"},
         Moves(n, at), at = "aborting" => sent[n].at = "streaming"
  PROVE  \A m \in TurnIds : AskedBy(sent'[m]) \in {AskedBy(sent[m]), None}
<1>1. /\ sent'[n] = [sent[n] EXCEPT !.at = at] /\ sent'[n].at = at
      /\ \A m \in TurnIds \ {n} : sent'[m] = sent[m]
  BY MovesTypes
<1>2. AskedBy(sent'[n]) \in {AskedBy(sent[n]), None}
  <2>1. CASE at = "aborting"
    <3>1. sent'[n].base = sent[n].base /\ sent'[n].log = sent[n].log
      BY <1>1 DEF SentTurn
    <3> QED
      BY <1>1, <2>1, <3>1 DEF AskedBy, Pending
  <2>2. CASE at \in {"saved", "ended"}
    BY <1>1, <2>2 DEF AskedBy
  <2> QED
    BY <2>1, <2>2
<1> QED
  BY <1>1, <1>2

(* A turn that was let in and is stored, or is refused the second time. *)
LEMMA StoringImplements ==
  ASSUME Types, NEW n \in TurnIds, sent[n].at \in {"streaming", "aborting"}, Stored(n),
         NEW at \in {"saved", "ended"}, Moves(n, at)
  PROVE  Shared!Next
<1>1. server \in SavedRow /\ sent \in [TurnIds -> SentTurn]
  BY DEF Types
<1>2. CASE Stale(n)
  <2>1. server' = server
    BY <1>1, <1>2, StoredTypes
  <2>2. Shared!Remove
    BY <1>1, <2>1, MovesEnd, EndsImplement
  <2> QED
    BY <2>2 DEF Shared!Next
<1>3. CASE ~Stale(n)
  <2>1. server'.revision = server.revision + 1 /\ server'.log = sent[n].log /\ server.revision \in Nat
    BY <1>1, <1>3, StoredTypes DEF SavedRow
  <2>2. /\ sent'[n].at = at /\ \A m \in TurnIds \ {n} : sent'[m] = sent[m]
    BY <1>1, MovesTypes
  <2>3. PendingTurns' = [PendingTurns EXCEPT ![n] = None]
    <3>1. AskedBy(sent'[n]) = None
      BY <2>2 DEF AskedBy
    <3> QED
      BY <2>2, <3>1, Seen
  <2>4. /\ PendingTurns[n] = Pending(sent[n], "accepted") /\ SharedRow["row"] = RowOf(server)
    BY Seen DEF AskedBy
  <2>5. /\ PendingTurns[n].at = "accepted" /\ PendingTurns[n].id = "row"
        /\ PendingTurns[n].base = sent[n].base /\ PendingTurns[n].stores = {sent[n].log}
    BY <2>4 DEF Pending
  <2>6. SharedRow["row"].revision = server.revision /\ (SharedRow["row"] = AbsentRow <=> server.revision = 0)
    BY <2>1, <2>4 DEF RowOf, AbsentRow
  <2>7. ~Shared!Stale(n)
    BY <1>3, <2>5, <2>6 DEF Stale, Shared!Stale, AbsentRow
  <2>8. Shared!NextRevision(SharedRow["row"]) = server.revision + 1
    BY <2>1, <2>6 DEF Shared!NextRevision, AbsentRow
  <2>9. SharedRow' = [SharedRow EXCEPT !["row"] = [revision |-> server.revision + 1, log |-> sent[n].log]]
    <3>1. RowOf(server') = [revision |-> server.revision + 1, log |-> sent[n].log]
      BY <2>1 DEF RowOf
    <3> QED
      BY <3>1, Seen
  <2>10. Shared!Save(n)
    BY <2>3, <2>5, <2>7, <2>8, <2>9 DEF Shared!Save, Shared!NoRequest, None
  <2> QED
    BY <2>10 DEF Shared!Next
<1> QED
  BY <1>2, <1>3

LEMMA AcceptImplements ==
  ASSUME Types, NEW n \in TurnIds, AcceptSent(n)
  PROVE  Shared!Next
<1>1. server \in SavedRow /\ sent \in [TurnIds -> SentTurn]
  BY DEF Types
<1>2. sent[n].at = "posted" /\ ~Stale(n) /\ Moves(n, "streaming") /\ server' = server
  BY DEF AcceptSent, Moves
<1>3. /\ sent'[n] = [sent[n] EXCEPT !.at = "streaming"] /\ sent'[n].at = "streaming"
      /\ \A m \in TurnIds \ {n} : sent'[m] = sent[m]
  BY <1>1, <1>2, MovesTypes
<1>4. sent'[n].base = sent[n].base /\ sent'[n].log = sent[n].log
  BY <1>1, <1>3 DEF SentTurn
<1>5. AskedBy(sent[n]) = Pending(sent[n], "posted") /\ AskedBy(sent'[n]) = Pending(sent[n], "accepted")
  BY <1>2, <1>3, <1>4 DEF AskedBy, Pending
<1>6. PendingTurns[n] = Pending(sent[n], "posted") /\ PendingTurns'[n] = Pending(sent[n], "accepted")
      /\ SharedRow["row"] = RowOf(server) /\ SharedRow' = SharedRow
  BY <1>2, <1>5, Seen
<1>7. /\ PendingTurns[n].at = "posted" /\ PendingTurns[n].id = "row"
      /\ PendingTurns[n].base = sent[n].base
      /\ [PendingTurns[n] EXCEPT !.at = "accepted"] = Pending(sent[n], "accepted")
  BY <1>6 DEF Pending
<1>8. PendingTurns' = [PendingTurns EXCEPT ![n] = Pending(sent[n], "accepted")]
  BY <1>3, <1>5, Seen
<1>9. SharedRow["row"].revision = server.revision /\ (SharedRow["row"] = AbsentRow <=> server.revision = 0)
  BY <1>6 DEF RowOf, AbsentRow
<1>10. ~Shared!Stale(n)
  BY <1>2, <1>7, <1>9 DEF Stale, Shared!Stale, AbsentRow
<1>11. Shared!Accept(n)
  BY <1>6, <1>7, <1>8, <1>10 DEF Shared!Accept
<1> QED
  BY <1>11 DEF Shared!Next

LEMMA PostImplements ==
  ASSUME Types, NEW t \in Viewers, NEW redone, NEW log, PostTurn(t, redone, log), server' = server
  PROVE  Shared!Next
<1>1. PICK n \in TurnIds :
        /\ \A m \in TurnIds : sent[m].at = "unused" <=> m >= n
        /\ sent' = [sent EXCEPT ![n] = [at |-> "posted", base |-> BaseRevision(tab[t]), log |-> Append(log, n),
                                        drops |-> redone, agreed |-> BaseRevision(tab[t]) = tab[t].applied]]
  BY DEF PostTurn
<1>2. sent[n].at = "unused" /\ DOMAIN sent = TurnIds
  BY <1>1 DEF Types, TurnIds
<1>3. sent'[n].at = "posted" /\ \A m \in TurnIds \ {n} : sent'[m] = sent[m]
  BY <1>1, <1>2
<1>4. AskedBy(sent[n]) = None /\ AskedBy(sent'[n]) = Pending(sent'[n], "posted")
  BY <1>2, <1>3 DEF AskedBy
<1>5. PendingTurns[n] = None /\ PendingTurns'[n] = Pending(sent'[n], "posted") /\ SharedRow' = SharedRow
  BY <1>4, Seen
<1>6. PendingTurns' = [PendingTurns EXCEPT ![n] = PendingTurns'[n]]
  BY <1>3, Seen
<1>7. PendingTurns'[n].at = "posted" /\ PendingTurns'[n].id \in {"row"}
  BY <1>5 DEF Pending
<1>8. Shared!Ask(n)
  BY <1>5, <1>6, <1>7 DEF Shared!Ask, Shared!NoRequest, None
<1> QED
  BY <1>8 DEF Shared!Next

LEMMA AbortImplements ==
  ASSUME Types, NEW t \in Viewers, AbortTurn(t), server' = server \/ server'.revision = 0
  PROVE  Shared!Next
<1>1. TabsTyped /\ sent \in [TurnIds -> SentTurn]
  BY DEF Types
<1>2. \A n \in TurnIds : AskedBy(sent'[n]) \in {AskedBy(sent[n]), None}
  <2>1. CASE sent' = sent
    BY <2>1
  <2>2. ASSUME NEW at \in {"aborting", "ended"}, tab[t].turn \in TurnIds, Moves(tab[t].turn, at),
               at = "aborting" => sent[tab[t].turn].at = "streaming"
        PROVE  \A n \in TurnIds : AskedBy(sent'[n]) \in {AskedBy(sent[n]), None}
    BY <1>1, <2>2, MovesEnd
  <2> QED
    BY <1>1, <2>1, <2>2, AbortTypes
<1>3. Shared!Remove
  BY <1>2, EndsImplement
<1> QED
  BY <1>3 DEF Shared!Next

LEMMA TabStepImplements ==
  ASSUME Types, NEW t \in Viewers, TurnFinishes(t) \/ TurnRefused(t) \/ TurnFails(t)
  PROVE  Shared!Next
<1> DEFINE n == tab[t].turn
<1>1. tab[t].phase = "busy" /\ Moves(n, "ended") /\ sent \in [TurnIds -> SentTurn]
  BY DEF TurnFinishes, TurnRefused, TurnFails, Ends, Moves, Types
<1>2. n \in TurnIds
  BY <1>1 DEF Types, TabsTyped, BusyWithTurn
<1>3. CASE server' = server
  <2>1. Shared!Remove
    BY <1>1, <1>2, <1>3, MovesEnd, EndsImplement
  <2> QED
    BY <2>1 DEF Shared!Next
<1>4. CASE server' # server
  <2>1. sent[n].at = "streaming" /\ Stored(n)
    BY <1>4 DEF TurnFinishes, TurnRefused, TurnFails, Ends
  <2> QED
    BY <1>1, <1>2, <2>1, StoringImplements
<1> QED
  BY <1>3, <1>4

LEMMA StepImplements ==
  ASSUME Types, [CrossTabNext]_tabVars
  PROVE  [Shared!Next]_(Shared!sharedVars)
<1>1. ASSUME NEW t \in Viewers,
             \/ Act(t) \/ MessageActionFails(t) \/ OpenEditor(t) \/ CloseEditor(t)
             \/ Receive(t) \/ CacheStep(t) \/ RefetchFails(t)
      PROVE  server' = server /\ sent' = sent
  BY <1>1 DEF Act, MessageActionFails, OpenEditor, CloseEditor, Receive, CacheStep, AnswerList, AnswerDetail,
              LoadList, LoadDetail, RefetchFails
<1>2. ASSUME server' = server, sent' = sent PROVE UNCHANGED Shared!sharedVars
  BY <1>2, Seen DEF Shared!sharedVars
<1>3. ASSUME NEW t \in Viewers, PassGate(t) PROVE Shared!Next
  BY <1>3, PostImplements DEF PassGate
<1>4. ASSUME NEW t \in Viewers, StopTurn(t) \/ Leave(t) PROVE Shared!Next
  BY <1>4, AbortImplements DEF StopTurn, Leave
<1>5. ASSUME NEW t \in Viewers, DeleteStep(t)
      PROVE  Shared!Next \/ (server' = server /\ sent' = sent)
  <2>1. CASE DeleteHere(t)
    <3>1. server'.revision = 0 /\ sent' = sent
      BY <2>1 DEF DeleteHere, Gone
    <3>2. Shared!Remove
      BY <3>1, EndsImplement
    <3> QED
      BY <3>2 DEF Shared!Next
  <2>2. CASE DeleteSucceeds(t)
    BY <2>2, AbortImplements DEF DeleteSucceeds
  <2>3. CASE DeleteFails(t)
    BY <2>3 DEF DeleteFails
  <2> QED
    BY <1>5, <2>1, <2>2, <2>3 DEF DeleteStep
<1>6. ASSUME NEW t \in Viewers, TurnFinishes(t) \/ TurnRefused(t) \/ TurnFails(t) PROVE Shared!Next
  BY <1>6, TabStepImplements
<1>7. ASSUME NEW n \in TurnIds, TurnStep(n) PROVE Shared!Next
  <2>1. CASE AcceptSent(n)
    BY <2>1, AcceptImplements
  <2>2. CASE SaveSent(n)
    BY <2>2, StoringImplements DEF SaveSent, Moves
  <2>3. CASE SavePartial(n)
    <3>1. Moves(n, "ended") /\ sent[n].at = "aborting" /\ sent \in [TurnIds -> SentTurn]
      BY <2>3 DEF SavePartial, Moves, Types
    <3>2. CASE Stored(n)
      BY <3>1, <3>2, StoringImplements
    <3>3. CASE server' = server
      <4>1. Shared!Remove
        BY <3>1, <3>3, MovesEnd, EndsImplement
      <4> QED
        BY <4>1 DEF Shared!Next
    <3> QED
      BY <2>3, <3>2, <3>3 DEF SavePartial
  <2> QED
    BY <1>7, <2>1, <2>2, <2>3 DEF TurnStep
<1>8. CASE UNCHANGED tabVars
  BY <1>2, <1>8 DEF tabVars
<1>9. CASE CrossTabNext
  BY <1>1, <1>2, <1>3, <1>4, <1>5, <1>6, <1>7, <1>9 DEF CrossTabNext
<1> QED
  BY <1>8, <1>9

(* The one row that stands for the server changes as SharedRows promises:  *)
(* for any number of tabs and turns, whatever is stopped, refused, failed  *)
(* or deleted.                                                             *)
THEOREM ReducedServerImplements == CrossTabSpec => SharesRow
<1>1. CrossTabInit => Shared!Init
  <2> SUFFICES ASSUME CrossTabInit PROVE Shared!Init
    OBVIOUS
  <2>1. \A n \in TurnIds : AskedBy(sent[n]) = None
    BY DEF CrossTabInit, Unused, AskedBy
  <2> QED
    BY <2>1, Seen DEF Shared!Init, Shared!NoRequest, None
<1>2. CrossTabTypeOK /\ [CrossTabNext]_tabVars => [Shared!Next]_(Shared!sharedVars)
  BY TypesAre, StepImplements
<1> QED
  BY <1>1, <1>2, CrossTabTypes, PTL DEF CrossTabSpec, SharesRow, Shared!Spec
=============================================================================
