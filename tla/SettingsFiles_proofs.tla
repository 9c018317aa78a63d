------------------------ MODULE SettingsFiles_proofs ------------------------
(***************************************************************************)
(* Proofs about SettingsFiles, for any requests, connections, keys, rates, *)
(* initial files, operations, faults and number of saves.                  *)
(***************************************************************************)
EXTENDS SettingsFiles, SequenceTheorems, TLAPS

(* The save a file comes from; 0 for a file the server found at start. *)
By(file) == Read(file, "by", 0)

(* secrets.json is ahead of settings.json, and by the save under way when  *)
(* that one has written it.                                                *)
PairOrdered ==
  /\ secretsFile # Broken => By(secretsFile) >= By(settingsFile)
  /\ By(settingsFile) <= saves
  /\ wrote => /\ queue # <<>>
              /\ secretsFile \notin {None, Broken}
              /\ secretsFile.by = queue[1].by

(* Saves are queued in the order of their numbers, all newer than          *)
(* settings.json.                                                          *)
QueueOrdered ==
  /\ \A i \in 1 .. Len(queue) : By(settingsFile) < queue[i].by /\ queue[i].by <= saves
  /\ \A i, j \in 1 .. Len(queue) : i < j => queue[i].by < queue[j].by

Unreadable == settingsFile = Broken \/ secretsFile = Broken

(* A request's load saw no public tree newer than the one on disk and      *)
(* secrets no older than that tree; while a file is unreadable, a load     *)
(* that came through noticed; and then it found no connections.            *)
Sensible(q) ==
  /\ q.publicBy <= By(settingsFile)
  /\ q.at = "apply" /\ ~q.recovered => q.secretBy >= q.publicBy
  /\ q.recovered => q.loaded.connections = {}
  /\ Unreadable /\ q.at = "apply" => q.recovered
  /\ settingsFile = Broken => q.at # "secrets"

LoadsSensible == \A r \in Requests : Sensible(requests[r])

(* While a file is unreadable only confirmed saves are queued. *)
BrokenGuarded ==
  /\ secretsFile = Broken => settingsFile # None
  /\ Unreadable => \A i \in 1 .. Len(queue) : queue[i].kind = "overwrite"

IInv == TypeOK /\ PairOrdered /\ QueueOrdered /\ LoadsSensible /\ BrokenGuarded

-----------------------------------------------------------------------------
(* What the operators return. *)
LEMMA MergeType ==
  ASSUME NEW S, NEW secret \in Secrets
  PROVE  Merge(S, secret) \in Secrets
  BY DEF Merge, Secrets

LEMMA DefaultsType == NoSecrets \in Secrets /\ Defaults \in Settings /\ Idle \in Request
<1>1. NoSecrets \in Secrets
  BY DEF NoSecrets, Secrets
<1>2. Defaults \in Settings
  BY <1>1, SettingsAssumption DEF Defaults, Settings
<1> QED
  BY <1>1, <1>2 DEF Idle, Request

LEMMA ByType == TypeOK => By(settingsFile) \in Nat /\ By(secretsFile) \in Nat
  BY DEF TypeOK, By, Read, PublicFile, SecretFile

(* The loaded half of a request that has read settings.json. *)
LEMMA AfterPublicType ==
  ASSUME TypeOK, NEW kind \in {"get", "patch", "overwrite", "secret", "fx"}
  PROVE  LET q == AfterPublic(kind)
         IN  /\ q \in Request
             /\ q.at = IF settingsFile \in {None, Broken} THEN "apply" ELSE "secrets"
             /\ q.recovered = (settingsFile = Broken)
             /\ q.publicBy = By(settingsFile)
             /\ q.secretBy = 0
             /\ settingsFile = Broken => q.loaded.connections = {}
<1> DEFINE at     == IF settingsFile \in {None, Broken} THEN "apply" ELSE "secrets"
           conns  == Read(settingsFile, "connections", {})
           rate   == Read(settingsFile, "rate", DefaultRate)
           loaded == [Defaults EXCEPT !.connections = conns, !.rate = rate]
           broken == settingsFile = Broken
           by     == By(settingsFile)
<1>1. conns \in SUBSET Connections /\ rate \in Rates /\ (settingsFile = Broken => conns = {})
  BY SettingsAssumption DEF TypeOK, Read, PublicFile
<1>2. loaded \in Settings /\ loaded.connections = conns
  BY <1>1, DefaultsType DEF Settings
<1>3. by \in Nat
  BY ByType
<1>4. at \in {"apply", "secrets"} /\ broken \in BOOLEAN
  OBVIOUS
<1>5. AfterPublic(kind) = [Idle EXCEPT !.at = at, !.kind = kind, !.recovered = broken,
                                       !.loaded = loaded, !.publicBy = by]
  BY DEF AfterPublic, By
<1>6. Idle.secretBy = 0
  BY DEF Idle
<1> HIDE DEF at, conns, rate, loaded, broken, by
<1>7. /\ AfterPublic(kind) \in Request
      /\ AfterPublic(kind).at = at /\ AfterPublic(kind).recovered = broken
      /\ AfterPublic(kind).publicBy = by /\ AfterPublic(kind).secretBy = 0
      /\ AfterPublic(kind).loaded = loaded
  BY <1>2, <1>3, <1>4, <1>5, <1>6, DefaultsType DEF Request
<1> QED
  BY <1>1, <1>2, <1>7 DEF at, broken, by

(* Whatever a request may save is settings. *)
LEMMA CandidatesType ==
  ASSUME NEW q \in Request, NEW s \in Candidates(q)
  PROVE  /\ s \in Settings
         /\ q.kind # "get"
         /\ q.recovered /\ q.loaded.connections = {} => q.kind = "overwrite"
<1>1. q.loaded \in Settings
  BY DEF Request
<1>2. ASSUME s \in Patched(q.loaded) PROVE s \in Settings
  <2>1. CASE \E rate \in Rates : s = [q.loaded EXCEPT !.rate = rate]
    BY <1>1, <2>1 DEF Settings
  <2>2. CASE \E conns \in SUBSET Connections, retyped \in SUBSET Connections :
               s = WithConnections(q.loaded, conns, retyped)
    <3>1. PICK conns \in SUBSET Connections, retyped \in SUBSET Connections :
                 s = WithConnections(q.loaded, conns, retyped)
      BY <2>2
    <3> DEFINE kept == Merge((conns \cap q.loaded.connections) \ retyped, q.loaded.secret)
    <3>2. kept \in Secrets
      BY <1>1, MergeType DEF Settings
    <3>3. s = [q.loaded EXCEPT !.connections = conns, !.secret = kept]
      BY <3>1 DEF WithConnections
    <3> HIDE DEF kept
    <3> QED
      BY <1>1, <3>2, <3>3 DEF Settings
  <2> QED
    BY <1>2, <2>1, <2>2 DEF Patched
<1>3. CASE q.kind \in {"patch", "overwrite"} /\ MayWrite(q)
  BY <1>2, <1>3 DEF Candidates, MayWrite
<1>4. CASE q.kind = "fx" /\ MayWrite(q)
  BY <1>1, <1>4 DEF Candidates, MayWrite, Settings
<1>5. CASE q.kind = "secret"
  BY <1>1, <1>5 DEF Candidates, Recredentialed, Settings, Secrets
<1> QED
  BY <1>3, <1>4, <1>5 DEF Candidates

-----------------------------------------------------------------------------
(* The invariant holds initially and every step keeps it. *)
LEMMA InitIInv == Init => IInv
<1> SUFFICES ASSUME Init PROVE IInv
  OBVIOUS
<1>1. PICK pair \in InitialFiles : settingsFile = pair[1] /\ secretsFile = pair[2]
  BY DEF Init
<1>2. /\ settingsFile \in PublicFile \cup {None, Broken}
      /\ secretsFile \in SecretFile \cup {None, Broken}
      /\ By(settingsFile) = 0 /\ By(secretsFile) = 0
      /\ secretsFile = Broken => settingsFile # None
  BY <1>1, FilesAssumption DEF By, Read, PublicFile, SecretFile
<1>3. queue = <<>> /\ ~wrote /\ saves = 0 /\ requests = [r \in Requests |-> Idle]
  BY DEF Init
<1>4. TypeOK
  <2>1. queue \in Seq(Save) /\ saves \in 0 .. MaxSaves /\ wrote \in BOOLEAN /\ torn \in BOOLEAN
    <3>1. wrote = FALSE /\ torn \in BOOLEAN
      BY Zenon DEF Init
    <3>2. queue \in Seq(Save) /\ saves \in 0 .. MaxSaves
      BY <1>3, SettingsAssumption, EmptySeq
    <3> QED
      BY <3>1, <3>2, Zenon
  <2>2. requests \in [Requests -> Request]
    BY <1>3, DefaultsType
  <2> QED
    BY <1>2, <2>1, <2>2 DEF TypeOK
<1>5. PairOrdered /\ QueueOrdered /\ BrokenGuarded
  BY <1>2, <1>3 DEF PairOrdered, QueueOrdered, BrokenGuarded
<1>6. LoadsSensible
  <2>1. /\ Idle.at = "idle" /\ Idle.recovered = FALSE
        /\ Idle.publicBy = 0 /\ Idle.secretBy = 0
    BY DEF Idle
  <2>2. Sensible(Idle)
    BY <1>2, <2>1 DEF Sensible
  <2> QED
    BY <1>3, <2>2 DEF LoadsSensible
<1> QED
  BY <1>4, <1>5, <1>6 DEF IInv

(* A step that only moves one request to another sensible state. *)
LEMMA RequestStep ==
  ASSUME IInv, NEW r \in Requests, NEW q \in Request, Sensible(q),
         requests' = [requests EXCEPT ![r] = q],
         UNCHANGED <<settingsFile, secretsFile, queue, wrote, saves, torn>>
  PROVE  IInv'
<1>1. TypeOK'
  <2>1. wrote' \in BOOLEAN /\ torn' \in BOOLEAN
    BY Zenon DEF IInv, TypeOK
  <2> QED
    BY <2>1 DEF IInv, TypeOK
<1>2. PairOrdered' /\ QueueOrdered' /\ BrokenGuarded'
  BY DEF IInv, PairOrdered, QueueOrdered, BrokenGuarded, Unreadable, By
<1>3. LoadsSensible'
  <2> SUFFICES ASSUME NEW o \in Requests PROVE Sensible(requests[o])'
    BY DEF LoadsSensible
  <2>1. Sensible(requests[o]) /\ requests'[o] = IF o = r THEN q ELSE requests[o]
    BY DEF IInv, LoadsSensible, TypeOK
  <2> QED
    BY <2>1 DEF Sensible, Unreadable, By
<1> QED
  BY <1>1, <1>2, <1>3 DEF IInv

LEMMA IdleSensible == IInv => Sensible(Idle) /\ Sensible([Idle EXCEPT !.at = "failed"])
  BY ByType DEF IInv, Sensible, Idle

(* Reading settings.json leaves a request sensible. *)
LEMMA AfterPublicSensible ==
  ASSUME IInv, NEW kind \in {"get", "patch", "overwrite", "secret", "fx"}
  PROVE  AfterPublic(kind) \in Request /\ Sensible(AfterPublic(kind))
<1> DEFINE q == AfterPublic(kind)
<1>1. /\ q \in Request
      /\ q.at = IF settingsFile \in {None, Broken} THEN "apply" ELSE "secrets"
      /\ q.recovered = (settingsFile = Broken)
      /\ q.publicBy = By(settingsFile)
      /\ q.secretBy = 0
      /\ settingsFile = Broken => q.loaded.connections = {}
  BY AfterPublicType DEF IInv
<1> HIDE DEF q
<1>2. settingsFile \in {None, Broken} => By(settingsFile) = 0
  BY DEF By, Read
<1>3. By(settingsFile) \in Nat
  BY ByType DEF IInv
<1>4. q.at = "apply" => settingsFile \in {None, Broken}
  BY <1>1
<1>5. Unreadable /\ settingsFile # Broken => settingsFile # None
  BY DEF IInv, BrokenGuarded, Unreadable
<1>6. Unreadable /\ q.at = "apply" => settingsFile = Broken
  BY <1>4, <1>5
<1> QED
  <2>1. q.publicBy <= By(settingsFile)
    BY <1>1, <1>3
  <2>2. q.at = "apply" /\ ~q.recovered => q.secretBy >= q.publicBy
    BY <1>1, <1>2, <1>4
  <2>3. q.recovered => q.loaded.connections = {}
    BY <1>1, Zenon
  <2>4. Unreadable /\ q.at = "apply" => q.recovered
    BY <1>1, <1>6, Zenon
  <2>5. settingsFile = Broken => q.at # "secrets"
    BY <1>1
  <2>6. q \in Request /\ Sensible(q)
    BY <1>1, <2>1, <2>2, <2>3, <2>4, <2>5 DEF Sensible
  <2> QED
    BY <2>6 DEF q

(* Reading secrets.json leaves it sensible too: the public tree it was     *)
(* loaded with is no newer than the secrets on disk.                       *)
LEMMA ReadSecretsStep ==
  ASSUME IInv, NEW r \in Requests, ReadSecrets(r)
  PROVE  IInv'
<1> DEFINE q == requests[r]
<1>1. q \in Request /\ Sensible(q) /\ q.at = "secrets" /\ settingsFile # Broken
  BY DEF IInv, TypeOK, LoadsSensible, Sensible, ReadSecrets
<1>2. UNCHANGED <<settingsFile, secretsFile, queue, wrote, saves, torn>>
  BY DEF ReadSecrets
<1>3. By(settingsFile) \in Nat /\ By(secretsFile) \in Nat
  BY ByType DEF IInv
<1>4. CASE secretsFile = Broken
  <2> DEFINE next == [q EXCEPT !.at = "apply", !.loaded = Defaults, !.recovered = TRUE,
                               !.publicBy = 0]
  <2>1. requests' = [requests EXCEPT ![r] = next]
    BY <1>4 DEF ReadSecrets
  <2> HIDE DEF q
  <2>2. /\ next \in Request /\ next.at = "apply" /\ next.recovered = TRUE
        /\ next.publicBy = 0 /\ next.loaded = Defaults
    BY <1>1, DefaultsType DEF Request
  <2> HIDE DEF next
  <2>3. next.loaded.connections = {} /\ next.recovered
    BY <2>2 DEF Defaults
  <2>4. Sensible(next)
    BY <1>3, <2>2, <2>3 DEF Sensible
  <2> QED
    BY <1>2, <2>1, <2>2, <2>4, RequestStep
<1>5. CASE secretsFile # Broken
  <2> DEFINE loaded == [q.loaded EXCEPT !.secret =
                          Merge(q.loaded.connections, Read(secretsFile, "secret", NoSecrets))]
             next   == [q EXCEPT !.at = "apply", !.loaded = loaded, !.secretBy = By(secretsFile)]
  <2>1. requests' = [requests EXCEPT ![r] = next]
    BY <1>5 DEF ReadSecrets, By
  <2>2. Read(secretsFile, "secret", NoSecrets) \in Secrets
    BY DefaultsType DEF Read, IInv, TypeOK, SecretFile
  <2>3. Merge(q.loaded.connections, Read(secretsFile, "secret", NoSecrets)) \in Secrets
    BY <2>2, MergeType
  <2>4. loaded \in Settings /\ loaded.connections = q.loaded.connections
    BY <1>1, <2>3 DEF Request, Settings
  <2> HIDE DEF q, loaded
  <2>5. /\ next \in Request /\ next.at = "apply" /\ next.recovered = q.recovered
        /\ next.publicBy = q.publicBy /\ next.secretBy = By(secretsFile)
        /\ next.loaded = loaded
    BY <1>1, <1>3, <2>4 DEF Request
  <2> HIDE DEF next
  <2>6. next.publicBy <= By(settingsFile) /\ next.secretBy >= next.publicBy
    <3>1. q.publicBy <= By(settingsFile) /\ q.publicBy \in Nat
      BY <1>1 DEF Sensible, Request
    <3>2. By(secretsFile) >= By(settingsFile)
      BY <1>5 DEF IInv, PairOrdered
    <3> QED
      BY <1>3, <2>5, <3>1, <3>2
  <2>7. next.recovered => next.loaded.connections = {}
    <3>1. q.recovered => q.loaded.connections = {}
      BY <1>1 DEF Sensible
    <3> QED
      BY <2>4, <2>5, <3>1, Zenon
  <2>8. ~Unreadable
    BY <1>1, <1>5 DEF Unreadable
  <2>9. Sensible(next)
    BY <1>1, <2>5, <2>6, <2>7, <2>8 DEF Sensible
  <2> QED
    BY <1>2, <2>1, <2>5, <2>9, RequestStep
<1> QED
  BY <1>4, <1>5

(* The save a request enqueues is newer than every queued one, and         *)
(* confirmed if a file is unreadable.                                      *)
LEMMA EnqueueStep ==
  ASSUME IInv, NEW r \in Requests, Enqueue(r)
  PROVE  IInv'
<1> DEFINE q == requests[r]
<1>1. q \in Request /\ Sensible(q) /\ q.at = "apply"
  BY DEF IInv, TypeOK, LoadsSensible, Enqueue
<1>2. PICK settings \in Candidates(q) :
        queue' = Append(queue, [settings |-> settings, by |-> saves', owner |-> r,
                                kind |-> q.kind])
  BY DEF Enqueue
<1> DEFINE save == [settings |-> settings, by |-> saves', owner |-> r, kind |-> q.kind]
<1>3. /\ saves \in Nat /\ saves' = saves + 1 /\ saves' \in 0 .. MaxSaves
      /\ UNCHANGED <<settingsFile, secretsFile, wrote, torn>>
      /\ requests' = [requests EXCEPT ![r].at = "saving"]
  BY SettingsAssumption DEF IInv, TypeOK, Enqueue
<1>4. /\ settings \in Settings /\ q.kind # "get"
      /\ q.recovered /\ q.loaded.connections = {} => q.kind = "overwrite"
  BY <1>1, CandidatesType
<1>5. q.kind \in {"patch", "overwrite", "secret", "fx"}
  BY <1>1, <1>4 DEF Request
<1>6. Unreadable => q.kind = "overwrite"
  BY <1>1, <1>4 DEF Sensible
<1> HIDE DEF q
<1>7. save \in Save /\ save.by = saves + 1 /\ save.kind = q.kind
  BY <1>3, <1>4, <1>5 DEF Save
<1> HIDE DEF save
<1>8. /\ queue \in Seq(Save) /\ queue' = Append(queue, save)
      /\ \A i \in 1 .. Len(queue) : queue[i] \in Save /\ queue[i].by \in Nat
  <2>1. queue \in Seq(Save)
    BY DEF IInv, TypeOK
  <2>2. queue' = Append(queue, save)
    BY <1>2 DEF save
  <2>3. \A i \in 1 .. Len(queue) : queue[i] \in Save
    BY <2>1, ElementOfSeq
  <2> QED
    BY <2>1, <2>2, <2>3 DEF Save
<1>9. /\ queue' \in Seq(Save) /\ queue' # <<>>
      /\ Len(queue') = Len(queue) + 1 /\ Len(queue) \in Nat
      /\ \A i \in 1 .. Len(queue) : queue'[i] = queue[i]
      /\ queue'[Len(queue) + 1] = save
  BY <1>7, <1>8, AppendProperties, LenProperties
<1>10. TypeOK'
  <2>1. requests' \in [Requests -> Request]
    BY <1>3 DEF IInv, TypeOK, Request
  <2>2. wrote' \in BOOLEAN /\ torn' \in BOOLEAN
    BY <1>3, Zenon DEF IInv, TypeOK
  <2> QED
    BY <1>3, <1>9, <2>1, <2>2 DEF IInv, TypeOK
<1>11. By(settingsFile)' = By(settingsFile) /\ By(secretsFile)' = By(secretsFile)
  BY <1>3 DEF By
<1>12. By(settingsFile) \in Nat /\ By(settingsFile) <= saves
  BY ByType DEF IInv, PairOrdered
<1>13. PairOrdered'
  <2>1. wrote => 1 \in 1 .. Len(queue)
    BY <1>8, <1>9, EmptySeq DEF IInv, PairOrdered
  <2> QED
    BY <1>3, <1>9, <1>11, <1>12, <2>1 DEF IInv, PairOrdered
<1>14. QueueOrdered'
  <2>1. \A i \in 1 .. Len(queue') :
          queue'[i] = IF i = Len(queue) + 1 THEN save ELSE queue[i]
    BY <1>9
  <2>2. \A i \in 1 .. Len(queue') :
          By(settingsFile) < queue'[i].by /\ queue'[i].by <= saves + 1
    BY <1>3, <1>7, <1>8, <1>9, <1>12, <2>1 DEF IInv, QueueOrdered
  <2>3. \A i, j \in 1 .. Len(queue') : i < j => queue'[i].by < queue'[j].by
    BY <1>3, <1>7, <1>8, <1>9, <2>1 DEF IInv, QueueOrdered
  <2> QED
    BY <1>3, <1>11, <2>2, <2>3 DEF QueueOrdered
<1>15. LoadsSensible'
  <2> SUFFICES ASSUME NEW o \in Requests PROVE Sensible(requests[o])'
    BY DEF LoadsSensible
  <2>1. /\ Sensible(requests[o]) /\ requests[o] \in Request
        /\ requests'[o] = IF o = r THEN [requests[o] EXCEPT !.at = "saving"] ELSE requests[o]
    BY <1>3 DEF IInv, LoadsSensible, TypeOK
  <2> QED
    BY <1>3, <1>11, <2>1 DEF Sensible, Unreadable, Request
<1>16. BrokenGuarded'
  <2>1. \A i \in 1 .. Len(queue') :
          queue'[i] = IF i = Len(queue) + 1 THEN save ELSE queue[i]
    BY <1>9
  <2> QED
    BY <1>3, <1>6, <1>7, <1>9, <2>1 DEF IInv, BrokenGuarded, Unreadable
<1> QED
  BY <1>10, <1>13, <1>14, <1>15, <1>16 DEF IInv

(* What the queue's head is. *)
LEMMA HeadOfQueue ==
  ASSUME IInv, queue # <<>>
  PROVE  /\ Head(queue) = queue[1] /\ 1 \in 1 .. Len(queue) /\ Len(queue) \in Nat
         /\ \A i \in 1 .. Len(queue) : queue[i] \in Save
         /\ Head(queue) \in Save
         /\ Head(queue).settings.connections \in SUBSET Connections
         /\ Head(queue).settings.rate \in Rates
         /\ Head(queue).settings.secret \in Secrets
         /\ Head(queue).by \in Nat
         /\ By(settingsFile) < Head(queue).by /\ Head(queue).by <= saves
<1>1. queue \in Seq(Save)
  BY DEF IInv, TypeOK
<1>2. 1 \in 1 .. Len(queue) /\ Len(queue) \in Nat /\ Head(queue) = queue[1]
  BY <1>1, EmptySeq, LenProperties
<1>3. \A i \in 1 .. Len(queue) : queue[i] \in Save
  BY <1>1, ElementOfSeq
<1>4. Head(queue) \in Save
  BY <1>2, <1>3
<1>5. Head(queue).settings \in Settings /\ Head(queue).by \in Nat
  BY <1>4 DEF Save
<1>6. By(settingsFile) < queue[1].by /\ queue[1].by <= saves
  BY <1>2 DEF IInv, QueueOrdered
<1> QED
  BY <1>2, <1>3, <1>4, <1>5, <1>6 DEF Settings

LEMMA WriteSecretsStep ==
  ASSUME IInv, WriteSecrets
  PROVE  IInv'
<1> DEFINE head == Head(queue)
           file == [secret |-> Merge(head.settings.connections, head.settings.secret),
                    by |-> head.by]
<1>1. /\ queue # <<>> /\ secretsFile' = file /\ wrote' = TRUE
      /\ UNCHANGED <<settingsFile, queue, requests, saves, torn>>
  BY DEF WriteSecrets
<1>2. file \in SecretFile /\ file.by = queue[1].by
  BY <1>1, HeadOfQueue, MergeType DEF SecretFile
<1> HIDE DEF file
<1>3. secretsFile' \notin {None, Broken} /\ By(secretsFile)' = queue[1].by
  BY <1>1, <1>2, FilesAssumption DEF By, Read
<1>4. By(settingsFile)' = By(settingsFile) /\ By(settingsFile) \in Nat
  BY <1>1, ByType DEF By, IInv
<1>5. TypeOK'
  <2>1. wrote' \in BOOLEAN /\ torn' \in BOOLEAN
    BY <1>1, Zenon DEF IInv, TypeOK
  <2> QED
    BY <1>1, <1>2, <2>1 DEF IInv, TypeOK
<1>6. PairOrdered'
  <2>1. By(settingsFile) < queue[1].by /\ queue[1].by \in Nat
    BY <1>1, HeadOfQueue
  <2>2. secretsFile'.by = queue[1].by
    BY <1>1, <1>2
  <2> QED
    BY <1>1, <1>3, <1>4, <2>1, <2>2 DEF IInv, PairOrdered
<1>7. QueueOrdered'
  BY <1>1, <1>4 DEF IInv, QueueOrdered
<1>8. Unreadable' => Unreadable
  BY <1>1, <1>3 DEF Unreadable
<1>9. LoadsSensible'
  BY <1>1, <1>4, <1>8 DEF IInv, LoadsSensible, Sensible
<1>10. BrokenGuarded'
  BY <1>1, <1>3, <1>8 DEF IInv, BrokenGuarded
<1> QED
  BY <1>5, <1>6, <1>7, <1>9, <1>10 DEF IInv

(* Finishing the head keeps what the files allow of the rest. *)
LEMMA FinishStep ==
  ASSUME IInv, queue # <<>>, NEW outcome \in {Idle, [Idle EXCEPT !.at = "failed"]},
         Finish(outcome), torn' \in BOOLEAN, UNCHANGED <<secretsFile, saves>>,
         settingsFile' \in PublicFile \cup {None, Broken},
         By(settingsFile)' \in {By(settingsFile), queue[1].by},
         secretsFile # Broken => By(secretsFile) >= By(settingsFile)',
         secretsFile = Broken => settingsFile' # None,
         Unreadable' => Unreadable,
         settingsFile' = Broken => settingsFile = Broken
  PROVE  IInv'
<1>1. /\ queue' = Tail(queue) /\ wrote' = FALSE
      /\ requests' = [requests EXCEPT ![Head(queue).owner] = outcome]
  BY DEF Finish
<1>2. /\ queue' \in Seq(Save) /\ Len(queue') = Len(queue) - 1
      /\ \A i \in 1 .. Len(queue') : queue'[i] = queue[i + 1]
  BY <1>1, HeadTailProperties DEF IInv, TypeOK
<1>3. /\ By(settingsFile) \in Nat /\ By(settingsFile)' \in Nat
      /\ By(settingsFile) <= By(settingsFile)'
      /\ By(settingsFile)' <= queue[1].by /\ queue[1].by <= saves
      /\ queue[1].by \in Nat /\ saves \in Nat
  BY HeadOfQueue, ByType, SettingsAssumption DEF IInv, TypeOK
<1>4. /\ outcome \in Request /\ outcome.at # "apply" /\ outcome.at # "secrets"
      /\ outcome.publicBy = 0 /\ outcome.recovered = FALSE
  <2>1. /\ Idle \in Request /\ Idle.at = "idle"
        /\ Idle.publicBy = 0 /\ Idle.recovered = FALSE
    BY DefaultsType DEF Idle
  <2>2. CASE outcome = Idle
    BY <2>1, <2>2
  <2>3. CASE outcome = [Idle EXCEPT !.at = "failed"]
    BY <2>1, <2>3 DEF Request
  <2> QED
    BY <2>2, <2>3
<1>5. TypeOK'
  <2>1. requests' \in [Requests -> Request]
    BY <1>1, <1>4 DEF IInv, TypeOK
  <2>2. wrote' \in BOOLEAN /\ torn' \in BOOLEAN
    BY <1>1, Zenon
  <2> QED
    BY <1>2, <2>1, <2>2 DEF IInv, TypeOK
<1>6. PairOrdered'
  <2>1. By(secretsFile)' = By(secretsFile)
    BY DEF By
  <2> QED
    BY <1>1, <1>3, <2>1 DEF PairOrdered
<1>7. QueueOrdered'
  <2>1. \A i \in 1 .. Len(queue') :
          /\ i + 1 \in 1 .. Len(queue) /\ queue'[i] = queue[i + 1] /\ queue[i + 1].by \in Nat
          /\ queue[1].by < queue[i + 1].by
    <3>1. \A i \in 1 .. Len(queue) : queue[i].by \in Nat
      BY HeadOfQueue DEF Save
    <3>2. Len(queue) \in Nat /\ 1 \in 1 .. Len(queue)
      BY HeadOfQueue
    <3>3. \A i \in 1 .. Len(queue') : i + 1 \in 1 .. Len(queue) /\ 1 < i + 1
      BY <1>2, <3>2
    <3>4. \A j \in 1 .. Len(queue) : 1 < j => queue[1].by < queue[j].by
      BY <3>2 DEF IInv, QueueOrdered
    <3> QED
      BY <1>2, <3>1, <3>3, <3>4
  <2>2. ASSUME NEW i \in 1 .. Len(queue')
        PROVE  By(settingsFile)' < queue'[i].by /\ queue'[i].by <= saves
    <3>1. queue[i + 1].by <= saves
      BY <2>1 DEF IInv, QueueOrdered
    <3>2. /\ queue'[i] = queue[i + 1] /\ queue[i + 1].by \in Nat
          /\ queue[1].by < queue[i + 1].by /\ saves' = saves
      BY <2>1
    <3> QED
      BY <1>3, <3>1, <3>2
  <2>3. ASSUME NEW i \in 1 .. Len(queue'), NEW j \in 1 .. Len(queue'), i < j
        PROVE  queue'[i].by < queue'[j].by
    <3>1. i + 1 < j + 1
      BY <1>2, <2>3, HeadOfQueue
    <3> QED
      BY <2>1, <3>1 DEF IInv, QueueOrdered
  <2> QED
    BY <2>2, <2>3 DEF QueueOrdered
<1>8. LoadsSensible'
  <2> SUFFICES ASSUME NEW o \in Requests PROVE Sensible(requests[o])'
    BY DEF LoadsSensible
  <2>1. /\ Sensible(requests[o]) /\ requests[o].publicBy \in Nat
        /\ requests'[o] \in {outcome, requests[o]}
    BY <1>1 DEF IInv, LoadsSensible, TypeOK, Request
  <2>2. CASE requests'[o] = outcome
    BY <1>3, <1>4, <2>2 DEF Sensible
  <2>3. CASE requests'[o] = requests[o]
    BY <1>3, <2>1, <2>3 DEF Sensible
  <2> QED
    BY <2>1, <2>2, <2>3
<1>9. BrokenGuarded'
  <2>1. \A i \in 1 .. Len(queue') : i + 1 \in 1 .. Len(queue) /\ queue'[i] = queue[i + 1]
    BY <1>2, HeadOfQueue
  <2> QED
    BY <2>1 DEF IInv, BrokenGuarded
<1> QED
  BY <1>5, <1>6, <1>7, <1>8, <1>9 DEF IInv

(* settings.json gets the number secrets.json already has. *)
LEMMA WriteSettingsStep ==
  ASSUME IInv, WriteSettings
  PROVE  IInv' /\ settingsFile' \in PublicFile
<1> DEFINE s    == Head(queue).settings
           file == [connections |-> s.connections, rate |-> s.rate, by |-> Head(queue).by,
                    saved |-> s.secret]
<1>1. /\ queue # <<>> /\ wrote /\ settingsFile' = file
      /\ Finish(Idle) /\ UNCHANGED <<secretsFile, saves>>
  BY DEF WriteSettings
<1>2. file \in PublicFile /\ file.by = queue[1].by
  BY <1>1, HeadOfQueue DEF PublicFile
<1> HIDE DEF file
<1>3. settingsFile' \notin {None, Broken} /\ By(settingsFile)' = queue[1].by
  BY <1>1, <1>2, FilesAssumption DEF By, Read
<1>4. secretsFile \notin {None, Broken} /\ By(secretsFile) = queue[1].by /\ queue[1].by \in Nat
  BY <1>1, HeadOfQueue DEF IInv, PairOrdered, By, Read
<1>5. ~Unreadable'
  BY <1>1, <1>3, <1>4 DEF Unreadable
<1>6. torn' \in BOOLEAN
  BY Zenon DEF WriteSettings
<1>7. IInv'
  BY <1>1, <1>2, <1>3, <1>4, <1>5, <1>6, FinishStep
<1> QED
  BY <1>1, <1>2, <1>7

LEMMA WriteGivesUpStep ==
  ASSUME IInv, WriteGivesUp
  PROVE  IInv'
<1>1. queue # <<>> /\ Finish([Idle EXCEPT !.at = "failed"])
  BY DEF WriteGivesUp
<1>2. UNCHANGED <<settingsFile, secretsFile, saves>>
  BY DEF WriteGivesUp
<1>3. By(settingsFile)' = By(settingsFile) /\ (Unreadable' => Unreadable)
  BY <1>2 DEF By, Unreadable
<1>4. /\ settingsFile' \in PublicFile \cup {None, Broken}
      /\ secretsFile # Broken => By(secretsFile) >= By(settingsFile)'
      /\ secretsFile = Broken => settingsFile' # None
      /\ settingsFile' = Broken => settingsFile = Broken
  BY <1>2, <1>3 DEF IInv, TypeOK, PairOrdered, BrokenGuarded
<1>5. torn' \in BOOLEAN
  BY Zenon DEF WriteGivesUp, IInv, TypeOK
<1> QED
  BY <1>1, <1>2, <1>3, <1>4, <1>5, FinishStep

LEMMA CrashStep ==
  ASSUME IInv, Crash
  PROVE  IInv'
<1>1. /\ requests' = [r \in Requests |-> Idle] /\ queue' = <<>> /\ wrote' = FALSE
      /\ UNCHANGED <<settingsFile, secretsFile, saves>>
  BY DEF Crash
<1>2. By(settingsFile)' = By(settingsFile) /\ By(secretsFile)' = By(secretsFile)
  BY <1>1 DEF By
<1>3. TypeOK'
  <2>1. requests' \in [Requests -> Request]
    BY <1>1, DefaultsType
  <2>2. wrote' \in BOOLEAN /\ torn' \in BOOLEAN
    BY <1>1, Zenon DEF Crash, IInv, TypeOK
  <2>3. queue' \in Seq(Save)
    BY <1>1, EmptySeq
  <2> QED
    BY <1>1, <2>1, <2>2, <2>3 DEF IInv, TypeOK
<1>4. PairOrdered' /\ QueueOrdered' /\ BrokenGuarded'
  BY <1>1, <1>2 DEF IInv, PairOrdered, QueueOrdered, BrokenGuarded, Unreadable
<1>5. LoadsSensible'
  <2>1. Sensible(Idle)
    BY IdleSensible
  <2>2. Sensible(Idle)'
    BY <1>1, <1>2, <2>1 DEF Sensible, Unreadable, Idle, Defaults, NoSecrets
  <2> QED
    BY <1>1, <2>2 DEF LoadsSensible
<1> QED
  BY <1>3, <1>4, <1>5 DEF IInv

LEMMA NextKeepsIInv == IInv /\ [Next]_vars => IInv'
<1> SUFFICES ASSUME IInv, [Next]_vars PROVE IInv'
  OBVIOUS
<1>1. Idle \in Request /\ Sensible(Idle)
  BY DefaultsType, IdleSensible
<1>2. ASSUME NEW r \in Requests, ReadPublic(r) PROVE IInv'
  <2>1. PICK kind \in Operations \ {"fx"} : requests' = [requests EXCEPT ![r] = AfterPublic(kind)]
    BY <1>2 DEF ReadPublic
  <2>2. kind \in {"get", "patch", "overwrite", "secret", "fx"}
    BY SettingsAssumption
  <2> QED
    BY <1>2, <2>1, <2>2, AfterPublicSensible, RequestStep DEF ReadPublic
<1>3. ASSUME NEW r \in Requests, StartFx(r) PROVE IInv'
  <2> DEFINE q == [Idle EXCEPT !.at = "fetch", !.kind = "fx"]
  <2>1. /\ q \in Request /\ q.at = "fetch" /\ q.recovered = Idle.recovered
        /\ q.publicBy = Idle.publicBy /\ q.loaded = Idle.loaded
    BY <1>1 DEF Request
  <2>2. requests' = [requests EXCEPT ![r] = q]
    BY <1>3 DEF StartFx
  <2> HIDE DEF q
  <2>3. Sensible(q)
    BY <1>1, <2>1 DEF Sensible
  <2> QED
    BY <1>3, <2>1, <2>2, <2>3, RequestStep DEF StartFx
<1>4. ASSUME NEW r \in Requests, FetchedFx(r) PROVE IInv'
  <2>1. PICK next \in {AfterPublic("fx"), Idle} : requests' = [requests EXCEPT ![r] = next]
    BY <1>4 DEF FetchedFx
  <2> QED
    BY <1>1, <1>4, <2>1, AfterPublicSensible, RequestStep DEF FetchedFx
<1>5. ASSUME NEW r \in Requests, Answer(r) \/ Acknowledge(r) PROVE IInv'
  BY <1>1, <1>5, RequestStep DEF Answer, Acknowledge
<1>6. CASE UNCHANGED vars
  BY <1>6 DEF vars, IInv, TypeOK, PairOrdered, QueueOrdered, LoadsSensible, Sensible,
              BrokenGuarded, Unreadable, By
<1> QED
  BY <1>2, <1>3, <1>4, <1>5, <1>6, ReadSecretsStep, EnqueueStep, WriteSecretsStep,
     WriteSettingsStep, WriteGivesUpStep, CrashStep DEF Next

-----------------------------------------------------------------------------
(* The two files and what is saved to them.  Settings are clean when they  *)
(* hold no secret of a connection they do not list: writing the two halves *)
(* apart and merging them again loses nothing of clean settings, and every *)
(* load and every writer makes clean ones.                                 *)
Clean(s) == Merge(s.connections, s.secret) = s.secret

AllClean ==
  /\ \A r \in Requests : Clean(requests[r].loaded)
  /\ \A i \in 1 .. Len(queue) : Clean(queue[i].settings)

(* A save that has written secrets.json left there the half that belongs   *)
(* to the settings.json it writes next.                                    *)
HalfWritten ==
  wrote => secretsFile.secret = Merge(queue[1].settings.connections, queue[1].settings.secret)

FilesInv == AllClean /\ HalfWritten /\ QuietFilesAgree

(* Every way of making new settings keeps them clean. *)
LEMMA CandidatesClean ==
  ASSUME NEW q \in Request, Clean(q.loaded), NEW s \in Candidates(q)
  PROVE  Clean(s)
<1>1. /\ q.loaded \in Settings /\ q.loaded.secret \in Secrets
      /\ \A c \in Connections : c \notin q.loaded.connections => q.loaded.secret[c] = None
  BY DEF Request, Settings, Secrets, Clean, Merge
<1>2. ASSUME NEW rate \in Rates, s = [q.loaded EXCEPT !.rate = rate] PROVE Clean(s)
  <2>1. s.connections = q.loaded.connections /\ s.secret = q.loaded.secret
    BY <1>1, <1>2 DEF Settings
  <2> QED
    BY <2>1 DEF Clean
<1>3. ASSUME s \in Patched(q.loaded) PROVE Clean(s)
  <2>1. CASE \E rate \in Rates : s = [q.loaded EXCEPT !.rate = rate]
    BY <1>2, <2>1
  <2>2. CASE \E conns \in SUBSET Connections, retyped \in SUBSET Connections :
               s = WithConnections(q.loaded, conns, retyped)
    <3>1. PICK conns \in SUBSET Connections, retyped \in SUBSET Connections :
                 s = WithConnections(q.loaded, conns, retyped)
      BY <2>2
    <3>2. s.connections = conns
      BY <1>1, <3>1 DEF WithConnections, Settings
    <3>3. s.secret = Merge((conns \cap q.loaded.connections) \ retyped, q.loaded.secret)
      BY <1>1, <3>1 DEF WithConnections, Settings
    <3> QED
      BY <3>2, <3>3 DEF Clean, Merge
  <2> QED
    BY <1>3, <2>1, <2>2 DEF Patched
<1>4. ASSUME s \in Recredentialed(q.loaded) PROVE Clean(s)
  <2>1. PICK c \in q.loaded.connections, key \in Keys \cup {None} :
               s = [q.loaded EXCEPT !.secret[c] = key]
    BY <1>4 DEF Recredentialed
  <2>2. s.connections = q.loaded.connections /\ s.secret = [q.loaded.secret EXCEPT ![c] = key]
    BY <1>1, <2>1 DEF Settings
  <2> QED
    BY <1>1, <2>2 DEF Clean, Merge, Secrets
<1> QED
  BY <1>2, <1>3, <1>4 DEF Candidates

LEMMA DefaultsClean == Clean(Defaults) /\ Clean(Idle.loaded)
  BY DEF Clean, Merge, Defaults, NoSecrets, Idle

LEMMA AfterPublicClean ==
  ASSUME TypeOK, NEW kind
  PROVE  Clean(AfterPublic(kind).loaded)
<1> DEFINE loaded == [Defaults EXCEPT !.connections = Read(settingsFile, "connections", {}),
                                      !.rate        = Read(settingsFile, "rate", DefaultRate)]
<1>1. loaded.secret = NoSecrets
  BY DEF Defaults
<1>2. Clean(loaded)
  BY <1>1 DEF Clean, Merge, NoSecrets
<1>3. AfterPublic(kind).loaded = loaded
  BY DEF AfterPublic, Idle
<1> QED
  BY <1>2, <1>3

(* The two files are left alone, and what a request loads or saves is      *)
(* clean: the invariant is kept.                                           *)
LEMMA LoadStep ==
  ASSUME IInv, FilesInv, NEW r \in Requests, NEW q, Clean(q.loaded),
         requests' = [requests EXCEPT ![r] = q],
         UNCHANGED <<settingsFile, secretsFile, queue, wrote, saves, torn>>
  PROVE  FilesInv'
<1>1. AllClean'
  <2>1. \A o \in Requests : requests'[o] \in {q, requests[o]}
    BY DEF IInv, TypeOK
  <2> QED
    BY <2>1 DEF FilesInv, AllClean
<1>2. HalfWritten' /\ QuietFilesAgree'
  BY DEF FilesInv, HalfWritten, QuietFilesAgree, Readable
<1> QED
  BY <1>1, <1>2 DEF FilesInv

LEMMA ReadSecretsClean ==
  ASSUME IInv, FilesInv, NEW r \in Requests, ReadSecrets(r)
  PROVE  FilesInv'
<1> DEFINE q == requests[r]
           next == IF secretsFile = Broken
                   THEN [q EXCEPT !.at = "apply", !.loaded = Defaults, !.recovered = TRUE,
                                  !.publicBy = 0]
                   ELSE [q EXCEPT !.at = "apply",
                                  !.loaded.secret = Merge(q.loaded.connections,
                                                          Read(secretsFile, "secret", NoSecrets)),
                                  !.secretBy = Read(secretsFile, "by", 0)]
<1>1. q \in Request /\ q.loaded \in Settings
  BY DEF IInv, TypeOK, Request
<1>2. /\ requests' = [requests EXCEPT ![r] = next]
      /\ UNCHANGED <<settingsFile, secretsFile, queue, wrote, saves, torn>>
  BY DEF ReadSecrets
<1> HIDE DEF q
<1>3. CASE secretsFile = Broken
  <2>1. next.loaded = Defaults
    BY <1>1, <1>3 DEF Request
  <2> QED
    BY <1>2, <2>1, DefaultsClean, LoadStep
<1>4. CASE secretsFile # Broken
  <2> DEFINE secret == Merge(q.loaded.connections, Read(secretsFile, "secret", NoSecrets))
  <2>1. next.loaded = [q.loaded EXCEPT !.secret = secret]
    BY <1>1, <1>4 DEF Request
  <2>2. next.loaded.connections = q.loaded.connections /\ next.loaded.secret = secret
    BY <1>1, <2>1 DEF Settings
  <2>3. Clean(next.loaded)
    BY <2>2 DEF Clean, Merge
  <2> HIDE DEF next
  <2> QED
    BY <1>2, <2>3, LoadStep
<1> QED
  BY <1>3, <1>4

LEMMA EnqueueClean ==
  ASSUME IInv, FilesInv, NEW r \in Requests, Enqueue(r)
  PROVE  FilesInv'
<1> DEFINE q == requests[r]
<1>1. q \in Request /\ Clean(q.loaded)
  BY DEF IInv, TypeOK, FilesInv, AllClean
<1>2. PICK settings \in Candidates(q) :
        queue' = Append(queue, [settings |-> settings, by |-> saves', owner |-> r,
                                kind |-> q.kind])
  BY DEF Enqueue
<1> DEFINE save == [settings |-> settings, by |-> saves', owner |-> r, kind |-> q.kind]
<1>3. /\ UNCHANGED <<settingsFile, secretsFile, wrote, torn>>
      /\ requests' = [requests EXCEPT ![r].at = "saving"]
  BY DEF Enqueue
<1>4. Clean(settings)
  BY <1>1, <1>2, CandidatesClean
<1> HIDE DEF q
<1>5. queue' = Append(queue, save) /\ Clean(save.settings)
  BY <1>2, <1>4
<1> HIDE DEF save
<1>6. queue \in Seq(Save) /\ Len(queue) \in Nat
  BY LenProperties DEF IInv, TypeOK
<1>7. /\ Len(queue') = Len(queue) + 1
      /\ \A i \in 1 .. Len(queue') :
           queue'[i] = IF i = Len(queue) + 1 THEN save ELSE queue[i]
  BY <1>5, <1>6
<1>8. AllClean'
  <2>1. \A i \in 1 .. Len(queue') : Clean(queue'[i].settings)
    BY <1>5, <1>6, <1>7 DEF FilesInv, AllClean
  <2>2. \A o \in Requests : requests'[o].loaded = requests[o].loaded
    BY <1>3 DEF IInv, TypeOK, Request
  <2> QED
    BY <2>1, <2>2 DEF FilesInv, AllClean
<1>9. HalfWritten'
  <2>1. wrote => queue'[1] = queue[1]
    <3>1. wrote => 1 \in 1 .. Len(queue)
      BY HeadOfQueue DEF IInv, PairOrdered
    <3> QED
      BY <1>6, <1>7, <3>1
  <2> QED
    BY <1>3, <2>1 DEF FilesInv, HalfWritten
<1>10. QuietFilesAgree'
  BY <1>3 DEF FilesInv, QuietFilesAgree, Readable
<1> QED
  BY <1>8, <1>9, <1>10 DEF FilesInv

(* What is left to save and to answer is clean once the head is finished. *)
LEMMA FinishClean ==
  ASSUME IInv, FilesInv, queue # <<>>,
         NEW outcome \in {Idle, [Idle EXCEPT !.at = "failed"]}, Finish(outcome)
  PROVE  AllClean' /\ HalfWritten'
<1>1. /\ queue' = Tail(queue) /\ wrote' = FALSE
      /\ requests' = [requests EXCEPT ![Head(queue).owner] = outcome]
  BY DEF Finish
<1>2. outcome.loaded = Idle.loaded
  BY DEF Idle
<1>3. Len(queue') = Len(queue) - 1 /\ \A i \in 1 .. Len(queue') : queue'[i] = queue[i + 1]
  BY <1>1, HeadTailProperties DEF IInv, TypeOK
<1>4. \A i \in 1 .. Len(queue') : Clean(queue'[i].settings)
  <2>1. \A i \in 1 .. Len(queue') : i + 1 \in 1 .. Len(queue)
    BY <1>3, HeadOfQueue
  <2> QED
    BY <1>3, <2>1 DEF FilesInv, AllClean
<1>5. \A o \in Requests : Clean(requests'[o].loaded)
  <2>1. \A o \in Requests : requests'[o] \in {outcome, requests[o]}
    BY <1>1 DEF IInv, TypeOK
  <2> QED
    BY <1>2, <2>1, DefaultsClean DEF FilesInv, AllClean
<1> QED
  BY <1>1, <1>4, <1>5 DEF AllClean, HalfWritten

LEMMA WriteSettingsAgrees ==
  ASSUME IInv, FilesInv, WriteSettings
  PROVE  FilesInv'
<1> DEFINE s == Head(queue).settings
<1>1. /\ queue # <<>> /\ wrote /\ Finish(Idle) /\ secretsFile' = secretsFile
      /\ settingsFile' = [connections |-> s.connections, rate |-> s.rate,
                          by |-> Head(queue).by, saved |-> s.secret]
  BY DEF WriteSettings
<1>2. Head(queue) = queue[1] /\ 1 \in 1 .. Len(queue)
  BY <1>1, HeadOfQueue
<1>3. s.secret = secretsFile.secret
  BY <1>1, <1>2 DEF FilesInv, AllClean, HalfWritten, Clean
<1>4. Head(queue).by = secretsFile.by
  BY <1>1, <1>2 DEF IInv, PairOrdered
<1>5. QuietFilesAgree'
  BY <1>1, <1>3, <1>4 DEF QuietFilesAgree
<1> QED
  BY <1>1, <1>5, FinishClean DEF FilesInv

LEMMA NextKeepsFilesInv == IInv /\ FilesInv /\ [Next]_vars => FilesInv'
<1> SUFFICES ASSUME IInv, FilesInv, [Next]_vars PROVE FilesInv'
  OBVIOUS
<1>1. ASSUME NEW r \in Requests, ReadPublic(r) PROVE FilesInv'
  <2>1. PICK kind \in Operations \ {"fx"} : requests' = [requests EXCEPT ![r] = AfterPublic(kind)]
    BY <1>1 DEF ReadPublic
  <2>2. Clean(AfterPublic(kind).loaded)
    BY AfterPublicClean DEF IInv
  <2> QED
    BY <1>1, <2>1, <2>2, LoadStep DEF ReadPublic
<1>2. ASSUME NEW r \in Requests, StartFx(r) PROVE FilesInv'
  <2> DEFINE q == [Idle EXCEPT !.at = "fetch", !.kind = "fx"]
  <2>1. q.loaded = Idle.loaded
    BY DEF Idle
  <2>2. Clean(q.loaded)
    BY <2>1, DefaultsClean
  <2>3. requests' = [requests EXCEPT ![r] = q]
    BY <1>2 DEF StartFx
  <2> HIDE DEF q
  <2> QED
    BY <1>2, <2>2, <2>3, LoadStep DEF StartFx
<1>3. ASSUME NEW r \in Requests, FetchedFx(r) PROVE FilesInv'
  <2>1. PICK next \in {AfterPublic("fx"), Idle} : requests' = [requests EXCEPT ![r] = next]
    BY <1>3 DEF FetchedFx
  <2>2. Clean(next.loaded)
    BY <2>1, AfterPublicClean, DefaultsClean DEF IInv
  <2> QED
    BY <1>3, <2>1, <2>2, LoadStep DEF FetchedFx
<1>4. ASSUME NEW r \in Requests, Answer(r) \/ Acknowledge(r) PROVE FilesInv'
  BY <1>4, DefaultsClean, LoadStep DEF Answer, Acknowledge
<1>5. CASE WriteSecrets
  <2>1. /\ queue # <<>> /\ wrote' = TRUE /\ UNCHANGED <<queue, requests>>
        /\ secretsFile' = [secret |-> Merge(Head(queue).settings.connections,
                                            Head(queue).settings.secret),
                           by |-> Head(queue).by]
    BY <1>5 DEF WriteSecrets
  <2>2. Head(queue) = queue[1]
    BY <2>1, HeadOfQueue
  <2> QED
    BY <2>1, <2>2 DEF FilesInv, AllClean, HalfWritten, QuietFilesAgree
<1>6. CASE WriteGivesUp
  <2>1. /\ queue # <<>> /\ Finish([Idle EXCEPT !.at = "failed"]) /\ torn' = (torn \/ wrote)
        /\ UNCHANGED <<settingsFile, secretsFile>>
    BY <1>6 DEF WriteGivesUp
  <2>2. QuietFilesAgree'
    BY <2>1 DEF FilesInv, QuietFilesAgree, Readable
  <2> QED
    BY <2>1, <2>2, FinishClean DEF FilesInv
<1>7. CASE Crash
  <2>1. /\ requests' = [r \in Requests |-> Idle] /\ queue' = <<>> /\ wrote' = FALSE
        /\ torn' = (torn \/ wrote) /\ UNCHANGED <<settingsFile, secretsFile>>
    BY <1>7 DEF Crash
  <2>2. QuietFilesAgree'
    BY <2>1 DEF FilesInv, QuietFilesAgree, Readable
  <2>3. AllClean'
    BY <2>1, DefaultsClean DEF AllClean
  <2> QED
    BY <2>1, <2>2, <2>3 DEF FilesInv, HalfWritten
<1>8. CASE UNCHANGED vars
  BY <1>8 DEF vars, FilesInv, AllClean, HalfWritten, QuietFilesAgree, Readable
<1> QED
  BY <1>1, <1>2, <1>3, <1>4, <1>5, <1>6, <1>7, <1>8, ReadSecretsClean, EnqueueClean,
     WriteSettingsAgrees DEF Next

LEMMA InitFilesInv == Init => FilesInv
<1> SUFFICES ASSUME Init PROVE FilesInv
  OBVIOUS
<1>1. /\ queue = <<>> /\ ~wrote /\ requests = [r \in Requests |-> Idle]
      /\ Readable /\ ~torn => settingsFile.saved = secretsFile.secret
  BY DEF Init
<1>2. Readable => settingsFile.by = 0 /\ secretsFile.by = 0
  BY FilesAssumption DEF Init, Readable
<1> QED
  BY <1>1, <1>2, DefaultsClean DEF FilesInv, AllClean, HalfWritten, QuietFilesAgree

-----------------------------------------------------------------------------
(* Every reachable state is well typed, whatever the files hold at start   *)
(* and however loads, saves, give-ups and crashes interleave.              *)
THEOREM SettingsTypes == Spec => []TypeOK
<1>1. IInv => TypeOK
  BY DEF IInv
<1> QED
  BY InitIInv, NextKeepsIInv, <1>1, PTL DEF Spec

(* The secrets are never older than the public tree they are paired with,  *)
(* on disk and in every load.                                              *)
THEOREM SecretsKeepUp == Spec => []SecretsNeverOlder
<1>1. IInv => SecretsNeverOlder
  <2> SUFFICES ASSUME IInv PROVE SecretsNeverOlder
    OBVIOUS
  <2>1. ASSUME Readable PROVE secretsFile.by >= settingsFile.by
    BY <2>1 DEF Readable, IInv, PairOrdered, By, Read
  <2>2. ASSUME NEW r \in Requests, requests[r].at = "apply", ~requests[r].recovered
        PROVE  requests[r].secretBy >= requests[r].publicBy
    BY <2>2 DEF IInv, LoadsSensible, Sensible
  <2> QED
    BY <2>1, <2>2 DEF SecretsNeverOlder
<1> QED
  BY InitIInv, NextKeepsIInv, <1>1, PTL DEF Spec

(* Two saves never interleave their files: unless the last save to touch   *)
(* them ended half way, the two files at rest are the halves of one save.  *)
THEOREM FilesAgree == Spec => []QuietFilesAgree
<1>1. FilesInv => QuietFilesAgree
  BY DEF FilesInv
<1> QED
  BY InitIInv, NextKeepsIInv, InitFilesInv, NextKeepsFilesInv, <1>1, PTL DEF Spec

(* No writer replaces a file it could not read without the user's consent. *)
THEOREM NoBrokenFileLost == Spec => BrokenFileKept
<1> DEFINE Kept == \/ settingsFile = Broken /\ settingsFile' # Broken
                   \/ secretsFile = Broken /\ secretsFile' # Broken
                   => Head(queue).kind = "overwrite"
<1>1. IInv /\ [Next]_vars => [Kept]_vars
  <2> SUFFICES ASSUME IInv, Next,
                      \/ settingsFile = Broken /\ settingsFile' # Broken
                      \/ secretsFile = Broken /\ secretsFile' # Broken
               PROVE  Head(queue).kind = "overwrite"
    BY DEF vars
  <2>1. Unreadable
    BY DEF Unreadable
  <2>2. WriteSecrets \/ WriteSettings
    BY DEF Next, ReadPublic, ReadSecrets, StartFx, FetchedFx, Enqueue, Answer, Acknowledge,
           WriteGivesUp, Crash
  <2>3. queue # <<>>
    BY <2>2 DEF WriteSecrets, WriteSettings
  <2>4. Head(queue) = queue[1] /\ 1 \in 1 .. Len(queue)
    BY <2>3, HeadOfQueue
  <2> QED
    BY <2>1, <2>4 DEF IInv, BrokenGuarded
<1> QED
  BY InitIInv, NextKeepsIInv, <1>1, PTL DEF Spec, BrokenFileKept
-----------------------------------------------------------------------------
(* What holds of "structurally incapable of writing a secret": a save that *)
(* is not PUT .../secret, and whose load saw the secrets.json it replaces, *)
(* writes no secret but the one stored there, or drops it.  Only a load    *)
(* that another save has overtaken can bring a secret back (service.ts,    *)
(* patchSettings; refresh-fx-rate.ts).                                     *)
WritesWhatItRead ==
  [][/\ queue # <<>> /\ Head(queue).kind # "secret" /\ secretsFile \notin {None, Broken}
     /\ requests[Head(queue).owner].secretBy = secretsFile.by
     /\ secretsFile' # secretsFile
     => \A c \in Connections : secretsFile'.secret[c] \in {secretsFile.secret[c], None}]_vars

Within(secret, base) == \A c \in Connections : secret[c] \in {base[c], None}

(* The number of secrets.json names what it holds: a request that saw this *)
(* number saw these secrets.                                               *)
Seen(q) ==
  /\ q.secretBy <= By(secretsFile)
  /\ secretsFile \notin {None, Broken} /\ q.secretBy = secretsFile.by =>
       Within(q.loaded.secret, secretsFile.secret)

(* Saves that wait are newer than secrets.json, but for the one that wrote *)
(* it.                                                                     *)
SavesAhead ==
  /\ By(secretsFile) <= saves
  /\ \A i \in 1 .. Len(queue) : By(secretsFile) < queue[i].by \/ (wrote /\ i = 1)

(* Every queued save belongs to a request of its own, which keeps what it  *)
(* loaded until the save is finished.                                      *)
OwnersWait ==
  /\ \A i \in 1 .. Len(queue) :
       /\ requests[queue[i].owner].at = "saving"
       /\ queue[i].kind # "secret" =>
            Within(queue[i].settings.secret, requests[queue[i].owner].loaded.secret)
  /\ \A i, j \in 1 .. Len(queue) : i # j => queue[i].owner # queue[j].owner

SeenInv == SavesAhead /\ (\A r \in Requests : Seen(requests[r])) /\ OwnersWait

(* A request that has read no secrets, or none yet. *)
LEMMA NothingSeen ==
  ASSUME IInv, NEW q, q.secretBy = 0, q.loaded.secret = NoSecrets
  PROVE  Seen(q)
<1>1. By(secretsFile) \in Nat
  BY ByType DEF IInv
<1> QED
  BY <1>1 DEF Seen, Within, NoSecrets

LEMMA NewcomersSeen ==
  ASSUME IInv, NEW kind
  PROVE  /\ Seen(Idle) /\ Seen([Idle EXCEPT !.at = "failed"])
         /\ Seen([Idle EXCEPT !.at = "fetch", !.kind = "fx"]) /\ Seen(AfterPublic(kind))
<1>1. Idle.secretBy = 0 /\ Idle.loaded.secret = NoSecrets
  BY DEF Idle, Defaults
<1>2. /\ [Idle EXCEPT !.at = "failed"].secretBy = 0
      /\ [Idle EXCEPT !.at = "failed"].loaded.secret = NoSecrets
      /\ [Idle EXCEPT !.at = "fetch", !.kind = "fx"].secretBy = 0
      /\ [Idle EXCEPT !.at = "fetch", !.kind = "fx"].loaded.secret = NoSecrets
  BY DEF Idle, Defaults
<1>3. AfterPublic(kind).secretBy = 0 /\ AfterPublic(kind).loaded.secret = NoSecrets
  BY DEF AfterPublic, Idle, Defaults
<1> QED
  BY <1>1, <1>2, <1>3, NothingSeen

(* A step of a request that has no save in the queue. *)
LEMMA RequestSeen ==
  ASSUME IInv, SeenInv, NEW r \in Requests, NEW q, requests[r].at # "saving", Seen(q),
         requests' = [requests EXCEPT ![r] = q],
         UNCHANGED <<settingsFile, secretsFile, queue, wrote, saves, torn>>
  PROVE  SeenInv'
<1>1. \A o \in Requests : requests'[o] = IF o = r THEN q ELSE requests[o]
  BY DEF IInv, TypeOK
<1>2. SavesAhead'
  BY DEF SeenInv, SavesAhead, By
<1>3. \A o \in Requests : Seen(requests[o])'
  BY <1>1 DEF SeenInv, Seen, By
<1>4. OwnersWait'
  <2>1. \A i \in 1 .. Len(queue) : queue[i].owner \in Requests
    <3>1. queue \in Seq(Save)
      BY DEF IInv, TypeOK
    <3>2. \A i \in 1 .. Len(queue) : queue[i] \in Save
      BY <3>1, ElementOfSeq
    <3> QED
      BY <3>2 DEF Save
  <2>2. \A i \in 1 .. Len(queue) : queue[i].owner # r
    BY DEF SeenInv, OwnersWait
  <2>3. \A i \in 1 .. Len(queue) : requests'[queue[i].owner] = requests[queue[i].owner]
    BY <1>1, <2>1, <2>2
  <2> QED
    BY <2>3 DEF SeenInv, OwnersWait
<1> QED
  BY <1>2, <1>3, <1>4 DEF SeenInv

LEMMA ReadSecretsSeen ==
  ASSUME IInv, SeenInv, NEW r \in Requests, ReadSecrets(r)
  PROVE  SeenInv'
<1> DEFINE q == requests[r]
           next == IF secretsFile = Broken
                   THEN [q EXCEPT !.at = "apply", !.loaded = Defaults, !.recovered = TRUE,
                                  !.publicBy = 0]
                   ELSE [q EXCEPT !.at = "apply",
                                  !.loaded.secret = Merge(q.loaded.connections,
                                                          Read(secretsFile, "secret", NoSecrets)),
                                  !.secretBy = Read(secretsFile, "by", 0)]
<1>1. q \in Request /\ q.loaded \in Settings /\ q.at = "secrets" /\ Seen(q)
  BY DEF IInv, TypeOK, Request, ReadSecrets, SeenInv
<1>2. /\ requests' = [requests EXCEPT ![r] = next]
      /\ UNCHANGED <<settingsFile, secretsFile, queue, wrote, saves, torn>>
  BY DEF ReadSecrets
<1> HIDE DEF q
<1>3. Seen(next)
  <2>1. CASE secretsFile = Broken
    <3>1. next.secretBy = q.secretBy
      BY <1>1, <2>1 DEF Request
    <3> QED
      BY <1>1, <2>1, <3>1 DEF Seen
  <2>2. CASE secretsFile # Broken
    <3> DEFINE secret == Merge(q.loaded.connections, Read(secretsFile, "secret", NoSecrets))
    <3>1. next.loaded = [q.loaded EXCEPT !.secret = secret] /\ next.secretBy = By(secretsFile)
      BY <1>1, <2>2 DEF Request, By
    <3>2. next.loaded.secret = secret
      BY <1>1, <3>1 DEF Settings
    <3>3. By(secretsFile) \in Nat
      BY ByType DEF IInv
    <3>4. secretsFile \notin {None, Broken} => Within(secret, secretsFile.secret)
      BY DEF Within, Merge, Read
    <3> HIDE DEF next, secret
    <3> QED
      BY <3>1, <3>2, <3>3, <3>4 DEF Seen
  <2> QED
    BY <2>1, <2>2
<1>4. requests[r].at # "saving"
  BY DEF ReadSecrets
<1> HIDE DEF next
<1> QED
  BY <1>2, <1>3, <1>4, RequestSeen

(* Only PUT .../secret makes settings with a secret that was not loaded. *)
LEMMA CandidatesWithin ==
  ASSUME NEW q \in Request, NEW s \in Candidates(q), q.kind # "secret"
  PROVE  Within(s.secret, q.loaded.secret)
<1>1. q.loaded \in Settings
  BY DEF Request
<1>2. ASSUME NEW rate \in Rates, s = [q.loaded EXCEPT !.rate = rate]
      PROVE  Within(s.secret, q.loaded.secret)
  BY <1>1, <1>2 DEF Settings, Within
<1>3. ASSUME NEW conns \in SUBSET Connections, NEW retyped \in SUBSET Connections,
             s = WithConnections(q.loaded, conns, retyped)
      PROVE  Within(s.secret, q.loaded.secret)
  <2> DEFINE kept == Merge((conns \cap q.loaded.connections) \ retyped, q.loaded.secret)
  <2>1. s = [q.loaded EXCEPT !.connections = conns, !.secret = kept]
    BY <1>3 DEF WithConnections
  <2>2. Within(kept, q.loaded.secret)
    BY DEF Within, Merge
  <2> HIDE DEF kept
  <2>3. s.secret = kept
    BY <1>1, <2>1 DEF Settings
  <2> QED
    BY <2>2, <2>3
<1>4. s \in Patched(q.loaded) => Within(s.secret, q.loaded.secret)
  BY <1>2, <1>3 DEF Patched
<1> QED
  BY <1>2, <1>4 DEF Candidates

LEMMA EnqueueSeen ==
  ASSUME IInv, SeenInv, NEW r \in Requests, Enqueue(r)
  PROVE  SeenInv'
<1> DEFINE q == requests[r]
<1>1. q \in Request /\ q.at = "apply"
  BY DEF IInv, TypeOK, Enqueue
<1>2. PICK settings \in Candidates(q) :
        queue' = Append(queue, [settings |-> settings, by |-> saves', owner |-> r,
                                kind |-> q.kind])
  BY DEF Enqueue
<1> DEFINE save == [settings |-> settings, by |-> saves', owner |-> r, kind |-> q.kind]
<1>3. /\ UNCHANGED <<settingsFile, secretsFile, wrote, torn>>
      /\ requests' = [requests EXCEPT ![r].at = "saving"]
      /\ saves' = saves + 1 /\ saves \in Nat
  BY SettingsAssumption DEF Enqueue, IInv, TypeOK
<1>4. q.kind # "secret" => Within(settings.secret, q.loaded.secret)
  BY <1>1, <1>2, CandidatesWithin
<1>5. /\ requests'[r].at = "saving" /\ requests'[r].loaded = q.loaded
      /\ requests'[r].secretBy = q.secretBy
      /\ \A o \in Requests \ {r} : requests'[o] = requests[o]
  BY <1>3 DEF IInv, TypeOK, Request
<1>6. /\ queue' = Append(queue, save) /\ save.owner = r /\ save.by = saves'
      /\ save.kind = q.kind /\ save.settings = settings
  BY <1>2
<1> HIDE DEF save, q
<1>7. queue \in Seq(Save) /\ Len(queue) \in Nat
  BY LenProperties DEF IInv, TypeOK
<1>8. /\ Len(queue') = Len(queue) + 1
      /\ \A i \in 1 .. Len(queue') :
           queue'[i] = IF i = Len(queue) + 1 THEN save ELSE queue[i]
  BY <1>6, <1>7
<1>9. \A i \in 1 .. Len(queue) : queue[i].owner \in Requests \ {r}
  <2>1. \A i \in 1 .. Len(queue) : queue[i].owner \in Requests
    <3>1. \A i \in 1 .. Len(queue) : queue[i] \in Save
      BY <1>7, ElementOfSeq
    <3> QED
      BY <3>1 DEF Save
  <2> QED
    BY <1>1, <2>1 DEF SeenInv, OwnersWait, q
<1>10. SavesAhead'
  <2>1. By(secretsFile)' = By(secretsFile) /\ By(secretsFile) \in Nat /\ By(secretsFile) <= saves
    BY <1>3, ByType DEF By, IInv, SeenInv, SavesAhead
  <2> QED
    BY <1>3, <1>6, <1>7, <1>8, <2>1 DEF SeenInv, SavesAhead
<1>11. \A o \in Requests : Seen(requests[o])'
  BY <1>3, <1>5 DEF SeenInv, Seen, By, q
<1>12. OwnersWait'
  <2>1. ASSUME NEW i \in 1 .. Len(queue')
        PROVE  /\ requests'[queue'[i].owner].at = "saving"
               /\ queue'[i].kind # "secret" =>
                    Within(queue'[i].settings.secret, requests'[queue'[i].owner].loaded.secret)
    <3>1. CASE i = Len(queue) + 1
      BY <1>4, <1>5, <1>6, <1>8, <3>1
    <3>2. CASE i # Len(queue) + 1
      <4>1. i \in 1 .. Len(queue) /\ queue'[i] = queue[i]
        BY <1>7, <1>8, <3>2
      <4> QED
        BY <1>5, <1>9, <4>1 DEF SeenInv, OwnersWait
    <3> QED
      BY <3>1, <3>2
  <2>2. ASSUME NEW i \in 1 .. Len(queue'), NEW j \in 1 .. Len(queue'), i # j
        PROVE  queue'[i].owner # queue'[j].owner
    <3>1. \A k \in 1 .. Len(queue') :
            \/ k = Len(queue) + 1 /\ queue'[k].owner = r
            \/ k \in 1 .. Len(queue) /\ queue'[k].owner = queue[k].owner
      BY <1>6, <1>7, <1>8
    <3> QED
      BY <1>9, <2>2, <3>1 DEF SeenInv, OwnersWait
  <2> QED
    BY <2>1, <2>2 DEF OwnersWait
<1> QED
  BY <1>10, <1>11, <1>12 DEF SeenInv

(* A new secrets.json has a number nobody has seen. *)
LEMMA WriteSecretsSeen ==
  ASSUME IInv, SeenInv, WriteSecrets
  PROVE  SeenInv'
<1>1. /\ queue # <<>> /\ ~wrote /\ wrote' = TRUE
      /\ secretsFile' = [secret |-> Merge(Head(queue).settings.connections,
                                          Head(queue).settings.secret),
                         by |-> Head(queue).by]
      /\ UNCHANGED <<settingsFile, queue, requests, saves, torn>>
  BY DEF WriteSecrets
<1>2. /\ Head(queue) = queue[1] /\ 1 \in 1 .. Len(queue) /\ Len(queue) \in Nat
      /\ queue[1].by \in Nat /\ queue[1].by <= saves
      /\ \A i \in 1 .. Len(queue) : queue[i].by \in Nat
  BY <1>1, HeadOfQueue DEF Save
<1>3. secretsFile' \in SecretFile /\ secretsFile'.by = queue[1].by
  BY <1>1, <1>2, HeadOfQueue, MergeType DEF SecretFile
<1>4. secretsFile' \notin {None, Broken} /\ By(secretsFile)' = queue[1].by
  BY <1>3, FilesAssumption DEF By, Read
<1>5. By(secretsFile) < queue[1].by /\ By(secretsFile) \in Nat
  BY <1>1, <1>2, ByType DEF SeenInv, SavesAhead, IInv
<1>6. SavesAhead'
  <2>1. \A i \in 1 .. Len(queue) : i # 1 => queue[1].by < queue[i].by
    BY <1>2 DEF IInv, QueueOrdered
  <2> QED
    BY <1>1, <1>2, <1>4, <2>1 DEF SavesAhead
<1>7. \A o \in Requests : Seen(requests[o])'
  <2>1. \A o \in Requests : requests[o].secretBy < queue[1].by
    <3>1. \A o \in Requests : requests[o].secretBy \in Nat
      BY DEF IInv, TypeOK, Request
    <3>2. \A o \in Requests : requests[o].secretBy <= By(secretsFile)
      BY Zenon DEF SeenInv, Seen
    <3> SUFFICES ASSUME NEW o \in Requests PROVE requests[o].secretBy < queue[1].by
      OBVIOUS
    <3>3. requests[o].secretBy \in Nat /\ queue[1].by \in Nat
      BY <1>2, <3>1
    <3>4. requests[o].secretBy <= By(secretsFile)
      BY <3>2
    <3> QED
      BY <1>5, <3>3, <3>4
  <2>2. \A o \in Requests : requests'[o] = requests[o] /\ requests[o].secretBy \in Nat
    BY <1>1 DEF IInv, TypeOK, Request
  <2> QED
    BY <1>2, <1>3, <1>4, <2>1, <2>2 DEF Seen
<1>8. OwnersWait'
  BY <1>1 DEF SeenInv, OwnersWait
<1> QED
  BY <1>6, <1>7, <1>8 DEF SeenInv

(* The head leaves; the saves behind it, and their owners, stay. *)
LEMMA FinishSeen ==
  ASSUME IInv, SeenInv, queue # <<>>, NEW outcome \in {Idle, [Idle EXCEPT !.at = "failed"]},
         Finish(outcome), UNCHANGED <<secretsFile, saves>>
  PROVE  SeenInv'
<1>1. /\ queue' = Tail(queue) /\ wrote' = FALSE
      /\ requests' = [requests EXCEPT ![Head(queue).owner] = outcome]
  BY DEF Finish
<1>2. Len(queue') = Len(queue) - 1 /\ \A i \in 1 .. Len(queue') : queue'[i] = queue[i + 1]
  BY <1>1, HeadTailProperties DEF IInv, TypeOK
<1>3. /\ Head(queue) = queue[1] /\ 1 \in 1 .. Len(queue) /\ Len(queue) \in Nat
      /\ \A i \in 1 .. Len(queue) : queue[i].owner \in Requests
  BY HeadOfQueue DEF Save
<1>4. \A i \in 1 .. Len(queue') : i + 1 \in 1 .. Len(queue) /\ i + 1 # 1
  BY <1>2, <1>3
<1>5. \A i \in 1 .. Len(queue') : requests'[queue'[i].owner] = requests[queue[i + 1].owner]
  <2>1. \A i \in 1 .. Len(queue') : queue[i + 1].owner # queue[1].owner
    BY <1>3, <1>4 DEF SeenInv, OwnersWait
  <2> QED
    BY <1>1, <1>2, <1>3, <1>4, <2>1 DEF IInv, TypeOK
<1>6. SavesAhead'
  <2>1. By(secretsFile)' = By(secretsFile)
    BY DEF By
  <2> QED
    BY <1>2, <1>4, <2>1 DEF SeenInv, SavesAhead
<1>7. \A o \in Requests : Seen(requests[o])'
  <2>1. Seen(outcome)
    BY NewcomersSeen
  <2>2. \A o \in Requests : requests'[o] \in {outcome, requests[o]}
    BY <1>1 DEF IInv, TypeOK
  <2>3. \A q : Seen(q) => /\ q.secretBy <= By(secretsFile)'
                          /\ secretsFile' \notin {None, Broken} /\ q.secretBy = secretsFile'.by =>
                               Within(q.loaded.secret, secretsFile'.secret)
    BY DEF Seen, By
  <2> QED
    BY <2>1, <2>2, <2>3 DEF SeenInv, Seen
<1>8. OwnersWait'
  <2>1. \A i, j \in 1 .. Len(queue') : i # j => i + 1 # j + 1
    BY <1>2, <1>3
  <2> QED
    BY <1>2, <1>4, <1>5, <2>1 DEF SeenInv, OwnersWait
<1> QED
  BY <1>6, <1>7, <1>8 DEF SeenInv

LEMMA NextKeepsSeenInv == IInv /\ SeenInv /\ [Next]_vars => SeenInv'
<1> SUFFICES ASSUME IInv, SeenInv, [Next]_vars PROVE SeenInv'
  OBVIOUS
<1>1. ASSUME NEW r \in Requests,
             ReadPublic(r) \/ StartFx(r) \/ FetchedFx(r) \/ Answer(r) \/ Acknowledge(r)
      PROVE  SeenInv'
  <2>1. /\ requests[r].at # "saving"
        /\ UNCHANGED <<settingsFile, secretsFile, queue, wrote, saves, torn>>
    BY <1>1 DEF ReadPublic, StartFx, FetchedFx, Answer, Acknowledge
  <2>2. PICK q : Seen(q) /\ requests' = [requests EXCEPT ![r] = q]
    BY <1>1, NewcomersSeen DEF ReadPublic, StartFx, FetchedFx, Answer, Acknowledge
  <2> QED
    BY <2>1, <2>2, RequestSeen
<1>2. CASE WriteSettings
  BY <1>2, FinishSeen DEF WriteSettings
<1>3. CASE WriteGivesUp
  BY <1>3, FinishSeen DEF WriteGivesUp
<1>4. CASE Crash
  <2>1. /\ requests' = [r \in Requests |-> Idle] /\ Len(queue') = 0
        /\ UNCHANGED <<secretsFile, saves>>
    BY <1>4, EmptySeq DEF Crash
  <2>2. By(secretsFile)' = By(secretsFile) /\ Seen(Idle)
    BY <2>1, NewcomersSeen DEF By
  <2>3. \A o \in Requests : Seen(requests[o])'
    BY <2>1, <2>2 DEF Seen
  <2> QED
    BY <2>1, <2>2, <2>3 DEF SeenInv, SavesAhead, OwnersWait
<1>5. CASE UNCHANGED vars
  BY <1>5 DEF vars, SeenInv, SavesAhead, Seen, OwnersWait, By
<1> QED
  BY <1>1, <1>2, <1>3, <1>4, <1>5, ReadSecretsSeen, EnqueueSeen, WriteSecretsSeen DEF Next

LEMMA InitSeenInv == Init => SeenInv
<1> SUFFICES ASSUME Init PROVE SeenInv
  OBVIOUS
<1>1. IInv
  BY InitIInv
<1>2. Len(queue) = 0 /\ requests = [r \in Requests |-> Idle] /\ saves = 0
  BY EmptySeq DEF Init
<1>3. By(secretsFile) = 0
  BY FilesAssumption DEF Init, By, Read
<1> QED
  BY <1>1, <1>2, <1>3, NewcomersSeen DEF SeenInv, SavesAhead, OwnersWait

(* A save whose load was current when it was written brings back no        *)
(* secret, for any requests, however many saves run between.               *)
THEOREM CurrentLoadsWriteNoSecret == Spec => WritesWhatItRead
<1> DEFINE Kept == /\ queue # <<>> /\ Head(queue).kind # "secret" /\ secretsFile \notin {None, Broken}
                   /\ requests[Head(queue).owner].secretBy = secretsFile.by
                   /\ secretsFile' # secretsFile
                   => \A c \in Connections : secretsFile'.secret[c] \in {secretsFile.secret[c], None}
<1>1. IInv /\ SeenInv /\ [Next]_vars => [Kept]_vars
  <2> SUFFICES ASSUME IInv, SeenInv, Next, queue # <<>>, Head(queue).kind # "secret",
                      secretsFile \notin {None, Broken},
                      requests[Head(queue).owner].secretBy = secretsFile.by,
                      secretsFile' # secretsFile,
                      NEW c \in Connections
               PROVE  secretsFile'.secret[c] \in {secretsFile.secret[c], None}
    BY DEF vars
  <2> DEFINE head == Head(queue)
             q    == requests[head.owner]
  <2>1. WriteSecrets
    BY DEF Next, ReadPublic, ReadSecrets, StartFx, FetchedFx, Enqueue, Answer, Acknowledge,
           WriteSettings, WriteGivesUp, Crash
  <2>2. head = queue[1] /\ 1 \in 1 .. Len(queue) /\ head.owner \in Requests
    BY HeadOfQueue DEF Save
  <2>3. Within(head.settings.secret, q.loaded.secret)
    BY <2>2 DEF SeenInv, OwnersWait
  <2>4. Within(q.loaded.secret, secretsFile.secret)
    BY <2>2 DEF SeenInv, Seen
  <2>5. secretsFile'.secret = Merge(head.settings.connections, head.settings.secret)
    BY <2>1 DEF WriteSecrets
  <2> QED
    BY <2>3, <2>4, <2>5 DEF Within, Merge
<1> QED
  BY InitIInv, NextKeepsIInv, InitSeenInv, NextKeepsSeenInv, <1>1, PTL DEF Spec, WritesWhatItRead
=============================================================================
