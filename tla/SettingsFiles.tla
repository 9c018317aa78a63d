---------------------------- MODULE SettingsFiles ---------------------------
(***************************************************************************)
(* The settings: settings.json and secrets.json (persistence/file), and    *)
(* the requests that read, patch and re-credential them (settings/service, *)
(* connections/secret-service, fx/refresh-fx-rate).                        *)
(*                                                                         *)
(* A request loads by two file reads, computes the whole next settings in  *)
(* memory and enqueues one save.  Saves run one after the other, each      *)
(* writing secrets.json and then settings.json by an atomic rename that    *)
(* may give up.  Nothing locks a request's load to its save.               *)
(*                                                                         *)
(* Settings keep what the properties tell apart: the configured            *)
(* connections, the exchange rate standing for every other field, and one  *)
(* secret per connection.  Files carry, as history, the number of the save *)
(* that wrote them.                                                        *)
(***************************************************************************)
EXTENDS Naturals, Sequences

CONSTANTS
  Requests,     \* concurrent request slots
  Connections,  \* connection ids
  Keys,         \* secret values
  Rates,        \* exchange rates; also the rest of the settings
  DefaultRate,  \* the schema default
  None,         \* an absent file; no secret
  Broken,       \* a file that is present but unreadable or invalid
  Operations,   \* what the requests do in this instance
  Faults,       \* which of "give-up" (a rename) and "crash" may happen
  InitialFiles, \* the pairs of files the server may find at start
  MaxSaves      \* bound: saves enqueued

ASSUME SettingsAssumption ==
  /\ DefaultRate \in Rates
  /\ None \notin Keys
  /\ Operations \subseteq {"get", "patch", "overwrite", "secret", "fx"}
  /\ Faults \subseteq {"give-up", "crash"} /\ MaxSaves \in Nat

VARIABLES
  settingsFile,  \* settings.json: None, Broken, or the public tree
  secretsFile,   \* secrets.json: None, Broken, or the secret tree
  queue,         \* the saves not yet finished; the head is being written
  wrote,         \* has the head written secrets.json?
  requests,      \* each request's locals
  saves,         \* history: saves enqueued so far
  torn           \* history: did the last save to touch the files end half way?

vars == <<settingsFile, secretsFile, queue, wrote, requests, saves, torn>>

Secrets  == [Connections -> Keys \cup {None}]
Settings == [connections: SUBSET Connections, rate: Rates, secret: Secrets]
NoSecrets == [c \in Connections |-> None]
Defaults == [connections |-> {}, rate |-> DefaultRate, secret |-> NoSecrets]

(* Files: what they hold and the save they come from. `saved' is history:  *)
(* the secrets the same save put into secrets.json.                        *)
PublicFile == [connections: SUBSET Connections, rate: Rates, by: Nat, saved: Secrets]
SecretFile == [secret: Secrets, by: Nat]

(* The server may find any pair of files an earlier run left, except a      *)
(* secrets.json it cannot read beside no settings.json at all: load then   *)
(* reports a first run and never looks at secrets.json.                    *)
ASSUME FilesAssumption ==
  /\ {None, Broken} \cap (PublicFile \cup SecretFile) = {}
  /\ None # Broken
  /\ \A pair \in InitialFiles :
       /\ pair[1] \in [connections: SUBSET Connections, rate: Rates, by: {0}, saved: Secrets]
                     \cup {None, Broken}
       /\ pair[2] \in [secret: Secrets, by: {0}] \cup {None, Broken}
       /\ ~(pair[1] = None /\ pair[2] = Broken)

Save == [settings: Settings, by: Nat, owner: Requests,
         kind: {"patch", "overwrite", "secret", "fx"}]

(* `publicBy' and `secretBy' are history: the saves the loaded halves come *)
(* from.                                                                   *)
Request == [at: {"idle", "fetch", "secrets", "apply", "saving", "failed"},
            kind: {"get", "patch", "overwrite", "secret", "fx"},
            loaded: Settings, recovered: BOOLEAN, publicBy: Nat, secretBy: Nat]

Idle == [at |-> "idle", kind |-> "get", loaded |-> Defaults, recovered |-> FALSE,
         publicBy |-> 0, secretBy |-> 0]

-----------------------------------------------------------------------------
(***************************************************************************)
(* load: settings.json first, then secrets.json (loadSettings)             *)
(***************************************************************************)
Read(file, field, otherwise) == IF file \in {None, Broken} THEN otherwise ELSE file[field]

(* mergeSecrets: a secret whose connection the public tree does not list   *)
(* is dropped.                                                             *)
Merge(connections, secret) ==
  [c \in Connections |-> IF c \in connections THEN secret[c] ELSE None]

(* Mutant: no default stands in for what an absent file does not say. *)
AfterPublicNoDefaults(kind) ==
  LET absentOrBroken == settingsFile \in {None, Broken}
  IN  [Idle EXCEPT
        !.at        = IF absentOrBroken THEN "apply" ELSE "secrets",
        !.kind      = kind,
        !.recovered = settingsFile = Broken,
        !.loaded    = [Defaults EXCEPT !.connections = Read(settingsFile, "connections", {}),
                                       !.rate        = Read(settingsFile, "rate", None)],
        !.publicBy  = Read(settingsFile, "by", 0)]

(* An absent file is a first run: the defaults, secrets.json unread.  A    *)
(* broken one is the defaults, and recovered.                              *)
AfterPublic(kind) ==
  LET absentOrBroken == settingsFile \in {None, Broken}
  IN  [Idle EXCEPT
        !.at        = IF absentOrBroken THEN "apply" ELSE "secrets",
        !.kind      = kind,
        !.recovered = settingsFile = Broken,
        !.loaded    = [Defaults EXCEPT !.connections = Read(settingsFile, "connections", {}),
                                       !.rate        = Read(settingsFile, "rate", DefaultRate)],
        !.publicBy  = Read(settingsFile, "by", 0)]

ReadPublic(r) ==
  /\ requests[r].at = "idle"
  /\ \E kind \in Operations \ {"fx"} : requests' = [requests EXCEPT ![r] = AfterPublic(kind)]
  /\ UNCHANGED <<settingsFile, secretsFile, queue, wrote, saves, torn>>

ReadSecrets(r) ==
  LET q == requests[r]
  IN  /\ q.at = "secrets"
      /\ requests' = [requests EXCEPT ![r] =
           IF secretsFile = Broken
           THEN [q EXCEPT !.at = "apply", !.loaded = Defaults, !.recovered = TRUE, !.publicBy = 0]
           ELSE [q EXCEPT !.at = "apply",
                          !.loaded.secret = Merge(q.loaded.connections,
                                                  Read(secretsFile, "secret", NoSecrets)),
                          !.secretBy = Read(secretsFile, "by", 0)]]
      /\ UNCHANGED <<settingsFile, secretsFile, queue, wrote, saves, torn>>

(* refreshFxRate: the rate is fetched, which may fail, before the settings *)
(* are loaded.                                                             *)
StartFx(r) ==
  /\ "fx" \in Operations
  /\ requests[r].at = "idle"
  /\ requests' = [requests EXCEPT ![r] = [Idle EXCEPT !.at = "fetch", !.kind = "fx"]]
  /\ UNCHANGED <<settingsFile, secretsFile, queue, wrote, saves, torn>>

FetchedFx(r) ==
  /\ requests[r].at = "fetch"
  /\ \E next \in {AfterPublic("fx"), Idle} : requests' = [requests EXCEPT ![r] = next]
  /\ UNCHANGED <<settingsFile, secretsFile, queue, wrote, saves, torn>>

-----------------------------------------------------------------------------
(***************************************************************************)
(* The new settings                                                        *)
(***************************************************************************)
(* A patch that carries `connections' replaces the array, and              *)
(* attachStoredSecrets puts the loaded secret back on every connection     *)
(* that stays; a re-typed one starts without.                              *)
WithConnections(loaded, conns, retyped) ==
  [loaded EXCEPT !.connections = conns,
                 !.secret = Merge((conns \cap loaded.connections) \ retyped, loaded.secret)]

Patched(loaded) ==
  {[loaded EXCEPT !.rate = rate] : rate \in Rates}
    \cup {WithConnections(loaded, conns, retyped) :
            conns \in SUBSET Connections, retyped \in SUBSET Connections}

Recredentialed(loaded) ==
  {[loaded EXCEPT !.secret[c] = key] : c \in loaded.connections, key \in Keys \cup {None}}

(* Mutant: the recovered flag is not looked at. *)
MayWriteAlways(q) == TRUE

(* patchSettings refuses to overwrite a file it could not read unless the  *)
(* user confirmed; a secret for a connection it does not find is not found *)
(* (a recovered load has none).                                            *)
MayWrite(q) == q.recovered => q.kind = "overwrite"

Candidates(q) ==
  CASE q.kind \in {"patch", "overwrite"} /\ MayWrite(q) -> Patched(q.loaded)
    [] q.kind = "fx" /\ MayWrite(q)    -> {[q.loaded EXCEPT !.rate = rate] : rate \in Rates}
    [] q.kind = "secret"               -> Recredentialed(q.loaded)
    [] OTHER                           -> {}

(* Validated and handed to save, which splits it and appends the two       *)
(* writes to the queue.                                                    *)
Enqueue(r) ==
  LET q == requests[r]
  IN  /\ q.at = "apply"
      /\ saves < MaxSaves
      /\ saves' = saves + 1
      /\ \E settings \in Candidates(q) :
           queue' = Append(queue, [settings |-> settings, by |-> saves', owner |-> r,
                                   kind |-> q.kind])
      /\ requests' = [requests EXCEPT ![r].at = "saving"]
      /\ UNCHANGED <<settingsFile, secretsFile, wrote, torn>>

(* A read answers; a refused, unknown or invalid write answers and writes  *)
(* nothing.                                                                *)
Answer(r) ==
  /\ requests[r].at = "apply"
  /\ requests' = [requests EXCEPT ![r] = Idle]
  /\ UNCHANGED <<settingsFile, secretsFile, queue, wrote, saves, torn>>

-----------------------------------------------------------------------------
(***************************************************************************)
(* The write queue                                                         *)
(***************************************************************************)
Finish(outcome) ==
  /\ queue' = Tail(queue)
  /\ wrote' = FALSE
  /\ requests' = [requests EXCEPT ![Head(queue).owner] = outcome]

(* Mutant: the two files of a save are queued apart, so that secrets.json  *)
(* comes from the newest save.                                             *)
WriteSecretsOfNewest ==
  LET newest == queue[Len(queue)]
  IN  /\ queue # <<>> /\ ~wrote
      /\ secretsFile' = [secret |-> Merge(newest.settings.connections, newest.settings.secret),
                         by |-> newest.by]
      /\ wrote' = TRUE
      /\ UNCHANGED <<settingsFile, queue, requests, saves, torn>>

WriteSecrets ==
  /\ queue # <<>> /\ ~wrote
  /\ secretsFile' = [secret |-> Merge(Head(queue).settings.connections, Head(queue).settings.secret),
                     by |-> Head(queue).by]
  /\ wrote' = TRUE
  /\ UNCHANGED <<settingsFile, queue, requests, saves, torn>>

(* Mutant: settings.json does not wait for secrets.json. *)
WriteSettingsFirst ==
  /\ queue # <<>>
  /\ LET s == Head(queue).settings
     IN  settingsFile' = [connections |-> s.connections, rate |-> s.rate, by |-> Head(queue).by,
                          saved |-> s.secret]
  /\ Finish(Idle)
  /\ torn' = FALSE
  /\ UNCHANGED <<secretsFile, saves>>

WriteSettings ==
  /\ queue # <<>> /\ wrote
  /\ LET s == Head(queue).settings
     IN  settingsFile' = [connections |-> s.connections, rate |-> s.rate, by |-> Head(queue).by,
                          saved |-> s.secret]
  /\ Finish(Idle)
  /\ torn' = FALSE
  /\ UNCHANGED <<secretsFile, saves>>

(* Mutant: a save that gives up takes the queue with it. *)
WriteGivesUpForAll ==
  /\ "give-up" \in Faults
  /\ queue # <<>>
  /\ queue' = <<>>
  /\ wrote' = FALSE
  /\ requests' = [requests EXCEPT ![Head(queue).owner] = [Idle EXCEPT !.at = "failed"]]
  /\ torn' = (torn \/ wrote)
  /\ UNCHANGED <<settingsFile, secretsFile, saves>>

(* writeFileAtomic gives up on a file after its retries: the save rejects, *)
(* its request answers 500, and the queue goes on with the next save.      *)
WriteGivesUp ==
  /\ "give-up" \in Faults
  /\ queue # <<>>
  /\ Finish([Idle EXCEPT !.at = "failed"])
  /\ torn' = (torn \/ wrote)
  /\ UNCHANGED <<settingsFile, secretsFile, saves>>

Acknowledge(r) ==
  /\ requests[r].at = "failed"
  /\ requests' = [requests EXCEPT ![r] = Idle]
  /\ UNCHANGED <<settingsFile, secretsFile, queue, wrote, saves, torn>>

(* The process dies and comes back: the files are all that is left. *)
Crash ==
  /\ "crash" \in Faults
  /\ \E r \in Requests : requests[r].at # "idle"
  /\ requests' = [r \in Requests |-> Idle]
  /\ queue' = <<>>
  /\ wrote' = FALSE
  /\ torn' = (torn \/ wrote)
  /\ UNCHANGED <<settingsFile, secretsFile, saves>>

-----------------------------------------------------------------------------
Readable == settingsFile \notin {None, Broken} /\ secretsFile \notin {None, Broken}

(* An earlier run may itself have died between the two files of a save.    *)
Init ==
  /\ \E pair \in InitialFiles : settingsFile = pair[1] /\ secretsFile = pair[2]
  /\ queue = <<>>
  /\ wrote = FALSE
  /\ requests = [r \in Requests |-> Idle]
  /\ saves = 0
  /\ torn = (Readable /\ settingsFile.saved # secretsFile.secret)

Next ==
  \/ \E r \in Requests :
       ReadPublic(r) \/ ReadSecrets(r) \/ StartFx(r) \/ FetchedFx(r)
         \/ Enqueue(r) \/ Answer(r) \/ Acknowledge(r)
  \/ WriteSecrets \/ WriteSettings \/ WriteGivesUp \/ Crash

Spec == Init /\ [][Next]_vars

(* File operations complete or give up, so the head of the queue is always *)
(* finished sooner or later; no client has to do anything.                 *)
WriterFairness == WF_vars(WriteSecrets \/ WriteSettings \/ WriteGivesUp)

FairSpec == Spec /\ WriterFairness

-----------------------------------------------------------------------------
TypeOK ==
  /\ settingsFile \in PublicFile \cup {None, Broken}
  /\ secretsFile \in SecretFile \cup {None, Broken}
  /\ queue \in Seq(Save)
  /\ wrote \in BOOLEAN
  /\ requests \in [Requests -> Request]
  /\ saves \in 0 .. MaxSaves
  /\ torn \in BOOLEAN

(* No connection is ever seen without the secret that was saved with it or *)
(* before it: on disk and in every load, whatever saves, give-ups and      *)
(* crashes interleave, the secrets are at least as new as the public tree. *)
(* save writes secrets.json first, load reads it last, and the queue keeps *)
(* two saves from interleaving (file-settings-store.ts).                   *)
SecretsNeverOlder ==
  /\ Readable => secretsFile.by >= settingsFile.by
  /\ \A r \in Requests :
       requests[r].at = "apply" /\ ~requests[r].recovered =>
         requests[r].secretBy >= requests[r].publicBy

(* Two saves never interleave their files: while none is under way the two *)
(* files are the two halves of one save (ADR 0019: written as a unit       *)
(* inside the mutex), unless the last save gave up or died half way, and   *)
(* the next save that completes makes them agree again.                    *)
QuietFilesAgree ==
  Readable /\ ~wrote /\ ~torn =>
    settingsFile.by = secretsFile.by /\ settingsFile.saved = secretsFile.secret

(* A file the server could not read is never overwritten, by any of the    *)
(* three writers, unless the user confirmed it (patchSettings,             *)
(* setConnectionSecret, refreshFxRate; ADR 0019: never destroys a          *)
(* hand-edit).                                                             *)
BrokenFileKept ==
  [][\/ settingsFile = Broken /\ settingsFile' # Broken
     \/ secretsFile = Broken /\ secretsFile' # Broken
     => Head(queue).kind = "overwrite"]_vars

(* Every save settles: one that gives up, or loses the process, does not   *)
(* leave the requests queued behind it waiting (save's                     *)
(* writeQueue = run.catch).                                                *)
SavesSettle == \A r \in Requests : requests[r].at = "saving" ~> requests[r].at # "saving"

(* What the comment in save says of a crash between the two writes: at     *)
(* worst a secret without a connection is left.  So a connection that the  *)
(* public file lists, and that was saved there with a secret, still has    *)
(* one once nothing is being written.                                      *)
CrashLeavesOnlyOrphans ==
  Readable /\ queue = <<>> =>
    \A c \in settingsFile.connections :
      settingsFile.saved[c] # None => secretsFile.secret[c] # None

(* What patchSettings says of itself: it is structurally incapable of      *)
(* writing a secret.  Its save may drop a secret (a removed or re-typed    *)
(* connection), never put another one in its place.                        *)
PatchWritesNoSecret ==
  [][queue # <<>> /\ Head(queue).kind = "patch" /\ Readable /\ secretsFile' # secretsFile =>
       \A c \in Connections : secretsFile'.secret[c] \in {secretsFile.secret[c], None}]_vars
=============================================================================
