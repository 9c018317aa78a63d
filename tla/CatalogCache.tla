---------------------------- MODULE CatalogCache ----------------------------
(***************************************************************************)
(* The models.dev catalog cache (models/discovery/cache.ts, TtlCache, used *)
(* by models/enrichment/modelsdev.ts): fixed lifetime, one shared load per *)
(* key, reuse of the last good value when a load fails, and a generation   *)
(* counter that keeps a load superseded by a bust from writing its value.  *)
(*                                                                         *)
(* The cache's three maps hold one key, 'catalog'; keys never interact.    *)
(* A value is named by the load that fetched it.  Between the instant a    *)
(* load settles, the resumption of each caller that awaits it and the      *)
(* clearing of its in-flight slot other code may run, so these are         *)
(* separate steps.  A caller is one model being enriched: it falls back to *)
(* the committed snapshot when the cache throws.                           *)
(***************************************************************************)
EXTENDS Naturals

CONSTANTS
  Callers,        \* concurrent enrichments
  Loads,          \* identities of catalog loads; bounds how many are started
  NoLoad,
  Ttl,            \* entry lifetime, in cacheClock steps
  MaxCacheClock,       \* bound: last value of the cacheClock
  MaxGeneration   \* bound: number of busts

ASSUME CacheAssumption ==
  /\ NoLoad \notin Loads
  /\ NoLoad \notin [load: Loads, storedAt: Nat]
  /\ Ttl \in Nat /\ MaxCacheClock \in Nat /\ MaxGeneration \in Nat

VARIABLES
  store,       \* the cached entry [load, storedAt], or NoLoad
  inFlight,    \* the load new callers share, or NoLoad
  generation,  \* bumped by every bust
  loads,       \* each load's progress and the generation it started in
  callers,     \* each caller's locals and outcome
  cacheClock

cacheVars == <<store, inFlight, generation, loads, callers, cacheClock>>

Entry == [load: Loads, storedAt: Nat]

Load == [at: {"unused", "running", "committed", "superseded", "failed"},
         gen: Nat, cleared: BOOLEAN]

(* `existing' is the entry's value when the caller came, `load' the load   *)
(* it awaits, `value' what it got.  `began' and `good' are history: the    *)
(* generation when it came and whether any load had committed by then.     *)
Caller == [at: {"idle", "waiting", "served", "snapshot"},
           existing: Loads \cup {NoLoad}, load: Loads \cup {NoLoad},
           value: Loads \cup {NoLoad}, began: Nat, good: BOOLEAN]

NewCaller == [at |-> "idle", existing |-> NoLoad, load |-> NoLoad, value |-> NoLoad,
              began |-> 0, good |-> FALSE]

Settled(l) == loads[l].at \in {"committed", "superseded", "failed"}

Fresh == store # NoLoad /\ cacheClock - store.storedAt < Ttl

Arrival == [NewCaller EXCEPT
  !.at       = "waiting",
  !.existing = IF store = NoLoad THEN NoLoad ELSE store.load,
  !.began    = generation,
  !.good     = \E l \in Loads : loads[l].at = "committed"]

-----------------------------------------------------------------------------
(* get, within the lifetime: the cached value, at once. *)
GetFresh(c) ==
  /\ callers[c].at # "waiting"
  /\ Fresh
  /\ callers' = [callers EXCEPT ![c] = [Arrival EXCEPT !.at = "served", !.value = store.load]]
  /\ UNCHANGED <<store, inFlight, generation, loads, cacheClock>>

(* get, on a miss or after expiry: await the load in flight ... *)
GetShared(c) ==
  /\ callers[c].at # "waiting"
  /\ ~Fresh /\ inFlight # NoLoad
  /\ callers' = [callers EXCEPT ![c] = [Arrival EXCEPT !.load = inFlight]]
  /\ UNCHANGED <<store, inFlight, generation, loads, cacheClock>>

(* The identity of a new load means nothing. *)
FirstUnused == CHOOSE l \in Loads : loads[l].at = "unused"

(* ... or start one. *)
StartLoad(c) ==
  /\ callers[c].at # "waiting"
  /\ ~Fresh /\ inFlight = NoLoad
  /\ \E l \in Loads :
       /\ loads[l].at = "unused" /\ l = FirstUnused
       /\ loads' = [loads EXCEPT ![l] = [at |-> "running", gen |-> generation, cleared |-> FALSE]]
       /\ inFlight' = l
       /\ callers' = [callers EXCEPT ![c] = [Arrival EXCEPT !.load = l]]
  /\ UNCHANGED <<store, generation, cacheClock>>

(* Mutant: a load stores its value whatever happened since it started. *)
LoadSucceedsAnyway(l) ==
  /\ loads[l].at = "running"
  /\ store' = [load |-> l, storedAt |-> cacheClock]
  /\ loads' = [loads EXCEPT ![l].at = "committed"]
  /\ UNCHANGED <<inFlight, generation, callers, cacheClock>>

(* The fetch answered: the value is stored only under the generation the   *)
(* load started in.                                                        *)
LoadSucceeds(l) ==
  /\ loads[l].at = "running"
  /\ \/ /\ loads[l].gen = generation
        /\ store' = [load |-> l, storedAt |-> cacheClock]
        /\ loads' = [loads EXCEPT ![l].at = "committed"]
     \/ /\ loads[l].gen # generation
        /\ loads' = [loads EXCEPT ![l].at = "superseded"]
        /\ UNCHANGED store
  /\ UNCHANGED <<inFlight, generation, callers, cacheClock>>

(* The fetch failed, timed out or did not parse. *)
LoadFails(l) ==
  /\ loads[l].at = "running"
  /\ loads' = [loads EXCEPT ![l].at = "failed"]
  /\ UNCHANGED <<store, inFlight, generation, callers, cacheClock>>

(* Mutants: the slot is emptied whoever holds it; only a load that got a   *)
(* value empties it.                                                       *)
ClearSlotAlways(l) ==
  /\ Settled(l) /\ ~loads[l].cleared
  /\ loads' = [loads EXCEPT ![l].cleared = TRUE]
  /\ inFlight' = NoLoad
  /\ UNCHANGED <<store, generation, callers, cacheClock>>

ClearSlotOnSuccess(l) ==
  /\ Settled(l) /\ ~loads[l].cleared /\ loads[l].at # "failed"
  /\ loads' = [loads EXCEPT ![l].cleared = TRUE]
  /\ inFlight' = IF inFlight = l THEN NoLoad ELSE inFlight
  /\ UNCHANGED <<store, generation, callers, cacheClock>>

(* The `finally' of a load empties the slot if the slot is still its own. *)
ClearSlot(l) ==
  /\ Settled(l) /\ ~loads[l].cleared
  /\ loads' = [loads EXCEPT ![l].cleared = TRUE]
  /\ inFlight' = IF inFlight = l THEN NoLoad ELSE inFlight
  /\ UNCHANGED <<store, generation, callers, cacheClock>>

Await(c, outcome) ==
  /\ callers[c].at = "waiting" /\ Settled(callers[c].load)
  /\ callers' = [callers EXCEPT ![c] = outcome]
  /\ UNCHANGED <<store, inFlight, generation, loads, cacheClock>>

(* Mutant: only a load that wrote its value resolves its callers. *)
ServedIfCommitted(c) ==
  /\ loads[callers[c].load].at = "committed"
  /\ Await(c, [callers[c] EXCEPT !.at = "served", !.value = callers[c].load])

(* The awaiting caller gets the load's value, superseded or not; after a   *)
(* failed load the value that was cached when it came; and when there was  *)
(* none the snapshot stands in.                                            *)
Served(c) ==
  /\ loads[callers[c].load].at # "failed"
  /\ Await(c, [callers[c] EXCEPT !.at = "served", !.value = callers[c].load])

ServedLastGood(c) ==
  /\ loads[callers[c].load].at = "failed" /\ callers[c].existing # NoLoad
  /\ Await(c, [callers[c] EXCEPT !.at = "served", !.value = callers[c].existing])

FallsToSnapshot(c) ==
  /\ loads[callers[c].load].at = "failed" /\ callers[c].existing = NoLoad
  /\ Await(c, [callers[c] EXCEPT !.at = "snapshot"])

(* Mutant: a bust drops the entry and forgets the load in flight. *)
InvalidateEntryOnly ==
  /\ generation < MaxGeneration
  /\ store' = NoLoad
  /\ generation' = generation + 1
  /\ UNCHANGED <<inFlight, loads, callers, cacheClock>>

(* bustModelsDevCache: POST /models/refresh, at any time. *)
Invalidate ==
  /\ generation < MaxGeneration
  /\ store' = NoLoad
  /\ inFlight' = NoLoad
  /\ generation' = generation + 1
  /\ UNCHANGED <<loads, callers, cacheClock>>

CacheTick ==
  /\ cacheClock < MaxCacheClock
  /\ cacheClock' = cacheClock + 1
  /\ UNCHANGED <<store, inFlight, generation, loads, callers>>

-----------------------------------------------------------------------------
CacheInit ==
  /\ store = NoLoad
  /\ inFlight = NoLoad
  /\ generation = 0
  /\ loads = [l \in Loads |-> [at |-> "unused", gen |-> 0, cleared |-> FALSE]]
  /\ callers = [c \in Callers |-> NewCaller]
  /\ cacheClock = 0

Resume(c) ==
  callers[c].at = "waiting" /\ (Served(c) \/ ServedLastGood(c) \/ FallsToSnapshot(c))

CacheNext ==
  \/ \E c \in Callers : GetFresh(c) \/ GetShared(c) \/ StartLoad(c) \/ Resume(c)
  \/ \E l \in Loads : LoadSucceeds(l) \/ LoadFails(l) \/ ClearSlot(l)
  \/ Invalidate
  \/ CacheTick

CacheSpec == CacheInit /\ [][CacheNext]_cacheVars

(* The fetch carries a two-second abort timer and its promise callbacks    *)
(* run from the microtask queue, so a load settles, its callers resume and *)
(* its slot is cleared.  Nobody has to ask or to bust.                     *)
CacheFairness ==
  /\ \A l \in Loads : WF_cacheVars(LoadSucceeds(l) \/ LoadFails(l)) /\ WF_cacheVars(ClearSlot(l))
  /\ \A c \in Callers : WF_cacheVars(Resume(c))

CacheFairSpec == CacheSpec /\ CacheFairness

-----------------------------------------------------------------------------
CacheTypeOK ==
  /\ store \in Entry \cup {NoLoad}
  /\ inFlight \in Loads \cup {NoLoad}
  /\ generation \in Nat
  /\ loads \in [Loads -> Load]
  /\ callers \in [Callers -> Caller]
  /\ cacheClock \in Nat

(* A load superseded by a bust never writes its value back: what the cache *)
(* holds was fetched by a load started after the latest bust (cache.ts,    *)
(* startLoad's generation guard).                                          *)
CachedSinceBust ==
  store # NoLoad =>
    loads[store.load].at = "committed" /\ loads[store.load].gen = generation

(* No stampede: at most one load that a bust has not superseded is running *)
(* (cache.ts, get's single flight, across the slot's clearing and busts).  *)
SingleFlight ==
  \A l, m \in Loads :
    /\ loads[l].at = "running" /\ loads[l].gen = generation
    /\ loads[m].at = "running" /\ loads[m].gen = generation
    => l = m

(* A refresh forces a fresh pull: whoever asks after a bust is served a    *)
(* catalog whose load started after it, even when an older load, an older  *)
(* waiter or an older slot is still around (invalidate: "so the next get   *)
(* reloads").                                                              *)
ServedSinceBust ==
  \A c \in Callers : callers[c].at = "served" => loads[callers[c].value].gen >= callers[c].began

(* Every get settles. *)
GetSettles == \A c \in Callers : callers[c].at = "waiting" ~> callers[c].at # "waiting"

(* A rejected load never poisons the key: it does not stay the load that   *)
(* later callers share.                                                    *)
NeverPoisoned ==
  \A l \in Loads : (inFlight = l /\ loads[l].at = "failed") ~> inFlight # l

(* What modelsdev.ts and the refresh route say: on a failed re-pull the    *)
(* last good catalog is reused.  So nobody who asks after a catalog was    *)
(* loaded has to make do with the snapshot.                                *)
FailedRepullKeepsLastGood ==
  \A c \in Callers : callers[c].at = "snapshot" => ~callers[c].good
=============================================================================
