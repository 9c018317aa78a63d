# Anvika in TLA+

Anvika is a self-hosted, accessible chat client for language models: a Bun/Hono server that owns all
persisted state, a React web client, and a shared package of contracts. These modules specify the
parts of it in which the order of events decides what survives and what the user is shown: the
conversation table and the handlers that work on it concurrently, the settings files, the
model-catalog cache, and on the client the caches, queues, forms and channels that run beside them.
TLC checks them on small instances; TLAPS proves the central properties for every instance.

## 1. Inventory

| Part | State it keeps | Operations | Talks to |
|---|---|---|---|
| Conversation store (`persistence/drizzle`) | table of conversations (transcript, title, overrides, pin, lineage, `revision`, `updatedAt`); last-active pointer | `saveTurn`, `branch`, `rename`, `setPinned`, `healMessages`, overrides, `delete(Many)`, `setActiveId`, `list`, `load` | called by every conversation handler |
| Chat turn (`routes/chat*.ts`, `chat/*.ts`) | locals of a request across preflight, model resolution, stream and save | `POST /chat`, `onFinish`, `markActive` | store, settings files, providers |
| Conversation routes (`routes/conversations-*.ts`) | locals of a request | list, detail (with healing), delete, delete-batch, activate, overrides, rename, retitle, pin, branch | store |
| Settings (`settings`, `persistence/file`) | `settings.json`, `secrets.json`, the write queue | load, patch, save, atomic rename with retries | read by chat, models, FX |
| Connections (`connections`) | none of its own | `PUT .../secret`, connection test | settings, providers |
| FX refresh (`fx`) | none of its own | start-up and manual refresh | a rate service, settings |
| Model catalog (`models`) | the TTL cache of models.dev, its in-flight load, its generation | `get`, `invalidate`, enrich, assemble, refresh | models.dev, providers, settings |
| Replay and reasoning (`chat`, `models/reasoning-*`) | none | what the model is shown of a transcript; the effort cascade and its options | chat turn |
| SSE keep-alive (`chat/sse-keep-alive.ts`) | a timer per stream | pump, ping, cancel | chat turn, HTTP listener |
| Client: conversation surface (`hooks/chat`, `hooks/crosstab`, `lib/conversation`) | query caches of list and detail, the transcript of `useChat`, the base revision | send, edit, regenerate, stop, leave, delete; events between tabs | server; other tabs |
| Client: sidebar (`components/conversations`) | the list cache with optimistic rows, a selection | rename, pin, branch, batch delete | server; other tabs |
| Client: pickers (`hooks/conversation`, `lib/models`) | the local choice, writes under way, the draft | choose model or effort, Alt+T, the send gate | server |
| Client: settings (`stores`) | optimistic settings, the single-flight queue, the overwrite prompt | patch, hydrate, reload, confirm, cancel | server |
| Client: connection form (`components/connections`, `hooks/connections`) | a draft, tests under way, a save under way | edit, test, save, toggle, remove | server, settings store |
| Client: diagnostics (`diagnostics`) | a bounded queue, a loss count | log, flush, retry | `POST /api/v1/log` |
| Logging and retention, bootstrap, middleware, assets; notifications, keyboard, focus, components | files, DOM | I/O, rendering | everything |

What is hard, and what makes each part correct:

* **Several tabs, one table.** A turn takes seconds between its check and its save. The revision
  must stand for the transcript; no turn may replace one its tab has not seen; the pointer must
  name an existing conversation; an acknowledged override must be stored.
* **Handlers of several store calls.** Delete-then-repair, create-then-set, load-then-heal.
* **Two files, no lock.** A load is two reads, a save is two renames, either may fail or the
  process may die between them; requests overlap between load and save.
* **A cache that is busted while loads are in flight.** No superseded value may be cached or
  served to whoever asked after the bust; no stampede; a failure may not poison the key.
* **Client caches against server state.** Tokens come from one cache and transcripts from another;
  messages between tabs arrive under a turn or an open editor; optimistic values are rolled back
  after newer ones; a refetch is answered before a write and arrives after it.
* **The same thing computed twice.** The effort Alt+T announces and the effort the server resolves;
  the connection a test probes and the connection a save stores; the transcript that is stored and
  the one that is replayed.
* **Timers against events.** Keep-alive against idle timeout, reassurance against outcome, a retry
  against a queue that filled up meanwhile.

`PROJECT.json` lists the hazards line by line with the properties that cover each.

## 2. Modules

| Module | Models |
|---|---|
| `ConversationStore` | the table, the pointer and every statement on them, each one atomic action; `StoreSpec` has arbitrary callers |
| `TurnContract` | abstract: what the `MultiConversationStore` port promises about which columns move together |
| `SharedRows` | abstract: what a chat turn may do to a table that others change under it, the promise behind the 409 |
| `ChatServer` | extends `ConversationStore`; the handlers as sequences of steps, one event loop, several tabs, faults |
| `CrossTab` | the browser side of one conversation in several tabs over a server reduced to what `SharedRows` promises |
| `Replay` | interrupted turns, and what is stored and what is replayed of them later |
| `Thinking` | the effort of a turn, in the tab and on the server |
| `OverridePicker` | the model picker, its writes and the send that must use them |
| `ListRows` | the sidebar's optimistic rows, branching and batch delete |
| `SettingsFiles` | settings.json, secrets.json, the write queue, and the requests over them |
| `ClientSettings` | one tab's settings store and its write queue |
| `WriteLane` | abstract: what a tab's settings writes promise about their order |
| `ConnectionEditor` | the connection form, its test and its save in two halves, with the server's merge of secrets |
| `CatalogCache` | the TTL cache, its callers and its busts |
| `ClientLog` | the diagnostics pipe from the event to the server's log |
| `KeepAlive` | the pump and the timer of a streamed answer |
| `Parts_proofs` | theorems and proofs about `KeepAlive`, `Replay` and `CatalogCache` |
| `Tab_proofs` | the same about `Thinking`, `ClientLog` and `ConnectionEditor` |
| `Sidebar_proofs` | the same about `ListRows` and `OverridePicker` |
| other `*_proofs` | the same about the module in the name |
| `MC*` | instances for TLC: values for constants, symmetry sets, and the two combined instances described below |

Operators commented as a *mutant* are faulty variants of the definition that follows them; no
specification uses them. Each exists to show that a property fails when the code has that fault.

### ConversationStore and TurnContract

`rows` is the conversation table, `activeId` the pointer, `clock` the seconds clock. A message keeps
its turn, role, completeness mark, whether its id is blank and whether it parses; a title keeps its
provenance (placeholder, derived, chosen by a user, of a branch). drizzle's transactions are
synchronous callbacks on bun:sqlite, so an operation is one step. `SaveOutcome` has the branches of
`saveTurn` in their order; `BranchOutcome` those of `branch`. The seconds clock is assumed not to run
backwards; rows of one second may be listed in any order (`MostRecent`).

`TurnContract` says what may happen to one table between two states: a row is born at revision 1
without a model or pin; a saved turn advances revision by one, and keeps overrides, pin, lineage and
any title somebody chose; any other update leaves revision and recency alone; a call that does not
delete writes one row; a row born or saved is the newest. `PortContract` is the refinement. It is
proved of `StoreSpec` and checked of `ChatServer`.

### SharedRows

`SharedRows` is what `ChatServer` and `CrossTab` have in common, so that what the tabs are shown to
do over the one reduces to what the handlers are shown to do. A request names a row and perhaps the
revision it was made from; it is let in, and later stored in one step with the next revision, only
while that is the row's revision (or there is no base, or no row); rows are born at revision 1 and go;
requests end at any time. Nothing else replaces a transcript. `ServesSharedRows` maps the handlers to
it: a turn is posted until its preflight, accepted until its save or its end, and may store what its
transcript and an answer make. The transcript is mapped without its blank ids (`LogOf`), so that a heal
is a stutter: it fills in what readers do not see as different. In adverse executions a heal may put
back an older transcript; there `LogOf` is empty and only the protocol of revisions is claimed.
`SharesRow` maps the one row of `CrossTab`'s server.

### ChatServer

Each tab has at most one request (`req[t]`, with a program counter `at`), a `view` (the detail
response it shows) and an `entry` (the active id of its last list). A handler's steps are separated
where the code awaits.

*Granularity.* The server is one JavaScript event loop. An await on the network, a provider or a file
gives other handlers a turn; an await on a store call does not, because bun:sqlite computes its
answer synchronously and the continuation runs from the microtask queue before the next request is
looked at. `running` names the handler that still holds the loop. This is a property of the driver,
not of the Promise-returning port. `scene`, chosen at the start from `Scenes` and never changed,
fixes the kinds of requests and, with `adverse`, makes every await yield, lets store calls throw and
lets the process crash. `ServedActiveIsListed` survives that and is checked with it; the other
properties of the handlers are claimed for the driver in use and executions without faults.

*Abstractions.* The clock stands still, so rows tie and `MostRecent` covers every recency order.
`PATCH .../model` has the steps of `PATCH .../reasoning` and shares its actions. Requests that fail
validation change nothing and are left out, as are ephemeral turns. A turn is built from the view:
any prefix and a new user message (send, edit), or a prefix that ends in a user message (regenerate).
Here transcript and base come from one response; that the browser takes them from two caches is the
subject of `CrossTab`. `born` and `seen` are history variables: how often a row was created under an
id, and the view a turn was built from. `Current` and the properties read them, no guard of a handler
does; `DeleteConversations` uses `born` only for the bound on births.

`HandlerInv` says what a handler relies on from one of its store calls to the next: that it holds the
loop, that what it loaded is what is stored, that the pointer it is about to repair is the only one
that dangles. It is checked beside the properties it is the reason for.

### CrossTab

A tab keeps the cached list (its revision is the base of every send), the cached detail, and the
transcript of `useChat`. The caches are refetched by separate requests, only after an invalidation;
the transcript follows the detail when the tab is neither busy nor editing (`Synced`, part of every
step, as React effects run with the render that causes them). Events between tabs come in order and
late; one about the open conversation is dropped under a turn. Five histories are read by properties
and by no guard. `agreed` and `drops` of a turn: whether the list's revision was that of the
transcript when it was sent, and which turns its tab had taken out of that transcript by edits and
regenerates (`redone`). `strayed`: the tab shows a turn that was stopped, refused or failed since it
last adopted a detail. `unheard`: the code told nobody to refresh (a Stop, an error, a failed
refetch). `born`: the deletions before this incarnation of the row. A deletion takes effect
(`DeleteHere`) before its tab has the answer and goes on to tell the others and to leave
(`DeleteSucceeds`); an answer that is lost (`DeleteFails`) is announced as a failure and nobody is
told, which `QuietTabsAgree` excepts (`DeletionUntold`). `deleting` says which of these a tab is in;
after a lost answer a tab does not try again. `TabsInv` is what holds the tabs
together: a tab that is behind has news, an invalidation or an answer on its way; a revision stands
for one row. A finished turn is saved before the tab hears of its end, because the stream's flush
awaits `onFinish`. Left out: opening a tab while another tab's turn finishes, and the rename, pin and
branch events (`ListRows`).

### Replay and Thinking

`Replay` follows one tab and one conversation through finished, stopped and failed answers: what the
tab holds, what it sends, what the server strips before validating, what it puts before the model,
and what it stores with which mark. An answer is `live` in the tab it was streamed to until the tab
loads it from the server.

`Thinking` has the cascade conversation - connection - settings twice, as the code has. A model is
the type of its connection and its family, as the rules tell families apart; budgets and the wire
form of options are levels and namespaces. `ran` is what the provider is asked for: a level, or
`default` when no options are sent, which is also what `off` comes to for every provider but a local one,
the only one that is told not to think. The settings do not change and the conversation does not select another
model than the settings do (`baselineEffort` looks at the settings' model only, so with a
conversation override it may announce the effort of another connection).

### OverridePicker and ListRows

Writes of the pickers are not queued, may reach the server in either order, may fail, and their
answers may be lost. `murky` remembers what the code does not repair: writes stored out of order, an
answer that was lost, and a failure under a later choice, whose rollback would bring the failed value
back, or after a later one was stored and the picker was back at the failed value, which
`Superseded`, comparing values, takes for its own (`Outrun`). A failed write of the advanced
new-conversation dialog is not among them: the dialog takes nothing back, so while there is no row
`QuietPickerAgrees` allows exactly the model it left in the draft (`DialogLeft`).

`ListRows` has the optimistic row edits with their per-field rollback, refetches that were answered
before an edit, and changes by other tabs; a branch needs its source to be stored and its id to be
free, gets its title from the server, and may be refused as a conflict at any time, revisions not
being counted here. `overtaken` and `unanswered` remember the two cases its header comment describes,
which the code does not repair.

### SettingsFiles

A request reads settings.json (`ReadPublic`), then secrets.json (`ReadSecrets`), computes the whole
next settings and enqueues a save (`Enqueue`) or answers (`Answer`). A save writes secrets.json
(`WriteSecrets`), then settings.json (`WriteSettings`), or gives up in either place (`WriteGivesUp`,
`writeFileAtomic` after its retries). An FX refresh fetches first. Settings are the set of
connections, one secret per connection, and the rate, which stands for every other field. A PATCH
changes the rate or replaces the connections, with some of them re-typed. Files carry the number of
the save that wrote them (`by`) and settings.json the secrets saved with it (`saved`), as history;
`torn` remembers that the last save to touch the files ended half way.

`FilesAssumption` excludes one start: no settings.json and an unreadable secrets.json. `load` then
reports a first run and never opens secrets.json, so the next save replaces it; the hazard list says
so.

### ClientSettings and WriteLane

`lane` is the single-flight queue; a write shows its result when it starts and puts the earlier
settings back when it is refused; only the refusal of an unreadable file arms the overwrite prompt
(`RefusedAsBroken`). The file may become unreadable at any time, and loads, which then show the
defaults, run beside the queue. `adrift` is history: an answer was lost, or a load overlapped a write.
`inOrder` is history too: the writes in the order in which they took effect. `WriteLane` is the promise of the queue without the settings: writes
wait in a line, only the first can take effect and only once, and an answer takes it out and may
bring a follow-up. `KeepsWriteOrder` is the refinement, with the numbers of the queued writes for
`waiting`. A request whose connection dies is assumed not to be applied after its failure was
reported. The fields a connection write resets on other connections are in `ConnectionEditor`.

### ConnectionEditor

A draft is edited, tested and saved. A test sends the differences to the connection the tab shows,
the server lays them over the connection it has; a save PATCHes the whole list and then PUTs what is
secret. The server's merge of key and headers is `AppliedTo`, the re-attachment of secrets
`AttachSecrets`. Cancel is live during a save, which goes on without the form; that the answer then
closes a form opened since is left out, as one form is opened. A test speaks in order (started, at most
once that it still runs, one outcome last) and not at all once its form has closed. `shuffled` remembers that another writer changed the stored connections. Excepted
from `TestedIsSaved` is a draft that clears a stored URL: the test sends an empty address, the save
leaves the field out. An added connection is taken to have an id of its own; one typed by hand that
is taken replaces the other connection (`buildConnectionsPatch`). `ConnectionEditorAssumption` keeps
the words of the wire ("keep", "clear", the empty text) apart from URLs and keys, and "none" apart
from a connection, stored (`StoredLink`) or shown without its secrets (`ShownLink`).

### CatalogCache, ClientLog, KeepAlive

`CatalogCache` has one key, because the three maps are used with the single key `catalog`. The
settling of a load, the resumption of each caller awaiting it and the clearing of the in-flight slot
are separate steps. That is finer than the microtask queue, which runs them without a request in
between; the properties hold for every order of them, hence for the one it takes.

In `ClientLog` a "refused" entry is one the server's schema rejects, and its whole batch with it; a
batch whose answer is lost is written twice. `KeepAlive` counts time in ticks, a timer that is due
fires before the next one.

## 3. Runs

Two instances combine parts that share no state: `MCParts` and `MCFairParts` have a variable `part`,
chosen at the start, that says which part a behaviour runs while the others keep one initial state.
So the states of the parts add up instead of multiplying, and an invariant or action property of one
part is checked in exactly the behaviours of that part. `MCFairParts` holds those whose liveness is
checked.

Passing runs:

| Run | Instance | Shows |
|---|---|---|
| `chat_tabs` | 1 id, fresh or with a legacy row, 2 tabs, 2 turns, deletes, overrides, renames, pins, 2 births | `TypeOK`; `AcceptedTurnSawStored`: an accepted turn replaces the transcript its tab was shown |
| `chat_requests` | 2 ids, 2 tabs; 2 turns and branches on legacy rows with blank ids and unparseable ones; or list, delete, activate, override and 1 turn, ordinary and adverse | `PortContract` under these callers; `ServesSharedRows`, the promise of the 409; `HandlerInv`, the inductive invariant; `TokenPinsTranscript`: equal revision, equal transcript; `NoDanglingPointer`, `OverrideTakesEffect`; `ServedActiveIsListed` in adverse executions too |
| `cross_tab` | 2 tabs, 2 turns, 1 failure, 2 deletions, sends, edits, regenerates, stops, leaves, refetches in any order | `QuietTabsAgree`: with nothing on its way both caches and the transcript are the stored ones; `AgreedSendKeepsStored`: a send whose base was that of the transcript shown takes away no stored turn but those edited or regenerated in its own tab; `TabsInv`, the inductive invariant of both; `SharesRow`, that the server here keeps the promise of `ChatServer`'s |
| `parts`: rows | 2 conversations, 2 titles, 2 edits, 1 change elsewhere | `QuietSidebarAgrees` |
| `parts`: picker | 2 models, 2 picks, 1 send | `SendUsesShownModel`, `QuietPickerAgrees` |
| `parts`: editor | 2 connections, 1 URL, 1 key, 1 change of the draft, 1 test | `TestedIsSaved`, `TestSpeaksInTurn`, `SavedSaidStored`, `ClosedFormSilent` |
| `parts`: log | queue and batch of 2, 4 entries, 2 retries | `DropsAccounted`, `LoggedInOrder` |
| `parts`: replay | 3 requests | `NeverPoisonedTalk`, `LoadedStopsStayOut`, `TranscriptKeepsStops` |
| `parts`: thinking | 3 models, 2 effort writes | `AnnouncedIsServed` |
| `parts`: keepAlive | interval 2, timeout 4, 2 chunks | `StreamStaysAlive` |
| `fair_parts`: files | 2 requests of every kind, 1 connection, 2 keys, 2 saves, give-ups, crashes, five initial pairs of files | `SecretsNeverOlder`, `QuietFilesAgree` (the quiet files are one save, and heal after a torn one), `BrokenFileKept`, `SavesSettle` |
| `fair_parts`: cache | 2 callers, 3 loads, 1 bust, expiry | `CachedSinceBust`, `SingleFlight`, `ServedSinceBust`, `GetSettles`, `NeverPoisoned` |
| `fair_parts`: browser | 2 connections, 2 writes with their follow-ups, 1 load, a file broken by hand | `QuietSettingsAgree`, `KeepsWriteOrder`, `LaneDrains` |

Runs that show a sentence of the repository not to hold of the code:

| Run | Sentence | What the code does |
|---|---|---|
| `chat_aba` | `chatTransport.ts:61-62`: a stale send is rejected rather than overwriting a newer turn | a row deleted and created again reuses its revisions; a tab with the earlier incarnation passes both checks |
| `cross_tab_lost` | `useChatConflict.ts:40-41`: a resend that races the background refetch is rejected, "never data loss" | the list may be refetched before the detail; the send then passes the check with the old transcript, and another tab's turn is lost |
| `stopped_replay` | ADR 0027 line 28 and `replay-sanitization.ts:32-33`: an incomplete turn is never replayed to the model | the tab that stopped it keeps an unmarked copy and sends it; the save also erases the stored mark |
| `connection_siblings` | `connectionsWire.ts:24-25`: non-secret fields pass through | effort and thinking parameters of the other connections are dropped by every save, toggle and removal |
| `catalog_lastgood` | `modelsdev.ts:33-34`: on a failed re-pull the last good catalog is kept | the bust deletes it; the snapshot is used |
| `settings_crash` | `file-settings-store.ts:115-116`: a crash at worst leaves an orphaned secret | a save that removes or re-types a connection loses the secret first |
| `settings_race` | `service.ts:99-100`: a PATCH is structurally incapable of writing a secret | it saves the secrets of its own, possibly outdated, load |

*Bounds.* Two tabs (or requests, or writes) are enough for a check and its use to be separated by
another actor; two ids for a pointer to move from one to the other. Two turns on a legacy row let
both tabs load it, one save and the other be stale; `chat_aba` has a third turn for the row's second
life, and two births let a row be deleted and come back. Two turns in `cross_tab` let one be stored
under a refetch of the other tab; there the conversation is deleted only before its last turn is sent,
and that turn is then not sent any more (`MCCrossTabNext`), which keeps the run small: the theorems
are about `CrossTabSpec`, where it may be. Three requests in `replay` let an answer be stopped, stored again
by the next turn and replayed by the third. Three loads and a bust let a load be superseded, share
the cache with its successor, and all settle in any order. Two saves let one give up or be torn by a
crash while the other waits. A queue of two with four entries overflows under a retry and lets the
loss report itself be pushed out. The interval of `KeepAlive` needs only to be shorter than the
timeout (15 s against 255 s in the code; every such pair is covered by the proof). `MaxSaves`,
`MaxTabTurns` and the other `Max` constants bound histories and counters in the guard of the step
that raises them. Tabs, ids and callers are interchangeable, nothing chooses among them with CHOOSE,
and symmetry is used only in runs without liveness. CHECK_DEADLOCK is off throughout: with every
bound used up and no user asking, the system rests.

*Fairness.* `CacheFairness`: the fetch has a two-second abort timer, and promise callbacks run, so
loads settle, callers resume and slots are cleared. `WriterFairness`: a file operation completes or
gives up after its bounded retries. `LaneFairness`: a request is answered or fails, and the queue is
a promise chain that runs on. No user is ever assumed to act.

## 4. Proofs

| Theorem | Module | Property |
|---|---|---|
| `StoreTypes`, `ImplementsPortContract` | `ConversationStore_proofs` | `StoreTypeOK`, `PortContract` |
| `ChatServerTypes`, `HandlersKeepStoreTypes`, `HandlersKeepPortContract` | `ChatServer_proofs` | `TypeOK`, `StoreTypeOK`, `PortContract`, of the handlers |
| `LoopIsRelied` | `ChatServer_proofs` | `HandlerInv` |
| `TokenPins`, `PointerNamesARow` | `ChatServer_proofs` | `TokenPinsTranscript`, `NoDanglingPointer` |
| `AcceptedSawStored`, `OverrideIsStored`, `ListNamesItsOwn` | `ChatServer_proofs` | `AcceptedTurnSawStored`, `OverrideTakesEffect`, `ServedActiveIsListed` |
| `HandlersServeSharedRows` | `ChatServer_proofs` | `ServesSharedRows` |
| `CrossTabTypes`, `TabsAreTold` | `CrossTab_proofs` | `CrossTabTypeOK`, `TabsInv` |
| `QuietTabsConverge`, `AgreedSendsKeep` | `CrossTab_proofs` | `QuietTabsAgree`, `AgreedSendKeepsStored` |
| `ReducedServerImplements` | `CrossTab_proofs` | `SharesRow` |
| `SettingsTypes`, `SecretsKeepUp`, `FilesAgree`, `NoBrokenFileLost` | `SettingsFiles_proofs` | `TypeOK`, `SecretsNeverOlder`, `QuietFilesAgree`, `BrokenFileKept` |
| `CurrentLoadsWriteNoSecret` | `SettingsFiles_proofs` | what is true of the sentence `settings_race` refutes |
| `LaneInvariant`, `QuietTabShowsStored`, `LaneKeepsPromise` | `ClientSettings_proofs` | `LaneInv`, `QuietSettingsAgree`, `KeepsWriteOrder` |
| `KeepAliveInvariant`, `KeepAliveSilence` | `Parts_proofs` | `KeepAliveInv`, `StreamStaysAlive` |
| `ReplayInvariant`, `ReplayTyped`, `NoPoisonedTalk`, `StopsStayOut`, `TranscriptKept` | `Parts_proofs` | `ReplayTypeOK`, `NeverPoisonedTalk`, `LoadedStopsStayOut`, `TranscriptKeepsStops` |
| `CatalogTypes`, `NoSupersededCommit`, `OneLoadAtATime`, `RefreshForcesAPull` | `Parts_proofs` | `CacheTypeOK`, `CachedSinceBust`, `SingleFlight`, `ServedSinceBust` |
| `LastGoodOnlyBusted` | `Parts_proofs` | what is true of the sentence `catalog_lastgood` refutes |
| `ThinkingInvariant`, `AnnouncedServed` | `Tab_proofs` | `AnnouncedInv`, `AnnouncedIsServed` |
| `LogInvariant`, `LogBounded`, `LogInOrder`, `NoSilentLoss` | `Tab_proofs` | `ClientLogTypeOK`, `LoggedInOrder`, `DropsAccounted` |
| `LinksInvariant`, `SavedIsStored` | `Tab_proofs` | `SavedSaidStored` |
| `TestsInvariant`, `ConnectionEditorTypes`, `TestsSpeakInTurn`, `ClosedFormsAreSilent`, `TestReachesSaved` | `Tab_proofs` | `ConnectionEditorTypeOK`, `TestSpeaksInTurn`, `ClosedFormSilent`, `TestedIsSaved` |
| `SiblingsKeepTheRest` | `Tab_proofs` | what is true of the sentence `connection_siblings` refutes |
| `RowsInvariant`, `ListRowsTypes`, `QuietListAgrees` | `Sidebar_proofs` | `QuietSidebarAgrees` |
| `PickerInvariant`, `OverridePickerTypes`, `QuietPickerShowsStored`, `SendsUseShown` | `Sidebar_proofs` | `QuietPickerAgrees`, `SendUsesShownModel` |

They hold for any constants that satisfy the named assumptions (`StoreAssumption`,
`ServerAssumption`, `CrossTabAssumption`, `SettingsAssumption`, `FilesAssumption`,
`ClientSettingsAssumption`, `KeepAliveAssumption`, `ReplayAssumption`, `CacheAssumption`,
`ThinkingAssumption`, `ClientLogAssumption`, `ConnectionEditorAssumption`, `ListRowsAssumption`,
`OverridePickerAssumption`): any number of ids, tabs, turns, callers, loads, requests, connections,
saves, writes, models, tests, chunks and faults. The bounds named `Max` are natural numbers and
nothing more.

*Store.* The contract is about one step, but "newest" relates the row written to all the others: no
row may carry a time later than now. The inductive invariant adds that (`RowsAreDated`).

*Handlers.* Each handler's step is a step of the store, so the contract carries over to `ChatServer`,
in adverse executions too. `SaneHandler` (past its checks a handler is about an id there may be, a
list names an id it read) holds in every execution as well and gives `ServedActiveIsListed`. What a
handler does after a store call rests on nobody having run since. `LoopInv` says so for executions
without faults: only the handler named by `running` stands between two store calls (`LoopHeld`), what
it loaded is what is stored (`Knows`), the pointer names a row or the delete that broke it has yet to
repair it (`PointerKept`), a turn carries the base of the view it was built from (`Based`), and a tab
that holds the current revision of a row holds its transcript (`Pinned`). The last is kept by a heal
only because the heal writes the very transcript it read, completed, and leaves the revision alone.
`AcceptedTurnSawStored` follows from `Based` and `Pinned` at the save.

*Shared rows.* The proof takes each step of a handler to a step of `SharedRows` or a stutter. `Knows`
makes the heal a stutter: what it completes is what is stored. The second check and the save are one
step because `saveTurn` makes them in one transaction, so adverse executions are covered; a crash, which
ends several requests at once, is `Ended`. `CrossTab`'s server needs no invariant beyond its types: each
of its actions is a step of `SharedRows` under the same guard, or a stutter.

*Tabs.* `TabsInv`: before a deletion every revision a tab, an answer or a request carries stands for
one row whose transcript is the one it carries (`KnowsRows`, `ShowsStored`, `SentKeeps`), a busy
tab's turn overtakes what it applied (`Overtakes`), and a tab whose cache is behind has a refetch
asked for or an event in its channel (`Hears`, with `Paired`: an update of the open conversation is
followed by one of the list). Once a deletion is answered every open tab has the event in its channel
(`DeletionHeard`). The proof groups the actions by what they touch: those that change one tab
(`OtherTab` says what that leaves true of the others), those that post news, and the save.

*Replay.* What is in flight ends in a place for an answer newer than everything stored or loaded
(`FlightNewest`), a stopped answer that was stored or loaded has one mark, which says that it is
incomplete (`StopsMarked`), and what the model was shown last is older than the request under way
(`PromptOlder`). So a stopped answer that was loaded carries its mark wherever the tab sends it, and
is filtered.

*Cache.* None of the properties is inductive alone. The strengthening says that the load in the slot
is of the current generation and unsettled or not yet cleared, that a running load of the current
generation is the one in the slot, that what is stored was committed under the current generation,
and that a waiting caller's load is at least as recent as the caller. Within a generation an entry is
replaced and never dropped (`CommittedIsStored`), so whoever must wait has a catalog to fall back on,
unless a bust took it.

*Settings files.* `PairOrdered`: secrets.json is ahead of settings.json, and carries the number of
the save under way once that has written it. `QueueOrdered`: queued saves are in order and newer than
settings.json. `LoadsSensible`: a load saw a public tree no newer than the one on disk. Together they
give `SecretsNeverOlder`: when `ReadSecrets` completes a load, secrets.json is at least as new as the
settings.json on disk, which is at least as new as the one the load began with. `BrokenGuarded`:
while a file is unreadable, every load noticed and only confirmed saves are queued. `FilesInv` adds,
for `QuietFilesAgree`, that outside of a save under way the two files are the halves of one save
unless the last one was torn, and that every load's and every queued save's settings survive the
split into two files: whoever makes settings drops the secret of a connection it drops.

`SeenInv` names secrets.json by the number of the save that wrote it: whoever saw this number saw these
secrets (`Seen`), waiting saves have later numbers (`SavesAhead`), and the request of a queued save
keeps what it loaded (`OwnersWait`). So a PATCH, an overwrite or an FX refresh whose load is current when
it is written writes no secret but those stored. `settings_race` is the one way out: a load that another
save has overtaken.

*Settings queue.* `LaneInv`: only the head of the queue is under way, the queue is in the order in
which the writes were made, and what took effect is older than what waits. A write that takes effect,
or is answered, is then the head, which is what `WriteLane` allows; the follow-up of an answered
write has a new number and joins at the end. Lemmas say what removing, moving and appending a write
does to the sequence of numbers that the refinement maps the queue to.

What the tab shows follows from `ShownInv`: with no write under way the stored settings, and with one
under way whatever its refusal would restore is what is stored.

*Thinking.* `AnnouncedInv`: while an announcement stands, the latest write is not lost and means,
through the tab's cascade, what was said; once landed it is what is stored; a send that is under way
awaited it. The server's cascade over the same settings then gives the same effort (`MeantIsAsked`
also shows that the options are filed where the provider reads them).

*Keep-alive.* `KeepAliveInv`: the timer of an open stream is armed and as old as the silence, and it
fires before it is older than the interval, which is shorter than the timeout.

*Diagnostics.* `LogInv`: batch and queue are in the order of the events, the batch before the queue;
an event that still waits is older than what the server has, unless the server has it already, from
an attempt whose answer was lost (`PendingInTurn`); a batch that was accepted is in the server's log
(`TakenIsLogged`). The events in none of the three are at most as many as the count and the reports
say: each step is shown to move as many into `Missing` as it adds to the count.

*Connection form.* `SaveInv` gives each stage of a save what the stored connection then is
(`SavedPatched` after the PATCH, `SavedLink` after the PUT), unless another writer came between.
`TestInv` gives each test what its request was made from, and says what it reached is that laid over
the connection it found. `SameTarget` is the lemma that joins them: the differences to the connection
shown, laid over the stored one, and the whole list rebuilt from the draft with the stored secrets
re-attached, end at the same address with the same secrets. It is a statement about every draft, and
the reason for the one exception named in `ConnectionEditor` above. `SentBack` says what the round trip
through the tab costs a connection the save is not about: the effort and the thinking parameters, nothing
else; `SiblingInv` that the tab sends back what is stored.

*Sidebar.* `RowsInv`: while nothing but renames can have changed the stored rows, every answer and
the cache have their ids and pins, a clean answer has their titles too, and the tab shows the title
of the rename that is under way, else the stored one. The types need a bound on pins: a pin is one more
than the largest so far, so there must be a largest one (`LargestIs`, from the well-foundedness of the
naturals); every step keeps some bound on the pins in use.

*Picker.* `PickerInv`: the stored model is that of the last stored choice; what is shown, and what
each write under way would bring back, belongs to a choice all of whose successors failed, or to
none; a refetch with no unreported write behind it is fresh. A write's rollback then restores
something that stands. `SendsInv` follows a send over a choice made with nothing else under way.

Two properties had been stated more strongly and held on every instance TLC could finish. The proofs
of `TabsInv` and `PickerInv` stopped at states beyond those instances: a third turn sent by a tab
that had redone two, an old update event adopted after a Stop, and four choices of which a stored one
lay between two of the same value. The histories `redone` and `strayed` and the second case of
`Outrun` come from there; what they exclude is what the code does, and the comments of `KeepsStored`,
`QuietTabsAgree` and `QuietPickerAgrees` say where.

Only model-checked: liveness (`GetSettles`, `NeverPoisoned`, `SavesSettle`, `LaneDrains`), which with
ENABLED, induction over data and RECURSIVE operators is out of the prover's reach. Every other property
of a passing run is stated by a theorem. The violated sentences of section 3 are shown by TLC's
counterexamples, which need no proof; of three of them the theorems listed above keep what is true, and
of `chat_aba`, `cross_tab_lost`, `stopped_replay` and `settings_crash` the properties
`AcceptedTurnSawStored`, `AgreedSendKeepsStored`, `LoadedStopsStayOut` and `QuietFilesAgree` do.

## 5. Not modelled

* Rendering, accessibility, focus and the wording of notifications; static assets; start-up wiring:
  DOM behaviour and I/O without a protocol. Announcements appear where a property is about them
  (`ConnectionEditor`, `Thinking`).
* The assembly of the model list, prices, usage sums, log retention and keymap merging: functions of
  one call's inputs, with no step of another actor inside.
* Provider adapters: external services, which answer any value or fail.
* The schemas of the shared package, beyond the types they give the models: they reject ill-formed
  input before any state changes.
* The heartbeat and the drafts' persistence: a timer that only speaks, a single assignment.

## 6. What could follow

A composition of `CrossTab` with the whole of `ChatServer` instead of a server that keeps the same
promise; and the hazards without a property in `PROJECT.json`: effort writes that
overtake each other, a retitle over a rename made while the titling model ran, a transcript that does
not parse served empty with its real revision, and answers that are lost after they took effect.
