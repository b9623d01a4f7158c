# Formal model of the custom policy agent

TLA+ modules for the policy service, its cache and storages, the sync process,
the data refresher, the cloner, bundles and their automatic import, subscriptions
and the common data; TLC configurations that check them on small instances;
and TLAPS proofs of all the safety properties the passing runs check, for every
instance. Source paths below
are relative to `src/`. `PROJECT.json` is the machine-readable index: which
definition models which lines, what every run checks, the hazards and findings.

## 1. The system

| Part | State it keeps | Operations | What makes it correct |
| --- | --- | --- | --- |
| Request handlers (`internal/service/policy/service.go`) | none of their own; every request is a goroutine | Evaluate, Validate, Lock, Unlock, ImportBundle, ExportBundle, ListPolicies, subscription and auto import endpoints | a locked policy is not evaluated; the evaluated policy is the stored one |
| Policy cache (`internal/regocache`) | map from key to policy, one per process | Get, Set, Purge | no stale entry survives the change that made it stale |
| MongoDB storage (`internal/storage/mongodb`) | collections shared by all processes; a change stream per process | Policy, SavePolicy, SetPolicyLock, ListenPolicyDataChanges, GetRefreshPolicies, UpdateNextRefreshTime, subscribers, auto import, common data | each write reaches every listener; due work is taken once |
| Memory storage (`internal/storage/memory`) | maps under mutexes; an unbuffered channel to the listener | the same interface | the same, inside one process |
| Run group (`cmd/policy/main.go`) | server, listener and refresher under one context | start, shut down | no process serves with a cache nobody purges |
| Sync process (`cmd/sync/main.go`) | the clone, the fetched documents | clone, fetch, compare, bulk write, repeat | what is in Git reaches the database; locks survive |
| Data refresher (`policydata/refresher.go`) | the due policies of a round | poll, fetch, write | data arrives; nobody's data is undone; unusable configurations are not retried |
| Bundles (`bundle.go`, `bundle_verify.go`) | none | export, verify, import | an exported bundle imports as the same policy |
| Auto import (`autoimport.go`) | import configurations with their next time | configure, poll, import, delete | what is stored was exported; a configured policy ends up as published; a deleted configuration stays deleted |
| Subscriptions, notifier (`internal/notify`) | subscriber records | subscribe, notify | each change is announced to the right subscribers |
| Common data (`internal/regofunc/storage.go`) | key-value collection | get, set, delete | a call that is answered without an error was carried out |
| Cloner (`internal/clone`) | the map it fills | clone, walk, build keys | every policy is found under its own identity |
| Rego extension functions, HTTP clients, health, configuration, generated transport | none | adapters | not modelled: pure I/O or generated |

How they interact: handlers call the cache and the storage. The storage calls
its subscribers (the cache, and over MongoDB also the notifier) from the
listener goroutine. The sync process and all service processes share the
MongoDB collection, without transactions that span their reads and writes.
A refresher runs in every service process.

What is hard: each handler makes several unlocked accesses between which other
handlers, the listener, other processes and the sync may act; the listener may
fail, close or not be open yet; a process may stop between any two steps; an
announcement may be given up; the background jobs write back what they read
some time ago.

## 2. Modules

* `PolicyService` - the handlers and the cache over an abstract storage. It has
  actions but no specification of its own, because the two storages announce
  writes differently.
* `MongoService` - extends it with the change streams, run groups, restarts and
  other writers of the collection.
* `MemoryService` - extends it with the channel, its senders and the listener of
  the single process.
* `DataSync` - the sync process, the refreshers, users and importers on the
  collection.
* `PolicyRegistry` - what the service promises, without caches, streams and
  handlers; `MongoService` and `MemoryService` instantiate it (`Registry`).
* `Bundles` - the files of a bundle, its signature, verification and unpacking, as
  operators.
* `AutoImport` - composes `Bundles` with the configuration endpoints, the polling
  processes, the exporting agent and its key service.
* `Subscriptions` - subscribe requests, change streams, the notifier.
* `CommonStorage` - the Rego functions over the common data.
* `Cloner` - the walk over a clone, identities and keys.
* `MC...` - instances for TLC (`CommonStorage` needs none).
* `ServiceProofs` - lemmas about the handlers and the cache, for both storages.
* `MongoServiceProofs`, `MemoryServiceProofs`, `DataSyncProofs`,
  `AutoImportProofs`, `SubscriptionsProofs`, `ClonerProofs` - theorems and proofs.

### State and actions

`PolicyService`: `store` is the policy collection or map, `cache[i]` the cache of
process `i`, `req[r]` the handler in slot `r`. `pc` names the access the handler
makes next:

    Evaluate   get -> (hit) admit -> eval
               get -> (miss) read -> fill -> admit -> eval
    Validate   retrieval -> schema -> Evaluate -> check -> [lockinvalid]
    Lock       load -> setlock
    Unlock     load -> setlock
    Import     save

`doc` is the policy retrieved last and `pol` the one Validate retrieved first.
A document is its lock flag and a revision; a revision stands for the Rego
source, data, schema and configurations, of which handlers only ask whether a
schema exists. Rego evaluation, schema validation, bundle verification and the
calls to the cache service are nondeterministic outcomes. Two history variables,
`req[r].overtaken` and `late`, record that a purge fell between a read and the
use of what was read. They restrict nothing.

`MongoService`: `status[i]` is the run group (starting, serving, stopping, deaf)
and `pending[i]` the number of undelivered events. A write increments `pending`
of every open stream in the same step, because a committed write is in the
stream. An update may be applied and still be reported as failed. Documents are
never removed: no code removes one.

`MemoryService`: `sender` holds the requests whose goroutine still offers its
change. The request's context is done once the handler has returned, so giving
up and being received are both possible from the write on. The memory storage
does not implement `PolicySubscribers`, so the cache is the listener's only
subscriber and the listener never fails.

`DataSync`: `docs` is the collection with the fields that the sync and the
refreshers use, `sync` the state of the sync process, `job[i]` the round of
refresher `i`. The cursor of the fetch returns documents one by one, the bulk
write applies updates one by one. `GetRefreshPolicies` finds and postpones in two
steps since neither call is given the session's context. `faulty` says that
faults may still occur.

`PolicyRegistry`: `store`, the documents a process may still use (`visible`) and
the document each request evaluates (`using`). The mapping (`Visible`, `Using` in
`PolicyService`) takes as visible the stored document, the cache entry and what
the handlers of the process hold. A process may lose sight of a replaced document
but sees it again only after it is written again, and an evaluation starts with
an unlocked visible document. Over memory a restart loads the repository again
(`Reload`).

`Bundles`: a policy is a record of file contents, of which the code asks only
whether they are blank. The export configuration names the key or is malformed.
A signature is a key, with the version the key service holds, and the digest of
the files; digests are taken to be injective.

`AutoImport`: `configs` is the `autoImport` collection. Its documents have ids
and no index makes a URL unique, so the upsert of `SaveAutoImportConfig` is a look
and an insert when nothing matches. `poller[i]` is the goroutine of
`StartAutoImporter`: find, reschedule each configuration, commit, then fetch,
verify and save one after the other. The queries are not given the session's
context, so they are steps of their own. `Verify` uses the key the exporting
agent serves at that moment; `SavePolicy` keeps the export configuration the
importing agent had. `remote` and `version` are the exporting agent's policies
and key version; `exported` is history.

`Subscriptions`: a policy is its group and its name, the two strings whose order
differs between the interface `PolicySubscriber` and everybody who uses it.
`stream[i]` holds the unread events; each delivery starts a goroutine (`worker`)
that reads the subscribers and calls them one by one. Sending to the broker
changes nothing in the service, whatever the broker answers. `raced`, `changed`
and `owed` are history.

`CommonStorage`: `memo[e]` is what OPA remembers of the calls of evaluation `e`,
by function and arguments, errors included.

`Cloner`: a name is the sequence of its parts between dots, so that joining with
dots is concatenation. A configured subfolder is part of the directories in
`Files`: `createPolicy` sees only the joined path. `Visit` takes the files in any
order; `WalkDir` takes them in lexical order, so a policy may be displaced here by
one that in the program it would displace. Besides a path that is too short, an
unreadable file of any policy (`VisitFails`) and an unreadable directory
(`WalkFails`) end the walk, at any point; which of them is unreadable is left open.

## 3. Runs

| Run | Instance | Question |
| --- | --- | --- |
| `mongo_safety` | 1 process, 2 requests, 1 policy, 2 revisions of which one has a schema, backlog 2 | type correctness; stale entries and snapshots have an event on its way or were overtaken; documents are there when used; locked policies are evaluated only in those cases |
| `mongo_liveness` | 2 processes, 1 request, backlog 1 | an instance that keeps serving ends up evaluating the document that stays |
| `memory` | 1 process, 2 requests, 2 revisions | the same for the channel: a stale entry or snapshot has a change on offer or one that was given up |
| `data_sync_safety` | 2 refreshers, 2 revisions, imports | type correctness; the sync undoes only locks written between its fetch and its update |
| `data_sync_liveness` | 1 refresher, revisions with an unusable and with good configurations, no imports | Git reaches the database; unusable configurations end up unscheduled; a policy whose configuration stays good keeps getting data although every sync restores data.json |
| `auto_import` | 2 pollers, 1 user, 1 policy, 3 documents (one not exportable), 1 key rotation | only what was exported is stored; deleted configurations stay deleted; imports converge and stop |
| `subscriptions` | 1 process, 2 requests, 2 policies whose group and name are swapped, 1 goroutine, 2 records | a subscription is doubled only by a race; webhooks are told of policies that changed; a change they have not been told of is in a stream or with a goroutine, and reaches them |
| `cloner` | all sets of 7 directories that differ in depth and dots | lookups find the right policy; in a walk without an error only a policy with the same key displaces one |

`mongo_safety` and `memory` also check that the service implements
`PolicyRegistry` (`ImplementsRegistry`, `MemoryImplementsRegistry`).

Bounds. Handlers of different policies interact only through the purge of the
whole cache, which other writes to the one policy cause as well, so one policy is
enough; two requests give a reader and a writer in any interleaving; backlog 2
lets a second write fall between the first and its delivery. `MaxBacklog` bounds
only new requests and other writers: a handler that is already running may
exceed it. Requests are interchangeable in `mongo_safety`, refreshers in
`data_sync_safety` (symmetry is not used with liveness). Two writers of different
processes are covered by a request and `ExternalWrite`. In `auto_import` two
pollers let one save an old bundle over the other's new one; the documents differ
in key, in blank files and in being exportable. One user and one id allow only one
configuration at a time, and none is made while a poller remembers a deleted one
(object ids are never reused); what two concurrent upserts do is left to the
theorem `DeletedStays`, which has no such bound. In
`subscriptions` one goroutine is at work at a time; that several at once forget no
webhook rests on the theorem `OwedIsUnderWay`, which has no such bound. Two
policies with swapped names are the smallest in which an argument in the wrong place
names another policy. The directories of `cloner` contain a dotted version, a dotted name that joins to the same key, the same
identity at two depths, and paths with one level and two levels missing.

Runs that are expected to fail show where the code does not do what the
repository says of it; each has a finding in `PROJECT.json` with the quotation.

| Run | What TLC shows |
| --- | --- |
| `mongo_lock` | a handler reads a policy; it is locked, and the cache purged; the handler fills the cache; the locked policy is evaluated from then on |
| `mongo_validation` | Validate retrieves a locked policy, it is unlocked, evaluated and invalid; it is not locked, since the first copy says it is |
| `concurrent_refresh` | two processes take the same due policies |
| `storage_memo` | an evaluation sets a key, deletes it and sets it again to the same data: it is told so, and the key stays deleted |

### Fairness

`MongoSpec`, `MemorySpec`: handlers are goroutines that the runtime schedules, so
each is weakly fair; the listener is fair while it runs; in the memory storage a
sender ends one way or the other within ten seconds. Requests, writes, failures
and restarts need not happen. `DataSyncSpec`: the sync loop and the polling loops
are weakly fair, time passes, faults eventually cease, and a URL that is asked
again and again is answered in the end (strong fairness of `Refresh`; without it
no refresher could promise data). Commits, locks and imports need not happen.
`AutoImportSpec`: polling loops and requests run, time passes, faults cease; users
and the exporting agent need not do anything. `SubscriptionsSpec`: handlers,
listeners and goroutines run, and faults cease. `ClonerSpec` and
`CommonStorageSpec` state no fairness; the walk ends, so `cloner` does not check
for deadlock.

Some liveness properties are conditional, because the code does not promise more:

* `Converges`, `MemoryConverges` speak of processes that keep serving and have no
  late entry, and of changes that are not given up. `mongo_lock` shows what
  happens otherwise. Over memory the announcement of a lock may also be given up
  when the request's context ends (`memory/storage.go:108`), with the same effect.
* `SyncSavesUncontestedLock` allows a lock to be undone when it was set between
  the sync's fetch and its update (`cmd/sync/main.go:165`); TLC finds that this
  happens.
* `DataArrives` asks for a stored configuration that is always good, and its run
  has no imports. An import writes the zero refresh time
  (`mongodb/storage.go:94`), and a refresher that took a policy with an unusable
  configuration may write it (`refresher.go:83`, `:89`) after the sync has written
  the repaired one; if that leaves the document equal to the repository's, no sync
  schedules the policy again.
* `ImportsConverge` needs reconfigurations to end, since each puts the next import
  off by an interval. It says nothing of the lock flag, which an import overwrites
  with the exporter's and a user may then change.

## 4. Proofs

The theorems hold for all values of the constants that satisfy the named
assumptions, and for the specifications without fairness, which the fair ones
imply.

### The service over both storages

`ServiceProofs` has the lemmas about the actions of `PolicyService`: what a quiet
step of a handler (one that writes nothing to the storage), a writing step and a
purge do to the types, to the documents that are held (`DocumentsHeld`) and to
what a process sees. They use `ServiceAssumption` (the sets of policies and
instances are not empty, so that a free slot can be described; schemas belong to
revisions; `NoPolicy` is no document) and are cited by both of the following.

`MongoServiceProofs`, with `BacklogAssumption`, for all `Policies`, `Instances`,
`Requests`, `Revisions`, `Schemas` and backlogs:

* `TypeCorrect` - `MongoSafety => []TypeOK`
* `CacheIsFresh` - `MongoSafety => []CacheFresh`
* `SnapshotsAreFresh` - `MongoSafety => []SnapshotFresh`
* `DocumentsAreHeld` - `MongoSafety => []DocumentsHeld`
* `LocksAreRespected` - `MongoSafety => LockRespected`
* `Refinement` - `MongoSafety => ImplementsRegistry`

`CacheFresh` is not inductive: `CacheSet` puts into the cache what a handler
holds, so the handlers' snapshots must be fresh too (`SnapshotFresh`), and
`SetPolicyLock` writes a field of a document that must exist (`DocumentsHeld`).
`MongoInv` is the conjunction of the four invariants the run `mongo_safety`
checks. A write makes snapshots stale and adds an event to every open stream in
the same step; a delivery removes an event but marks every snapshot as overtaken
and empties the cache. `LockRespected` follows from `SnapshotFresh`: a handler
that passes holds an unlocked copy, which differs from the locked document.

For the refinement, initial states map to initial states, and every step of a
handler, a listener, a process or another writer maps to `Write`, `Settle`,
`Admit` or to no step. The argument is that handlers and caches are filled only
from what their process sees already (`SeesKept`), so that nothing but a write
adds to `visible`; `DocumentsHeld` is needed where `prepareQuery` admits a document.

`MemoryServiceProofs`, with `SingleProcess`:

* `MemoryTypeCorrect` - `MemorySafety => []MemoryTypeOK`
* `ChangesAreAnnounced` - `MemorySafety => []ChangeAnnounced`
* `SnapshotsAreAnnounced` - `MemorySafety => []SnapshotAnnounced`
* `MemoryDocumentsHeld` - `MemorySafety => []DocumentsHeld`
* `MemoryLocksAreRespected` - `MemorySafety => MemoryLockRespected`
* `MemoryRefinement` - `MemorySafety => MemoryImplementsRegistry`

`MemoryInv` is the conjunction of the four invariants. `ChangeAnnounced` needs
`SnapshotAnnounced` for the same reason as above. Where a stream counts events,
here the sender of a write stays until its change is received, which purges, or is
given up, which `lost` records until the next purge. In the refinement a restart,
which replaces the store by what the cloner finds, maps to `Reload`.

### The sync process and the refreshers

`DataSyncProofs` shows from `DataSyncAssumption`:

* `DataSyncTypes` - `DataSyncSafety => []DataSyncTypeOK`
* `FetchedLocks` - `DataSyncSafety => []FetchedLockCurrent`
* `SyncKeepsLocks` - `DataSyncSafety => SyncSavesUncontestedLock`

`DataSyncInv` adds to the first two that a refresher only holds policies the
database has (`JobsHold`), since `UpdateNextRefreshTime` and `postponeRefresh` update
fields of existing documents, and that the sync writes only what it has cloned
(`UpsertsCloned`).

### Bundles and auto import

`AutoImportProofs` shows from `AutoImportAssumption` (there is a policy, published
policies are records of contents, the empty content is one, `NoBundle` is no bundle):

* `ConfigsAreTyped` - `AutoImportSafety => []ConfigsTyped`
* `DeletedStays` - `AutoImportSafety => DeletedStaysDeleted`
* `AutoImportTypeCorrect` - `AutoImportSafety => []AutoImportTypeOK`
* `OnlyExportedIsStored` - `AutoImportSafety => []OnlyExported`

The first part is about bundles alone: whatever optional files there are, a packed
file is found again and hides no other (`OptionalContent`), so that
`policyFromBundle` inverts `createPolicyBundle` but for blank optional files, which
arrive empty (`Unpacked`). Every step inserts a configuration for a request,
removes some, or changes when one is due (`ConfigSteps`); only the first adds one
for a policy that has none. `OnlyExported` is not inductive: what a poller saves
it fetched and verified some steps before, while policies and keys may have
changed. `SignedForExport` (in the proof module) says what remains true of the
bundle in its hands: it was signed for a policy the exporting agent held, and once
verified has the files that were signed.
`RemoteExported` says that the exporting agent has held what it exports. `ImportInv`
is their conjunction with the types. A stored policy may have been signed with a key
that was rotated after `verifyBundle`; `OnlyExported` is about contents, not keys.

### Subscriptions

`SubscriptionsProofs` shows from `SubscriptionsAssumption` (the sets of policies,
subscribers and processes are not empty; a policy is a group and a name):

* `SubscriptionsTypeCorrect` - `SubscriptionsSafety => []SubscriptionsTypeOK`
* `DuplicatesAreRaced` - `SubscriptionsSafety => []DuplicatesRaced`
* `OnlyChangesAreTold` - `SubscriptionsSafety => ToldOfChanges`
* `OwedIsUnderWay` - `SubscriptionsSafety => []OwedUnderWay`

`DuplicatesRaced` only counts records. What a step preserves is `CreatesAlone` (in
the proof module): of an unraced subscription at most one request is about to create a record, there is
none when it does, and at most one afterwards. `EventsChanged` (in the same
module) adds that streams and goroutines carry policies that have changed, in
which the order of group and name matters (`EventIsPolicy`). `OwedUnderWay` is the
safety half of `ChangesNotified`: it is preserved because `Change` adds the event
to the stream in the step that makes it owed, `Deliver` hands it to a goroutine,
and the goroutine reads all records of the policy, from which none is ever
removed.

### The cloner

`ClonerProofs` shows from `ClonerAssumption` (directories are sequences of names, and
names of strings):

* `ClonerTypeCorrect` - `ClonerSpec => []ClonerTypeOK`
* `LookupIsExact` - `ClonerSpec => []LookupExact`
* `WalkIsComplete` - `ClonerSpec => []WalkComplete`

`KeysTellApart` is the heart of it: `ConstructKey` is injective on the plain
identities of a repository, although versions have any number of dots, and
`IdentityIs` that counting from the end of the path gives the identity that the
directories say. `ClonerInv` adds that a policy is under its own key and has been
met (`KeysRight`), and that as long as no error ended the walk it has met no path
that is too short and no key it met is empty (`KeysKept`).

### Only model-checked

All liveness properties (`Converges`, `MemoryConverges`,
`GitReachesStore`, `UnusableIsUnscheduled`, `DataArrives`, `ImportsConverge`,
`ImportsStop`, `ChangesNotified`): the prover has neither fairness nor ENABLED.
`CommonStorage` has no theorem: its one property is the one TLC refutes.

## 5. Not modelled

* Read-only endpoints (ListPolicies, PolicyAutoImport, health), HTTP transport,
  authentication, IP filter, generated code, clients of other services.
* Rego evaluation, and the extension functions other than the storage ones:
  stateless adapters and string conversions such as did:web.
* The archive format and cryptography: digests are injective and only the holder
  of a key signs with it. `Damaged` stands for an archive packed again without some
  of its files; a truncated one is not unpacked, as when an import fails (`ImportFails`). The
  exporting agent reads the policy and has it signed in one step (`FetchBundle`): a
  rotation in between gives the bundle that a rotation before gives.
* When calls end: handlers are finite sequences of calls with timeouts, so that a
  request is answered follows from the fairness assumed of them.
* The memory storage's refresh times, subscribers and auto import. It does not
  store refreshed data, its listener announces changes to the cache only, and its
  auto import map is never made: the first configuration panics with the mutex
  held (`memory/storage.go:262`), so that nothing of auto import runs afterwards.
  Its inverted test for due configurations (`:275`) is `AutoImport`'s mutant
  `ActiveInverted`.
* Two concurrent upserts of the same new policy may insert it twice, since the
  policy collection has no unique index either. Policies are unique here.
* Clock times are reduced to never, due and later. A refresh time is never due
  twice without a tick, and the five minutes of a postponement may pass while a
  refresher still executes, as they may in the program.

## 6. Plan

1. Safety facts that the other liveness properties rest on, as invariants of their
   own and proved: that what the sync has not written yet it still has to compare
   or to write (`GitReachesStore`), that a configuration is due, later or with a
   poller (`ImportsConverge`).
2. For `CommonStorage`, what does hold although calls are memoized: what a call is
   answered with was in the storage at some time of the evaluation.
