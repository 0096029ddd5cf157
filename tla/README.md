# Collaragent: models, checks and proofs of the workspace core

Collaragent is an Electron application in which people and language-model agents
edit the same documents and canvases. Its correctness rests on a small
concurrent core: a WebSocket server that holds the live documents, a drain queue
that writes them to a file server without timers, proposals of several chat
threads that are staged and then accepted or rejected, and checkpoints that
restore an earlier state under all of that. This directory models that core in
TLA+, checks it with TLC and proves its main safety properties with TLAPS.

Paths below are relative to the repository root. `ws-server.ts` is
`src/main/server/ws/ws-server.ts`, `drain/` is `src/workspace/sync/drain/`.

## 1. The system

### Parts, their state and their operations

| Part | State | Operations |
| --- | --- | --- |
| Drain worker (`drain/InstanceDrainWorker.ts`, `TransactionalBarrierRegistry.ts`, `BackoffPolicyEngine.ts`) | state machine, dirty flag, pending payload, retry count and timer, waiting barriers | `handleTrigger`, `flush`, `dispose`, the answer to a write, the retry |
| Drain queue (`drain/SerializedDrainQueue.ts`) | map from instance to worker, `isDisposed` | `enqueue`, `flush` of one or all, `evict`, `dispose` |
| WebSocket server (`ws-server.ts`) | `docs`, `commandSequences`, `proposals`, `proposalBaselines`, `pendingHydrations`, `instanceMetadata`, `channels`, ledger store | `sync-request`, `sync-command`, `update`, `accept-changes`, `reject-changes`, `delete`, `instancesUpdated`, hydration, `flush`, close |
| Sync client and pool (`src/workspace/sync`) | pending acknowledgements, server version, ready promise, pool of clients | connect, send, batch, accept, reject, disconnect, `getClient` |
| File server (`src/main/server/fileServer`) | SQLite store, checkpoint store | instance routes, checkpoint bundle and restore routes, chat routes |
| Project lock and migration (`fileServer/locks`, `process.ts`, `StorageMigrationEngine.ts`, `WindowManager.ts`) | lock file, project file, its backups and staging file, the file server processes | fork, migrate, acquire, open, prepare close, release, kill |
| Checkpoint orchestration (`src/main/orchestrators`, `src/main/handlers/checkpoints.ts`, `AgentCheckpointRegistry.ts`) | effective and pending checkpoint and current bundle of each thread | create and restore a bundle |
| Agent streaming (`src/main/handlers/streaming.ts`, `Chat.tsx`, `ChatCheckpointSaver.ts`) | active stream of each thread, the saver's latest checkpoint | send, abort, end a turn, persist it |
| Relational ledger (`RelationalLedgerStore.ts`, `LinkExtractor.ts`, `RelationalLedgerContext.tsx`, `tools/wiki/adapters.ts`) | links between documents, in ws-server, on disk, in the pane and in each tool | bring in claims, upsert, remove, degrade, restore, load, cascade |
| Agent tools (`src/collaragent/tools`) | none of their own | read an instance and change it over a socket, write the ledger |
| Undo and diff engines, editor, canvas, configuration, evaluations | see `PROJECT.json` | |

### How they interact

* A client sends `sync-command` to ws-server, which advances the sequence, applies
  the command to the document in memory, buffers it if it is staged, answers with
  `sync-ack`, and otherwise calls `drainQueue.enqueue` synchronously.
* The worker of the instance calls back into ws-server (`persistenceAdapter`), which
  looks at the open proposals and sends a PATCH to the file server.
* The payload travels by reference: the object in `docs`, the object the worker
  holds and the body of the PATCH share structure.
* Checkpoint handlers call `wsHandle.flush()`, then the file server restores its
  store and notifies ws-server with an `update` from `system-checkpoint-restore`.
* Windows and tools hold one client each per instance: the server answers the sender of
  a command and broadcasts it to the others.
* A turn of the agent reads its branch from the registry, puts checkpoints through the
  saver, posts its messages to the file server, and is followed by a capture.
* After the PATCH of a document ws-server brings its claims into the ledger and
  enqueues a write of the ledger; the pane and the tools write theirs without it.
* The window manager forks a file server process for every project it opens. Processes
  share the project file, its lock file and the staging file of a migration, and know
  of one another only through them.
* File server and ws-server notify one another of created, updated and deleted
  instances over a WebSocket, so these notices race with edits.

### What is hard

All of it runs on event loops, so handlers interleave only at awaits, but between
two handlers everything may happen: an edit while a write is outstanding, a retry
after a disposal, a review between two edits of another thread, a restore whose
notice arrives after a newer edit. Writes fail after they took effect; flush
barriers time out or are aborted; workers are evicted while a PATCH is on its way.
`PROJECT.json` lists these hazards at their lines, with the properties that cover
them or the module that will.

### What makes each part correct

* Worker: one write at a time; the store never goes back; a resolved flush and an
  idle worker have stored everything handed over; a waiting barrier always has
  something outstanding that will settle it.
* Queue: the same through create, evict and dispose; no worker forgotten alive; no
  caller left waiting.
* Proposals: open ones stay off the disk; what is reviewed is saved; a review of one
  thread leaves the others alone.
* Cache: no acknowledged edit is lost to a hydration, commands are applied in the order
  they came under rising numbers, and nothing is left of a deleted instance.
* Client: each send is answered once, an acknowledged command was applied once, a
  command refused to a tool never is; windows converge to what the server holds.
* Thread: chat, agent memory and instances stay aligned, a bundle holds one moment, and
  a restored checkpoint is continued.
* Ledger: no cycle of documents that supersede one another, the stored ledger follows
  the server's, the claims in force are those in the documents.
* Lock and migration: one process at a time holds a project; no migration replaces a
  file with saves in it.

## 2. Modules

| Module | Models |
| --- | --- |
| `DrainWorker` | any number of workers side by side, with their barriers and retries |
| `DurableRegister` | what a worker promises: content that lags behind the edits and catches up in order, and flushes answered truthfully |
| `DrainQueue` | extends `DrainWorker` with the table of workers and the store |
| `StagedDocument` | one text document of ws-server under commands, proposals, reviews, updates, a restore and the writes of its worker |
| `DocumentCache` | the copy of one instance in ws-server while it is fetched, announced, restored, deleted, listed and written |
| `SyncSession` | the windows and tools that change one instance over their sockets |
| `CommandLog` | what `send` promises: a command is applied at most once, and one that was acknowledged was applied under the number in the answer |
| `AgentThread` | one chat thread: turns, their messages and checkpoints, captures and restores of bundles |
| `Ledger` | the links between documents and their copies |
| `ProjectLock` | the processes that migrate, lock, serve and close one project file |
| `...Proofs` | the proofs about the module of that name; every module above has one but the two abstract ones |
| `MC...` | finite instances for TLC |

`DrainQueue` is composed of workers by extension: each of its steps is one of theirs,
chosen and followed as the queue does. `DrainWorker` refines `DurableRegister` and `SyncSession` refines
`CommandLog`. The other modules stand for one component each, and take of their
neighbours what those promise: the writer in `DocumentCache` and the worker in `Ledger`
are the drain worker reduced to `DurableRegister`; the server in `SyncSession` holds the
instance in memory, which `DocumentCache` is about; the instances in `AgentThread` are
saved by a flush, which `DrainQueue` is about. The text of a `Mutant of` definition in a
module is a plausible mistake in the code, kept beside the definition it distorts; no
specification uses it.

### DrainWorker

Each field of `InstanceDrainWorker` is a function from worker to value: `_state`,
`_isDirty`, `pendingPayload`, `retryCount`, the armed retry and the registered
barriers. A payload is the number of the edit that produced it. `saves` is the set
of outstanding `saveInstance` calls. The actions are the synchronous stretches of
the code: `HandleTrigger` with one disjunct per case of its switch, `Flush`,
`BarrierGivesUp` (abort or time-out), `SaveLands` (the file server stores the body),
`SaveSucceeds`, `SaveFails` and `SaveIgnored` (the code after the await),
`RetryFires`, `Dispose`. A write may fail after it landed, which is the lost reply
of a PATCH. The delay of a retry is rounded, so it may be a timer, which `dispose`
clears, or a microtask, which it cannot. `latest`, `goal` and `durable` are history.

The early return of `dispatchWrite` for an empty payload is proved unreachable
(`PendingPresent`), which is why no action models it.

### DrainQueue

`table` is the map of workers; `owner` names the instance of every worker ever made.
A global flush and `dispose` loop over workers; the loop is a sequence of steps that
nothing interleaves with (`Ready`), so that each step of the queue is one step of the
workers. Deleting an instance is `Evict`.

### StagedDocument

A document is the set of edits applied to it. `doc`, `seq`, `buffers` and `baseline`
are the entries of the four maps of ws-server. The worker appears with the part of
its state that decides what is written (COALESCING is writing and dirty; the retry
count is abstracted to a choice between retrying and giving up; an answer "ok" of the
adapter, which takes a few microtasks, is atomic with the call). `link` says how much
of the object the worker holds is the object in `docs`: the same object, a copy that
shares blocks, or nothing. `Touch` applies to the held payload what
`applyCommandToDto` does in place: an inserted or removed block changes the same
object, an updated block changes every object that shares it, a replaced document
changes nothing. `ReadSnapshot` and `CheckedCommand` are a client that sends the
`baseVersion` it read; `BlindCommand` is one that sends none. The restore is three
steps: flush, store, notice. Restores return to the initial document.

Assumptions: `docs` keeps its copy of the document from before the first command on. It is
not deleted (`ws-server.ts:1192-1194`, `1265-1269`), which leaves the baseline or the
proposals behind, nor dropped after a list of instances (`1212-1216`). So no handler has to
fetch the document and each is one step; without a copy `reject-changes` awaits the fetch
(`1575-1577`) after it read the proposals and before it looks for the baseline. Losing and
fetching the copy is what `DocumentCache` is about, for documents without proposals.

A PATCH that failed does not reach the store afterwards; a full update
comes from a client that shows the current document; canvases, whose commands are
never staged, take the path of `DirectCommand`; an edit updates or inserts blocks that
already carry ids.

### DocumentCache

`record` is the instance in the file server's store, `docs` the copy, `pending` the fetch
that `pendingHydrations` holds, `fills` how far each fetch is: asked, answered, reading
the page of the command log, done. Whatever handler finds no copy awaits the fetch;
`waiting` are those, and `ready` the ones whose fetch is over. A message is handled only
when none is ready (`Turn`), because continuations of a settled promise run before the
next event, in the order in which their handlers were called. `notices` reach ws-server
in the order in which the file server sent them; the answers to requests overtake them
freely. `lists` are the two requests for all instances, of `instancesUpdated`, which
drops what the answer lacks, and of `watch-instances`, which only adds. `EvictWorker`
leaves a PATCH that was sent to land later. `crossed` records that an answer was used
that may predate a notice, `late` that a command was applied while the log was read.

Assumptions: the file server runs throughout, and the server one life; the log page has
a fixed last number, or is empty or fails; a write that fails, or that lands without its
answer, is tried again.

### SyncSession

A socket is a queue of messages each way that opens and closes once. `Serve` is the
server handling the next message to its end, in five cases: a request for the content, a
command applied, a stale one, one that is invalid or throws (after its number was taken,
or before), one of a deleted instance. `Send`, `Receive` and `Close` are `SyncClient`;
`Receive` also does what a window does with the message. A window edits, pauses, edits
while paused, resumes, which shows the buffered snapshot and asks for another, and may
ask at any time (`Resync`). A tool call is `write`, which reads and sends over one
client; `patch`, which reads with one and sends with another; or `comment`, which also
waits for those before it and starts over once when its base was stale. The first
command of a batch carries the version of the handshake, each later one the number of
the acknowledgement before it. `raced` records that a window edited while a snapshot was
on its way to it, or was refused an edit.

Assumptions: the instance is in the server's memory until it is deleted; a window whose
socket was lost is mounted anew, as another client. Time-outs and abort signals of `send`
have no caller in the repository; staged commands take the same way and are in
`StagedDocument`.

### AgentThread

A turn goes through `lookup` (the parent of its first message), `setup`, `running`,
`saving`, and its capture through `flushing`, `gathering`, `sealing`: one step between two
awaits. The agent's memory at a checkpoint is the set of turns whose input it holds, an
instance holds the turns that edited it, a message the way to it from the root. LangGraph
is external: a turn loads a checkpoint, may edit instances, puts one checkpoint, and
produces its text. `agent.stream` waits for the first chunk, and what it throws ends the
turn at once: `EndTurn` (an abort) and `FailTurn` (a failure) from `running`, when no tool has
run yet (`BeforeFirstChunk`), tell the registry nothing and save no text. `Stop` is the end of
a turn that got further: the registry takes the checkpoint the saver remembers, also when the
turn was aborted. The registry is `effective`, `pending` and `current`; `cached` is the
saver's own memory of the latest checkpoint, which a restore does not touch. Messages
are posted without waiting and may overtake one another. A restore is `idle`, `flushing`,
`posted`, `served`; it aborts the stream and does not wait for it. `Restart` is a crash or
the end of the program at any moment; `FailTurn` and `FailRestore` are failures on the way.
`disturbed` and `late` record overlaps, failures and refused messages, `forgotten` the turns
answered before the last restart, which the registry no longer knows of.

Assumptions: one thread; a turn puts one checkpoint; other threads edit no instance of
this one's bundles (what they do to a restore is in section 5).

### Ledger

A ledger is a function from the links it holds to their status and whether a document
claims them. `server`, `stored`, `pane` and `tool` are the copies, `writing`, `fetched`,
`notices` and `patches` those on their way. `Edit`, `StoreDocument` and `ClaimsSynced` are
an edit of a document's claims, the landing of its PATCH and what ws-server does once the
PATCH is answered: upsert them one by one, each checked for a cycle, then degrade what
is no longer claimed; a refusal stops between. The claims are read off the payload after the
answer, so an edit meanwhile may show in them or not (`Edit`). The worker of the ledger reads what it
writes when it writes (`StartWrite`) and coalesces meanwhile. `DeleteDocument` takes the
links of a document out of the stored ledger and announces the rest, which replaces the
server's copy. `PatchLands` and `ToolSaves` replace the stored ledger by a copy made before;
their notice is skipped by ws-server as a confirmation. `apart`, `disturbed` and `revived`
record such writes, overlaps, and archived links put back in force.

Assumptions: links are named by what they link; renames, identifiers of entries and the
restore of the ledger from a checkpoint are left out.

### ProjectLock

`pc` says what each process does next; `lock` is the lock file: absent, unreadable,
of another host, or the identifier of a process here. A foreign lock names an identifier too,
and where the code compares it before the host, or without it, it may be taken for one's own
(`OwnLocks`). A process of another host shows only by the lock it left. `acquire` is `ReadLock`, `Judge`,
`Unlink`, `Publish`, because it awaits each file operation and judges what it read
before; `release` is `Release` (read and compare) and `Remove`. Both may run beside
those of other processes. An identifier whose process is gone may be forked again, so
`Dead` is a statement about now. `executeMigration` is `Backup`, `Extract`, `Stage`,
`Cutover`, any of which may fail into `RollBack`. A cutover replaces the file, which leaves an open
database on a file nobody finds; a rollback copies the backup over it in place. The staging file has one name for all
processes. `file` is the format of the project file and the number of saves it holds;
`live` are the processes whose open database still is the file at that path, and
`acked` counts the saves that were answered. `overlapped` records that two openings, or
an opening and a repeated release, were under way at once; the properties of the
passing run are about histories without one; `lock_migration` shows what happens with
one. A failed `prepareClose` that closed nothing changes nothing and has no action.

Assumptions: no other program touches the lock file; the archive has no adjacent dirty
directory, which would be extracted in its place; writing through a database whose file
was replaced reaches nobody; `force`, which no caller sets, is left out.

## 3. What TLC checks

| Run | Question | Bounds | States |
| --- | --- | --- | --- |
| `worker` | does one worker keep its promises under every interleaving, and does it implement the register? | 1 worker, 2 callers, 3 edits, 1 retry; fair | 30,948 |
| `queue` | do flush, evict and dispose of several instances tell the truth, and does a deletion stop the writes? | 2 instances, 2 workers, 1 caller, 2 edits, 1 retry | 3,542,178 |
| `queue_live` | is every global flush answered? | as `queue`, 1 edit; fair | 99,266 |
| `staged` | do reviews, restores and writes keep proposals off the disk and reviewed content on it? | 2 threads, 1 reader, 3 edits, 1 restore | 388,609 |
| `cache` | does a fetch lose an edit, revive a deleted instance, reorder commands or leave one waiting? | 2 commands, 3 fetches, 1 restore, 1 list; fair | 561,559 |
| `sync` | is every send answered truthfully, do batches stay together, do windows converge? | 1 window, 1 agent, 3 commands, batches of 2, 1 second try, 1 mishap, 1 request for the content; fair | 605,105 |
| `thread` | do chat, agent memory and instances stay aligned over turns, captures, restores, restarts? | 2 instances, 3 turns, 1 at once, 1 restore, 1 mishap | 9,750,997 |
| `ledger` | do the copies stay acyclic, the stored one follow the server's, the claims follow the documents? | 2 documents, 3 links, 3 calls, 1 failed write | 1,980,894 |
| `lock` | without overlapping openings, does the lock file name the holder and does every answered save stay? | 3 processes, 2 saves; symmetric | 213,621 |
| `staged_unaccepted`, `thread_aligned`, `lock_migration` | statements of the documentation that the code contradicts (section 5) | as `staged`; 2 turns, no mishap; 2 processes, 1 save | |

Beside one type invariant per module, the properties are these.

* Worker: `SingleFlight`, `WritesInOrder`, `IdleMeansDurable`, `FlushMeansDurable`,
  `BarrierSettles` (liveness), `RegisterSpec` (refinement).
* Queue: `QueueFlushMeansDurable` (a flush whose promises all resolved found everything in
  the store), `DisposeLeavesNobodyWaiting`, `BackwardsOnlyAfterEvict` (the store goes back
  only for an evicted instance), `NoForgottenWorker`, `OnlyRegisteredWrite` (a request
  starts only from the worker in the table, so a deletion is followed by no write but the one
  that was outstanding: nothing coalesced, no late answer and no retry starts another),
  `GlobalFlushSettles` (liveness).
* Document: `OpenProposalsOffDisk`, `SettledMeansSaved`.
* Cache: `AckedEditsKept` (an acknowledged command stays in the copy and reaches the record),
  `NothingOfDeleted`, `AppliedInOrder`, `HandlersResume` (liveness). The first three exempt
  histories in which a notice or a list crosses a fetch, which the code does not guard
  against (section 5).
* Clients: `BatchesContiguous` (nothing comes between the commands of a batch),
  `RefusedNotApplied` (a tool's command that was refused was not applied and never will
  be), `WindowsConverge`, `KeepsPromise` (refinement), `SendsSettle` (liveness).
* Thread: `AlignedUndisturbed`, `BundlesCoherent` (checkpoint and instances of a bundle
  belong to the branch of its message, and a bundle lacks a checkpoint only when its branch
  has no answer but such as a restart made the registry forget), `LineageFollowsBranch` (its parent lies on that
  branch), `NextTurnContinuesRestored` (an action property, without exemption).
* Ledger: `AcyclicUnlessRevived`, `StoredFollowsServer`, `ClaimsFollowDocuments`.
* Project file: `LockCoversHolder`, `AckedSavesKept`.

**Why the bounds are enough.** Three edits are one being written, one coalesced and
one after the retry; the code compares nothing but newest and older. Two callers show
one that waits and one that is told at once. One retry exercises both outcomes of the
budget. Two workers of a queue are two live ones, or an evicted one beside its
successor. Two threads give a reviewed and an unreviewed proposal; three edits give a
direct one and one of each thread. Three processes are a holder, a newcomer and one that
crashed or is released twice. Three fetches are one that was cut off by a deletion, its
successor, and one for a request after it; two commands are the least that can be out of
order. Three commands are a batch of two and one that tries to come between. A mishap
is one fault at each place where one may happen. Three turns and a restore give a branch
left, a branch restored, and a turn on it; with one turn at a time, the turns themselves
do not overlap, but turns, captures, messages and restores do. Two documents that may
supersede each other are the shortest cycle, and the third link is one whose relation is
not checked; three calls are a claim, a change that races it, and a whole copy written
back. The proofs remove these bounds for all of the safety properties (section 4).

Two outstanding cycle ids (`Cycles`) suffice because a worker has one write
outstanding. `CHECK_DEADLOCK FALSE` is set in every run but those of the lock: a system
whose edits, calls, turns and retries are used up stops. Deadlock is checked in `lock`.

**Fairness.** `Fairness` in `DrainWorker` asks that an outstanding PATCH is answered
or fails and that an armed timer or microtask runs; the HTTP client and the event loop
provide both. `QFairness` adds that a synchronous loop is completed. That of
`DocumentCache` asks that each request of ws-server is answered or fails and that the
continuations of a settled promise run; that of `SyncSession` that a message on an open
socket is delivered and handled. Nothing is assumed of edits, flushes, aborts, disposals,
deletions, tool calls or of any fault. Edits are bounded, and the liveness properties of
the worker need that: a worker edited without pause never becomes idle and its barriers
wait as long, by design of the code.

## 4. What is proved

All theorems hold for every value of the constants: any number of workers, callers,
instances, threads, windows, agents, documents, links, processes, edits, commands,
turns, retries, faults and restores. The assumptions are the `ASSUME`s of the modules, and
no more: bounds are naturals (`DrainAssumption`, with at least one cycle id;
`StagedAssumption`, `CacheAssumption`, `SessionAssumption`, `ThreadAssumption`,
`LedgerAssumption`), windows are not agents, links go between documents, and `None` and
the values of the lock file differ from those they stand beside (`QueueAssumption`,
`NoneAssumption`, `LockAssumption`, `NoBackupAssumption`).

None of the invariants of section 3 is inductive as it stands; the strengthenings are
what one has to know to see why the code is right. Each is preserved by one lemma per
action.

**DrainWorkerProofs.** That an idle worker has stored its newest edit depends on what
the outstanding write carries. `IInv` adds that a live worker has a write outstanding
exactly while it is DRAINING or COALESCING (`SaveWhileWriting`), that this write carries
content no older than the store and the newest unless the worker is dirty
(`SaveInOrder`), where the dirty flag and the timer may be set (`DirtyFlag`,
`RetryArmed`), that the registry is exactly the set of waiting callers (`RegistryExact`)
and that a payload is present whenever it will be written (`PendingPresent`). From it
follow `TypeCorrect`, `OneWriteAtATime`, `FlushIsDurable`, `IdleIsDurable`,
`BarrierNeverOrphaned`, `NeverBackwards` and, mapping every step to a step of
`DurableRegister` or a stutter, `WorkerImplementsRegister`.

**DrainQueueProofs.** As a step of the queue is one of its workers (a lemma),
`QueueWorkersSafe` carries the worker's theorems over, and `QueueImplementsRegister` its
refinement: queue, workers, registers. `NoWorkerForgotten` uses `QInv`, which says where each worker stands also in the
middle of a loop of `dispose`. `ServedInv` says how the store relates to the workers: an
instance that was never evicted has had one worker, whose writes are what the store
holds, or none and nothing in the store (`Served`), and what a caller wants of an
instance is what it told that worker, or what its loop will still tell it (`Asked`).
From it follow `QueueTypeCorrect`, `QueueFlushIsDurable`, `StoreGoesForward` and
`NobodyWaitsAfterDispose`. `DeletionStopsWrites` combines two facts: whoever starts a request
is DRAINING after it (`RequesterDrains`), and outside the loops a worker that is alive is in the
table, while one that was disposed stays so.

**StagedDocumentProofs.** `SInv` adds that every edit in sight was made, so the next
one is new everywhere (`MadeOnly`), that a write is in flight exactly while DRAINING,
that a worker holding the same object as `docs` holds the current document
(`HeldPayloadIsCurrent`), and that its clean write is of that document (`CleanFlight`).
It is proved in three groups, the worker's, the document's and the history's. From it
follow `StagedTypeCorrect`, `OpenProposalsStayOffDisk` and `SettledIsSaved`.

**DocumentCacheProofs.** Unless a notice crosses a fetch: there is one fetch at a time,
only while there is no copy, and who waits waits for it (`OneFetch`); the record exists
from creation to deletion, and nothing announces it after the notice of its deletion
(`RecordStays`); the copy, and the newest of queued content, outstanding write and record,
hold every edit that was kept (`KeptSafe`); the commands that wait are newer than those
applied, whose numbers are used up, and a fetch that found the record did so before any
was applied (`Rising`). With `Gone` and the types these make `CInv`, and from it follow
`CacheTypeCorrect`, `FetchesLoseNothing`, `DeletedLeavesNothing` and `CommandsInOrder`.
`WaitersHaveAFetch` needs no exemption: also when a delete has forgotten the fetch or a
restore has crossed it, whoever waits, waits for one under way. It is the safety half of
`HandlersResume`; the other half is that a fetch under way ends (section 3).

**SyncSessionProofs.** `SyncInv` adds to `BatchesContiguous` that the log is in order of
its numbers (`LogOrdered`), that a number was taken by a command or a mishap
(`NumbersUsed`), that a command on its way to the server travels once, was not
applied, and in a batch is based on the number of the one before it (`UpSound`, `UpOnce`), that an acknowledgement on its way names an entry of the log
(`DownSound`) and that one received did (`CallsSound`). From it follow `SyncTypeCorrect`,
`BatchesStayTogether` and, action by action, `PromiseKept`: clients, sockets and server
implement `CommandLog`.

`ToolInv` is about tools alone: a tool has one send outstanding, the one it waits for
(`OneOutstanding`); while the instance is there, a command of its on the way is that one
(`SendsWaitedFor`), and an answer on the way is the only one and leaves nothing of the
tool's behind it (`AnsweredOnce`); a refusal on the way finds the command unapplied
(`RefusalsSound`). That is why an error that names no command may be believed there:
`RefusedWereNotApplied`. A window may have several sends outstanding, and the property
does not extend to it.

`WindowInv` follows what a window will show once the messages on their way to it have
arrived (`Shown`): unless it is paused or raced, that is the server's content with its own
edits that are still on their way (`ShowsAll`), or a request for the content is on its way
with none of its edits behind it (`RequestsLast`). A window that resumes asks for the
content, so whatever it missed is made up for: `WindowsShowContent`.

`WaitingSendsAreAnswerable` is the safety half of `SendsSettle`: while the instance is
there, every send that waits has an open socket, with its command on the way to the
server or an answer that settles it on the way back. That a client connects anew with no
send outstanding comes from `ToolInv`.

**AgentThreadProofs.** A turn puts at most one checkpoint and seals at most one bundle,
so there are no more of either than turns (`Counted`), and whatever names a point or a
bundle names one there is (`PointsExist`, `BundlesExist`): `ThreadTypeCorrect`. Because the
branch owed by a restore is pending until a turn consumes it (`Owed`), the first turn
begun after a restore continues from it: `RestoredBranchIsNext`.

The three invariants of an undisturbed thread need one strengthening, `CalmInv`. One turn
or one restore goes on, and what is posted is of that turn (`Alone`). A posted message
continues the branch: the user's follows the active one, the answer the user's, a notice
whatever is active (`PostsSound`). So the branch on the screen together with the posts
(`Branch`) is what the thread has said, in whatever order the posts arrive, and it is this
branch that head, instances and answers agree with at every step (`AlignedNow`). A turn
continues from the restore head and the head moves only with its put; what a capture has
read stays true until it is sealed, the parent it chose included (`TurnMemory`, `Origin`).
A pending branch is where the head is, since a restore moves both (`Continues`, `Served`).
The registry's checkpoint, which a turn that ends before its first chunk leaves behind the
head, still fits the branch, or is absent with every answer forgotten by a restart; so do those
that captures have read and bundles hold (`Recollection`).
From it follow `ThreadStaysAligned`, `BundlesAreCoherent` and `LineageIsOfBranch`.

**LedgerProofs.** `LedgerTypeCorrect`; `NoCycleUnlessRevived`, by an invariant over every
copy at once, as any of them may replace another; `StoredIsServer`, by `StoredInv`, which
adds that a write under way with no edit behind it is of the server's ledger; and
`ClaimsAreInForce`, by `ClaimsInv`, which adds that documents claim links of their own and
that an undisturbed ledger on its way to ws-server follows the documents already.

**ProjectLockProofs.** A process goes by a lock it read some steps ago. `LockInv` adds,
for histories without overlap, that at most one process is opening or repeating a
release (`OneCritical`), that the only other holder there can be is the one a judging
process read and that there is none once it has decided to replace or remove the lock
(`ReadStillGood`), and that a migration still has a legacy archive before it while a
serving process has its database at the path (`FormatFits`). From it follow
`LockTypeCorrect`, `LockNamesHolder`, `SingleWriterWithoutOverlap` and
`AnsweredSavesStay`.

**Only model-checked:** liveness (`BarrierSettles`, `GlobalFlushSettles`,
`HandlersResume`, `SendsSettle`), which is out of this prover's reach; what is proved is
that whoever waits has something coming that ends the wait (`BarrierNeverOrphaned`,
`WaitersHaveAFetch`, `WaitingSendsAreAnswerable`). Every invariant and every action
property of the passing runs is proved.

## 5. Where the code and its documentation disagree

Three statements quoted in `PROJECT.json` have a run that TLC finds violated.

* `staged_unaccepted`: the baseline is cloned after the first staged command was
  applied in place, so a rejected proposal stays and is stored with the next edit.
* `thread_aligned`: the pane lets a message be sent while a restore is under way; the
  branch on the screen shows it, and the agent's next turn does not remember it.
* `lock_migration`: the migration runs before the lock is taken, so a second migration
  of the same archive, or its rollback, replaces a database that is being served.

More follows from the models and has no run of its own; the properties of section 3
name these cases as their exemptions.

* Rejecting one thread restores the whole baseline, which takes every later edit out of
  the document, of other threads too, whose proposals stay buffered all the same.
* With a proposal open, a direct edit is not stored and a flush resolves.
* Updates, rejections and restores change the document without a newer version, so
  commands based on older content pass the version check.
* An edit of another thread's agent during a restore is written over the restored store.
* Evicting an instance neither waits for nor cancels its PATCH, so a revived instance has
  two writes active where `docs/event-driven-system/README.md` promises one; what that
  can do to the store is bounded by `BackwardsOnlyAfterEvict`.
* A notice of a restore or deletion that arrives during the GET of a hydration is undone
  by the older record; a list of instances drops an instance created while it was on its
  way (`crossed`). A command that arrives while the log is read overtakes those that wait,
  and its number is replaced by the one read (`late`).
* An error reply names no command, so the client rejects every send outstanding there,
  of which the server may have applied some; only a tool, which has one outstanding at a
  time, may take a refusal for the truth. A command to a deleted instance is never
  answered.
* `streaming.ts:624-626` says that the registry is updated even on abort, and the head of
  `AgentCheckpointRegistry.ts` that it is after every turn. An abort before the first chunk is
  thrown outside the `try` that leads there, and the registry is told nothing. After a restart,
  which empties the registry, the bundle captured then has no checkpoint although its branch
  holds answers (`forgotten`).
* A turn that is aborted later, but before it puts a checkpoint, makes the saver's remembered
  checkpoint the effective one, also after a restore of another.
* A deletion leaves the baseline of a document, and a list that drops the copy leaves its
  proposals; a rejection that has to fetch the copy may find the baseline gone, and then undoes
  command by command (`StagedDocument` leaves these out).
* A claim that would close a cycle makes the save of its document fail although it was
  stored. Putting an archived link back in force is not checked for a cycle.
* A ledger written by the pane or a tool is taken for a confirmation by ws-server, whose
  next write takes it back.
* Two processes that open a project at once both find no lock, or the same stale one,
  both publish theirs and both serve: `SingleWriter` holds only as
  `SingleWriterWithoutOverlap` says.
* A lock of another host that names the identifier of the process that reads it is taken for
  its own and overwritten, or removed by its release; any other foreign lock is refused.

## 6. Plan

Done, in this order: `DrainWorker` with `DurableRegister`, `DrainQueue`,
`StagedDocument`, `ProjectLock`, `DocumentCache`, `SyncSession` with `CommandLog`,
`AgentThread`, `Ledger`, and their proofs. Next:

1. `WindowClose`: a window that is closed while it is edited: flush, preparation of the
   close with its time-out, last flush, end of the process; openings that fail and are
   retried. Properties: what a flush reported survives the close; a window can always
   be closed; a failed opening does not bar the next one.
2. The reduced writers of `DocumentCache` and `Ledger` as refinement mappings of
   `DrainWorker`, so that what is assumed of the writer there is proved and not argued.
3. The numbers of two lives of the server: the command log, which is posted to a route
   that is not served, and the base versions clients hold across a restart.
4. File revisions of the storage engine, writes of unfinished steps of the checkpoint
   store, and the inverse commands, as operators over small data.

## 7. Not modelled

* The pool of sync clients, the time-outs and the signals of `send`: nothing in the
  repository calls them.
* The undo and patch engines: pure functions over documents. A review reaches them only when it
  had to fetch the copy of the document, which `StagedDocument` leaves out.
* The editor, canvas layout and clustering, and the text of the agent's tools and prompts:
  what they do to shared state reaches ws-server as the commands modelled here.
* Settings, telemetry, evaluations and scripts: no concurrency of their own.
* SQL and schema migrations of the storage engine: the store is a variable. The conversion
  of data in a migration of the archive.
* Lifecycle events of the queue, which only feed listeners that cannot disturb it, and the
  triggers `canvas_command` and `claim_sync`, which ws-server never produces.

The modules stand for some 4,300 of the 70,000 lines of the implementation: those in
which several actors share state. Most of the others are user interface, schemas and
conversions, and the text for and by the language model. `PROJECT.json` gives the reason
for each component.
