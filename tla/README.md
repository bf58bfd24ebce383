# A verification of unridden

TLA+ models of this repository's decision service: the experimental snapshot
API (`unridden/api/snapshots`, `unridden/api/native/snapshots`), the v1 API
(`unridden/api/app.py`, `native_backend.py`, `native/worker.cpp`), and the
builds and installs that give both their workers. With them come the TLC
configurations that check the models and proofs checked by TLAPS. File and
line references are to the repository's `src/` tree.

## 1. The system

Unridden serves decisions from a language model without generating text. The
v1 API answers one stateless request at a time from a worker process. The `/v2`
API adds *snapshots*: the K/V state of a prompt, captured after 18 or 30 of the
model's layers, from which later requests branch.

| Component | State it keeps | Operations | Talks to |
|---|---|---|---|
| snapshot registry, `snapshots/store.py` | `_records` (last-used order, leases, refcount, resident, durable, promotion memo), `_resident_bytes`, the snapshot directory | get, lease, register, expire, restore, delete, budget and eviction, persist, `_load_disk_index` | awaits the backend (drop, save, load); files |
| snapshot service, `snapshots/service.py` | `_busy`, `store`, the restart backoff, the recovery task | create, decide, state_eval, ride, vectors, metadata, delete, rollback, recover | the registry, the backend, the compilers |
| snapshot backend, `snapshots/backend.py` | the child process, `ready`, the I/O lock | start, one JSON line out and one back, `_invalidate`, close | the worker's pipes |
| snapshot worker, `snapshot-worker.cpp` | `snapshots_`: id to K/V blobs, shared by pointer between a pair; what its two contexts hold, and what it takes to be resident in them | create, promote, evaluate, state_eval, ride, reference, drop, save, load | the backend; files |
| prompts, `snapshots/compiler.py` and `_plan()` | none; a record keeps the messages and tokens it froze | compile a context, a readout, a followup, a replacement | the template and tokenizer of the worker |
| v1 application and backend, `app.py`, `native_backend.py` | the lifespan; `_busy`; the child process, `ready` | admit a request, evaluate, reap, close | the worker's pipes |
| v1 worker, `worker.cpp`, `worker-utils.h` | its context, `cached_prefix`, the batched cache | evaluate, sequentially or in one batch | pipes |
| bundles: `bundle.py`, `fetch.py`, `build.py`, `build_base_runtime.py` | files | build a base, build a worker, pack, fetch, unpack, verify | network, files |
| schemas and mappers, `schema.py`, `snapshots/schema.py`, `mapping.py` | none | validate a message of a worker, map a result | called by the backends and services; a message they refuse stops the worker |
| CLI, research scripts | none | pure functions | - |

A v2 request arrives at the service, which takes `_busy` (a second one is
refused with 429, never queued), recovers the worker if the backend knows it
lost it, runs `store.expire()`, and then the handler. The handler calls the
registry and the worker in turns and unwinds on any error. A v1 request is
admitted by the same kind of gate and costs its worker when anything about its
answer is in doubt; nothing restarts that worker.

### What is hard about it

* **Failure between two awaits.** A store method awaits the worker in its
  middle. The worker can be found dead, answer a typed error, or be killed
  because its answer was late or malformed, and registry, worker memory and
  directory have to stay in agreement.
* **Cancellation.** A request can be cut at every await, the reaping of a
  worker included; whatever is in the pipes then must not be taken for the
  answer of the next one.
* **Two owners of one lifetime.** A record is held by leases, by the records
  that refer to it, and by its TTL; what the worker holds and what the budget
  charges must follow. A pair's lower K/V blob exists once and is charged once.
* **State kept for speed.** The snapshot worker keeps its last parent in its
  contexts, the v1 worker the prefix its questions share. Neither may change a
  single cell an answer is computed from.
* **Partial publication and crashes.** Several ids published by one command
  are registered one by one; the snapshot directory is the only state that
  survives the service; a bundle is installed file by file.
* **Recovery.** A request, a /health poll and a failed restart each can leave
  or find the service half recovered.

`PROJECT.json` lists each hazard at its line with the properties that cover it.

### What makes each component correct

* registry: referenced snapshots outlive what refers to them; refcounts,
  leases and the byte charge are exact; a leased snapshot stays loaded; the
  directory is the durable records, and can be loaded whenever the service is
  killed; what it takes to be resident the worker holds, and the reverse.
* service: inference finds its parent loaded; a failed request is undone; every
  request ends, and a lost worker is replaced.
* backends: an answer belongs to the request it is returned for; after any
  ambiguous failure the inference has been stopped; no worker is left behind.
* workers: an answer depends on its own prompt and nothing else; no context is
  run past its size; every command is answered.
* prompts: every prompt is the rendering of its logical history, and extends
  what its parent froze.
* bundles: what a manifest says is beside it, what was refused left nothing, and
  a worker is started from the files of one bundle.

## 2. The modules

| Module | What it models |
|---|---|
| `SnapshotStore` | the registry, the worker memory it accounts for, the directory; one action per step between two awaits |
| `StoreClient` | the registry under its most general caller: any store call and any worker command, in any order the service could issue them |
| `SnapshotService` | the request handlers over the registry |
| `WorkerTransport` | the methods of the snapshot backend, one action per step between two awaits, and the worker's loop at the other end of the pipes |
| `CommandChannel` | what the registry takes a command to do: the abstract specification of `WorkerTransport` |
| `KvCells` | the K/V cells of a context and the decodes they are computed in, for both workers |
| `SnapshotValues` | snapshots and branches as values, and the preflight checks |
| `SnapshotWorker` | the worker process: its registry, its contexts, its files, its commands step by step |
| `SnapshotSemantics` | what those commands promise with no context at all: the abstract specification of `SnapshotWorker` |
| `SnapshotReplies` | what the snapshot worker answers each command with, and the schema the backend validates it with |
| `SnapshotPrompts` | messages, rendered prompts, frozen tokens, and the choice of what a question continues |
| `DecisionService` | the v1 application, its service, its backend and its worker |
| `DecisionContract` | what the README promises of a v1 request: the abstract specification of `DecisionService` |
| `LabelWorker` | the v1 worker's evaluation of the questions of a request |
| `LabelAnswers` | the message the v1 worker writes, its schema, and the response the application maps it to |
| `QuestionSchema` | `WorkerQuestionResult`, which the answers of both workers share |
| `WorkerBundle` | the base build, the worker builds against it, and `pack()` |
| `WorkerInstall` | `fetch()`, `unpack()`, and the verification and start of a worker |
| `StoreInvariant`, `ServiceInvariant`, `TransportInvariant`, `SnapshotWorkerInvariant` | the inductive invariants of `StoreClient`, `SnapshotService`, `WorkerTransport` and `SnapshotWorker` |
| `SnapshotStoreProofs`, `SnapshotServiceProofs`, `WorkerTransportProofs`, `SnapshotWorkerProofs`, `LabelWorkerProofs`, `SnapshotPromptsProofs`, `DecisionServiceProofs`, `WorkerBundleProofs` | theorems and proofs |
| `MC...` | instances for TLC |

How they compose. `StoreClient` is the abstract specification of the service:
what the registry may be asked to do. `SnapshotService` implements it
(`UsesStoreProperly`, with the identity as refinement mapping, checked and
proved), so what is proved of the registry under `StoreClient` holds under the
real service (`RegistryHoldsUnderService`). What
`SnapshotStore` takes a worker command to do (answered and applied, refused, or
lost with the worker) is `CommandChannel`, which `WorkerTransport` implements;
what the worker then holds for an id is what `SnapshotWorker` computes, whose
promise is `SnapshotSemantics`. Both workers are built on `KvCells`.

Definitions marked "Mutant" are wrong variants of the definition below them,
each of which the property it is listed with in `PROJECT.json` refutes.

### SnapshotStore

| Variable | In the code |
|---|---|
| `records`, `older`, `residentBytes`, `attached` | `SnapshotStore._records`, the order of `last_used`, `_resident_bytes`, and whether a store object exists |
| `ready`, `live`, `held` | `backend.ready`; the process really runs; the worker's `snapshots_` |
| `disk`, `partial` | the published directories by manifest; those `_remove_tree` has started on |
| `expired` | the ids whose `expires_at` has passed (time itself is not modelled: a TTL runs out at any moment) |
| `call` | the store method in progress: which, at which await, with what arguments and which lease |
| `outer`, `pending` | the caller's open lease; rows of a worker reply not yet registered |

A record is reduced to what the properties tell apart. Token lists are
abstracted to the two facts the code asks of them: a promotion has its
parent's tokens, a branch more. Ids are fresh (`uuid4`), so a new one is any
that occurs nowhere.

A store method is a sequence of actions, `call.pc` naming the step:

* `expire`: `ReclaimMemory`, `ReclaimDisk` then `Unlink`, until `ExpireDone`.
  The code reads the clock once per loop; in the model a TTL that runs out
  during the loop may already be seen by it, as if it had run out just before.
* `register`: expire, `AdmitRow` (or `RefuseRow`), expire again, eviction,
  `InsertRow`, and for a disk row `Publish`, `PublishFails` and `Retract`, or
  `SaveFails`.
* `restore`: expire, eviction, `Load` or `LoadRefused`.
* `delete`: `DropTarget`, then `Unlink` if it has a directory.
* eviction: `EvictDisk`, `EvictMemory`, in last-used order, or `StoreFull`.
* `TransportFails` may replace any step that needs the worker; `WorkerDies`
  may happen any time, unseen by the backend; `Crash` kills the service.
* `LoadIndex` is `_load_disk_index`, with the records read in any order.

What is synchronous in the code (`get`, `lease`, release, the promotion memo)
is one action. Sizes: `LowerBytes` for a lower blob, `UpperBytes` for an upper
one, charged as `snapshot_row` reports them, so that a pair shares the lower
blob and a reloaded 30 no longer does. A directory keeps a manifest of its own
(`disk`), which a restore compares with the record (`ManifestMatches`):
`DirectoryIsRestorable` is that it always would agree, and that the directory a
kill leaves is an index the next start can read.

### SnapshotService

`Routed` is the set of what the request schemas let pass, by what the handlers
tell apart: what a create is to capture and where it is kept, what a request
refers to, whether it replaces the question, how many children it saves. A run
takes some of them (`Requests`), the proofs any.

One handler runs at a time; `task` holds its program counter (`step`), the
snapshot it works on, what its lease is for, and the ids it allotted. Each
action names the step it is at. `decide`, `state_eval` and `ride` share one
path (`Plan`, `Anchor`, `Ensure30`, `OpenLease`, `Restore`, `BranchParent`):
they differ in what they compute and in how many children they save, which
the request states. The exception paths are as in the code: the lease of a
branch closes before the rollback of `_serialized`, `create` and `promote`
roll back first, and the rollback goes through the allotted ids backwards with
`store.delete`, falling back to the worker's drop. Compiling a prompt and
mapping an answer are abstracted to success or failure (`CommandFails`,
`ReplyRefused`); what is compiled is `SnapshotPrompts`.

### WorkerTransport

| Variable | In the code |
|---|---|
| `ready`, `process`, `ioLock` | the backend's fields of these names |
| `drain` | the worker whose stderr `_stderr_task` reads |
| `task` | what each asyncio task does in the backend: `pc` names the await it is at, `child` the process a reaping or a close waits for |
| `outcome` | how each command ended for its caller |
| `phase`, `killed`, `eof` | of each worker process: how far it is; whether SIGKILL was sent; whether its stdin was closed |
| `stdin`, `stdout` | the lines in its pipes |
| `doing`, `applied` | the command it works on; those whose effect it holds |

A command is its correlation id, an answer its kind: a result, a refusal
before anything was changed, a failure after something may have been (earlier
questions of an `evaluate` publish their children), or a line beyond the size
limit or that does not validate (`bad`). A deadline may pass at any moment. A
task can be cancelled at every await; in `_request` and `start` that reaps the
worker, in `_invalidate` and `close` it abandons the wait. A killed worker
does nothing but die; any other may die or hang. An environment that `start`
rejects before it does anything leaves no trace and is left out.

`OneAtATime` is the gate the service puts before the backend (`_busy`; the
lifespan closes the service after its last request). It is a guard of
`StartCall`, `RequestCall` and `CloseCall`, and it is needed: without it two
callers can both be told the worker is ready before one of them loses it, so
the backend's own lock would not be enough.

`CommandChannel` has three facts the models above build on. An answered
command was applied in the worker that is up; a refused one was not; one with
any other end is lost together with the worker and all it had applied, or
(`Fail`) leaves the worker up with what it may have done.

### KvCells, SnapshotValues, SnapshotWorker, SnapshotSemantics

Numbers are abstracted to what they are computed from. A K/V cell is its input
and the decode it was computed in (its first cell and its size: llama.cpp gives
bitwise equal values only to equal decodes); a residual row is the sequence of
cells it attends to. Two values are then equal in the model exactly when they
are the same inputs through the same decodes, which is what the repository
means by "computed identically".

| Variable of `SnapshotWorker` | In the code |
|---|---|
| `snaps` | `snapshots_`: tokens, blobs of both contexts, boundary rows H18, whose lower blob it is |
| `lower`, `upper`, `resident`, `residentUpper` | the two contexts' cells, `resident_`, `resident_upper_` |
| `stock` | the context of a `--reference` worker |
| `files` | saved directories, with the batch size they were made with |
| `cmd`, `readout`, `reply` | the command under way; the last readout; the answer being written |

A command that cannot stop half done is one action. `evaluate` and
`state_eval` take a step a branch (`RunBranch`), `ride` a step a token
(`RideToken`), and inference can fail at each (`BranchFails`, `RideFails`,
`InferenceFails`). `make_resident` restores a parent only when the worker does
not believe it is resident (`LowerFor`, `UpperFor`), and trusts `resident_`
and two lengths for that; `Drop`, `TrimTo` and the failures say what keeps that
belief true. Preflight refusals are `BranchError`, in the code's order.

A saved directory is loaded only if what is in it is complete (`Complete`:
the lower cells, the upper ones of a 30, the boundary rows of an 18) and
was made with the worker's batch size (`Loadable`).

`SnapshotSemantics` has no contexts and no residency: every command computes
from the blobs of the snapshots it names, in a scratch of its own. It keeps the
questions of a request (`asked`), and the readout of each, whether it saves a
child or not, is that of the next question over its parent's blobs. A ride
starts from those blobs, or from nothing in the split or the stock graph
(`RideBaseline`), and goes on in its own `scratch`; the readout of a
`reference` is that of the whole prompt from nothing (`Baseline`). No abstract
step leaves a readout open. In the mapping (`Semantics` of `SnapshotWorker`)
`asked` is what the command under way has still to answer, `scratch` what a
ride has in the contexts of its mode. How a prompt is cut in pieces, and what a
prefill of them makes, is said once for both, in `SnapshotValues`.

### QuestionSchema, SnapshotReplies, LabelAnswers

A schema is a predicate on messages (`ValidHello`, `ValidRow`, `ValidCreated`,
`ValidTensor`, `ValidBranch`, ...), a reply a message built from the state the
worker is in (`Hello`, `Row`, `CreatedMessage`, `VectorsMessage`, `Accounting`,
...). `Believes` pairs the commands with their schemas, as the typed commands of
`snapshots/backend.py` do; `TakesCreated`, `TakesPromoted`, `TakesResult`,
`TakesState` and `TakesRide` are what the service asks of an answer besides (the
ids it gave, the parent it chose, the labels of the question), and `Usage` what
it reports of one. Digests, times and
texts are left out and a blob counts its rows, so what remains is what the
checks relate: depths, parents, coverage, token counts, restores and slices. A
message that fails its schema makes the backend stop the worker, with
everything that was only in memory; so each check is a promise of the worker,
and `RepliesAreBelieved` says that it keeps them all, and that what it saved it
can load (`FilesAreLoadable`). `inspect` is the exception: its schema takes at
most 2^20 token ids, and nothing in the code keeps the context of the worker
below that, so the property speaks of snapshots within it. `LabelAnswers` goes one
step further for the v1 worker, to the response made of an answer: logits are
any function of the label and the cells attended to (`Logit`). It also has the
profile made of the hello (`ValidProfile`) and the schema of the response
(`ValidResponse`).

### SnapshotPrompts

A text is a sequence of words and newlines. The template (which may trim a
turn, and open an answer with words of its own) and the tokenizer (which may
merge neighbours) come with the language model, so they are parameters;
`RStrip`, `StatePrefix`, `Block` and the message lists are those of the
compiler. A snapshot keeps what it froze (`tokens`), its messages, and its
*history*: what was really asked, which the code does not keep and the
properties compare with. `Base` is the choice of `_plan()` of what a followup
or a replacement continues.

### DecisionService, DecisionContract

An action is what the event loop runs between two awaits that suspend; `pc`
names the await each request is at, `app` how far the lifespan is. `_guard`
and `_io_lock` never suspend anybody here: nothing awaits while it holds the
first, and `_busy` keeps a second caller from the second. A request's body
arrives in pieces (`ReadBody`, `BodyTooLarge`), its client may go away
(`Disconnect`), the service's own timeout and the backend's deadline may pass
(`Deadline`), and it may be cancelled at its await (`Cancel`), the reaping
included (`ReapCut`). `code` is the HTTP status, after the error mapping of
`app.py`. The worker says hello, takes lines, computes and answers, hangs, or
dies, at any moment.

`DecisionContract` is the README's section on errors: at most one status per
request, 200 only for what was computed while the backend is up, refusals
(400 to 429 and some 500) without a trace, 408, 500 and cancellation of what
was computed only with the backend down, and a backend that never comes up again.

### LabelWorker

`memory` are the cells of the context, `cached` is `cached_prefix`, `asked` and
`results` the request under way, `fallback` is `batched_fallback`. A question is
its tokens; an answer is the cells its last token attends to, with the counts
the worker reports. `EvaluateQuestion` trims to the shared prefix or prefills
it in decodes of its own; `EvaluateBatched` decodes the shared prefix for all
sequences and all remainders in one list; `FallBack` goes over to the plain
context when the cells do not fit.

### WorkerBundle, WorkerInstall

What was built is told by the tree it was built from, a hash is what it
hashes, a file is told from another by the asset it came from. An action is one
program run or one file operation, so that two builds of one output, `pack()`,
a fetch and a start interleave file by file. The `patch` program and the hash of
its file are two (`RunPatch`, `HashPatch`), and a name of a commit is resolved
where the code does (`Resolve`, `Export`); `raced` records what changed between
two such readings. There are two kinds of
bundle, one for each worker; a release publishes both, a fetch installs either,
and either backend may be pointed at what is there (`Accepts`). `WorkerBundle` lets the
upstream tag move, the patch file be edited and a finished base be altered;
`WorkerInstall` lets downloads be torn, members be missing, the disk be full and
a fetcher be interrupted. A start reads the manifest and hashes the executable,
the runtime and the model against it; then it executes what is at that path
(`Execute`), and the worker loads the libraries that are beside it
(`LoadLibraries`). The code looks at nothing again in between, and neither does
the model: `seen` is what was verified, `process` what runs.

## 3. What is checked

| Run | Instance | What it shows |
|---|---|---|
| `store` | three snapshots, blobs of 2 and 1, a budget of 6, `context` boundary, every failure and crash except a kill inside `_remove_tree` | the registry, the worker and the directory agree; the budget is exact; nothing is taken from a client |
| `service` | two snapshots, a budget of 4, every kind of request, recovery, crashes | the service uses its store properly, leaves nothing behind, ends every request and replaces a lost worker |
| `service_followups` | three snapshots, chains and up to two saved children | inference finds its parent; failures are undone |
| `transport` | two tasks, two workers, two commands | answers, effects, workers and calls end where they should; the transport implements the channel |
| `worker` | two ids, two tokens, prompts of two and three tokens that extend one state differently, contexts of 5 cells, decodes of 2, two questions, rides of 2, one file, and one file of a worker with decodes of 1; slices of at most two rows | the contexts hold what is taken to be resident; every cell is the one the tokens determine; the backend believes every answer; the worker is stateless; commands end |
| `prompts` | four snapshots, states and prompts that end in or are newlines, three templates, four merges | every prompt is the rendering of its history, extends what was frozen, and can be replaced |
| `v1` | two requests, bodies within and beyond the limit | answers are own, failures stop the inference, the contract is kept, nothing hangs |
| `labels` | five prompts that share some, all or none of a prefix, up to three questions, decodes of 2, contexts of 4 and 5 cells, both kinds of worker, prompts of two and three options | answers do not depend on siblings; the application believes and maps every answer; cells are counted; requests are answered |
| `install` | three assets (a worker's, a snapshot worker's, one without its executable; one of them attested), one fetcher again and again, starts of either worker at any time | what is reported installed is whole, what is refused left nothing, a worker that runs is the one bundle that was verified, of the kind that starts |
| `bundle` | two builders of one output, two commits, a tag that moves, a patch edited once, at any time, an altered base | manifests and archives vouch for what is beside them, and say truly what it was built from |
| `crash_in_unlink`, `stale_store` | as `store` and `service`, with the kill or the failure | the two findings below |

Bounds, and why they are enough. Of the registry, ids are the only unbounded
domain: two give a pair, a parent with a child, and an eviction of one by the
other; three give a chain (a context, its promotion, a question on it) and two
children of one parent, which is as deep as references go, since a child's
context parent has none of its own. The budget holds a pair and a little more,
so that eviction, reloading at a larger size, and refusal all happen. Leases,
references and bytes are limited by the ids. The `store` run captures at the
`context` boundary only; both boundaries are in the service's runs. Of the
transport, two tasks are the fewest that can get in each other's way, with two
commands one can be late for the other, with two workers one can be taken for
the other, and a pipe of the worker in use never holds more than one line
(`Pipes`, proved). In the worker, three tokens are more than one decode of
two, so that a prefix ends inside a decode, at its end and beyond it; contexts
of 5 refuse some branches and some rides; the prompts `ab` and `aab` give
siblings that differ over one parent, and parents of one length that differ; two ids let a snapshot be dropped
while resident and its id come back from a file. `MaxAsks`, `MaxRide` and
`MaxFiles` bound repetition: a second question, token or file meets whatever
the first left. `MaxRecords` of `SnapshotPrompts` is four: a context, its
promotion, a saved child of it and a child of that. In `labels`, three questions
are the fewest where the second differs from both neighbours. One v1 request
after another shows what the first leaves in the pipes; two at once are the
gate.

Properties, beside those that the tables name. `RegistryConsistent` is typing,
`ParentsRegistered`, `RefcountsExact` and `LeasesExact`; `RegistryMatchesWorker`
is `ResidentIsHeld` and its converse `NothingLeaks`; `BudgetIsExact` says the
charge is what the worker keeps and within the budget; `CallHolds` that what a
store method checked before an await holds after it; `NothingIsTakenAway` that
no step takes a leased snapshot from memory, or a published one from the disk
before its TTL or its owner's delete. `ResidentIsHeld` and the charge say
nothing of a record whose TTL has run out: the rollback of an expired row drops
it in the worker and leaves the record to the next `expire()`. `LockProtects` is
that between two calls nothing is in the pipes of a ready worker, that the
worker checked before the lock is there under it, and that reaping one worker
leaves the stderr task of the next alone.

Deadlock. `CHECK_DEADLOCK FALSE` is set where the system really stops: the v1
runs when the application has shut down or the worker process died, the bundle
runs when every build and fetch is over, the prompt run when it has its records.

Fairness. Every await of a store call or a handler has a timeout
(`_request`'s deadline, `startup_timeout`), so a step that is due is taken:
weak fairness of `StoreStep`, and of `ServiceStep` (the store's steps and the
handler's). Nothing obliges a client to call, a TTL to run out or a worker to
die. `WorkerRecovers` needs more, and says so in `RecoverySpec`: /health is
polled and the loop runs what it schedules (weak fairness of
`ScheduleRecovery`, `RunRecovery`), the backoff passes (`BackoffEnds`), and a
restart tried again and again succeeds at last (strong fairness of `Restart`,
an assumption about the environment, not about this code). In the transport and
in `DecisionService` a task's step is taken when it is due (every await has a
timeout or waits for a killed process), a killed process dies, and a worker
that waits for input sees its end. Nothing makes a worker answer, say hello or
finish a command: `CallsEnd` and `NothingHangs` hold though it hangs for ever.
In `SnapshotWorker` and `LabelWorker` the process runs the command it took
(their loops have no other wait), until it answers or dies.

### Findings

* `stale_store`: `recover()` restarts the worker and then builds the store;
  if reading the index fails, the backend is ready beside the old registry,
  whose records point at a dead process, and no request recovers again.
* `crash_in_unlink`: a published directory is removed file by file; a kill in
  between leaves one without a manifest, and the next start refuses the index.

Met while modelling, and described here rather than checked:

* The 18 of a disk pair is published before the 30 is saved
  (`service.py:324`). If the worker is lost then, the rollback cannot drop it
  and its directory stays until its TTL; after a restart it is a snapshot no
  client was told of.
* Registering a later saved child can evict an earlier one of the same
  decision before the reply that names both is sent (`service.py:523`): no
  lease protects a registered child, so a reply may name an id that is gone.
* `errors.py` says the worker is reaped when it fails after inference began;
  `_request` keeps it after `execution_error`, as the contract of
  `snapshots/backend.py` says, and the worker clears its contexts.
* A `state_eval` whose export of vectors fails has already published the
  children of its questions; the reply lists them as an error's, and the
  service drops them.
* `store.py:361`: when `_remove_tree` raises an OS error, the worker has
  dropped the snapshot and the record stays resident. The models take removal
  to succeed or to be cut by a kill, so `RegistryMatchesWorker` says nothing of
  that path.
* Two fetchers into one output both pass `exists()` (`fetch.py:185`); the one
  that fails removes what the other reported. `FetchIsAllOrNothing`
  holds for one fetcher, and an interrupted install (a kill
  between two files) leaves a directory that the next fetch refuses. The start of
  a worker executes what it hashed earlier (`native_backend.py:207`), so with two
  fetchers it may run a file of another asset than it verified;
  `RunsWhatWasVerified`, too, is stated, checked and proved of one fetcher.
* `apply_patches()` runs the patch program on a file
  (`build_base_runtime.py:177-189`) and reads the file again for its digest
  (`:190`). If it is edited in between, the manifest names the new version and
  the tree has the old one, and a snapshot build accepts that base, although
  `snapshots/build.py` says of it that "its manifest records the patch by sha256
  and this build refuses any other base". `ProvenanceIsTrue` excepts this race
  (`"patch" \in base.raced`); without the exception TLC finds it violated.
* With `--llama-source` the ref is resolved to a commit (`:333`), and
  `git archive` (`:338`) resolves it again. If the clone's tag moves in between,
  the headers are those of another commit than the manifest's, and a bundle may
  be called tested that is not. `ProvenanceIsTrue` excepts this race
  (`"tag" \in base.raced`), and is violated without the exception. A fetched
  revision is a commit by then, and cannot move.
* Two builds of one output leave their cmake trees to each other: the executable
  a finished bundle ships may have been linked by a build of the same kind that
  failed later. The manifest still hashes what is there (`BundleVouches`);
  `LinkedAsShipped` therefore speaks of a build alone in its output.

## 4. What is proved

All theorems assume only what is declared with the constants (finitely many
ids, positive sizes, `None` is no id, boundaries among the code's, saved files
of another configuration have another batch size).

| Theorem | States | For every |
|---|---|---|
| `StoreInvariantHolds` | `IInv` | set of ids, sizes, budget; a kill inside `_remove_tree` included |
| `RegistryStaysConsistent`, `DirectoriesAreTheRecords`, `CallsHoldWhatTheyChecked` | `RegistryConsistent`, `DirectoriesAreRecords`, `CallHolds` | the same |
| `WorkerInvariantHolds`, `RegistryMatchesTheWorker` | `WorkerInv`, `RegistryMatchesWorker` | the same |
| `PromiseInvariantHolds`, `BudgetIsAlwaysExact` | `PromiseInv`, `BudgetIsExact` | the same |
| `NothingIsEverTakenAway` | `NothingIsTakenAway` | the same |
| `DirectoryIsAlwaysRestorable` | `DirectoryIsRestorable` | the same, kills inside `_remove_tree` excepted |
| `ServiceInvariantHolds` | `AllInv` of the proof module | set of requests, ids, sizes and budget, when the index can be read at a restart (`IndexFaults = FALSE`) |
| `ServiceUsesStoreProperly`, `RegistryHoldsUnderService`, `ServiceTakesNothingAway` | `UsesStoreProperly`, the registry's properties, `NothingIsTakenAway` | the same |
| `HandlersAlwaysLeaveNothing`, `InferenceAlwaysFindsParent`, `FailureIsAlwaysUndone` | `HandlersLeaveNothing`, `InferenceFindsParent`, `FailureIsUndone` | the same |
| `TransportInvariantHolds`, `LockAlwaysProtects`, `NoWorkerIsOrphaned` | `TransportInv`, `LockProtects`, `OneWorker` | number of tasks, workers and commands |
| `EffectsAreAwaited`, `TransportImplementsChannel` | `NoLateEffect`, `ImplementsChannel` | the same |
| `DecisionInvariantHolds`, `OneAnswerEach`, `FailuresStopInference` | `IInv` of the proof module, `AnswersAreOwn`, `FailureStopsInference` | number of requests and body limit |
| `ContractIsKept` | `KeepsContract` | the same |
| `SnapshotWorkerInvariantHolds`, `ContextsAlwaysSound`, `ValuesAlwaysExact` | `WInv`, `ContextsAreSound`, `ValuesAreExact` | vocabulary, set of prompts, context size, batch size, number of questions and of tokens of a ride |
| `WorkerIsStateless` | `IsStateless` | the same |
| `RepliesAlwaysBelieved` | `RepliesAreBelieved` | the same, and every number of labels, width, bound on a slice |
| `LabelInvariantHolds`, `AnswersAlwaysAlone`, `AnswersAlwaysTheirOwn`, `CellsAlwaysCounted` | `LabelInv` of the proof module, `AnswersAreAlone`, `AnswersAreTheirOwn`, `CellsAreCounted` | set of prompts, sizes of the contexts, of a decode and of a request, both modes |
| `ResponsesAlwaysTrue` | `ResponsesAreTrue` | the same, and every alphabet, number of options of a prompt and logit function |
| `PromptsInvariantHolds`, `PromptsAlwaysHistories`, `ContextBranchesAlwaysExtend`, `QuestionsAlwaysReplaceable` | `PromptsInv` of the proof module, `PromptsAreHistories`, `ContextBranchesExtend`, `QuestionsCanBeReplaced` | set of states, questions and prompts, template, set of merged pairs and number of snapshots |
| `BundlesVouch`, `ProvenanceHolds` | `BundleVouches`, `ProvenanceIsTrue` | number of commits and builds |
| `ShippedAsLinked` | `LinkedAsShipped` | the same, with one build in its output |
| `RunsOneBundle` | `RunsWhatWasVerified` | release (its assets, their kinds and what they lack), with one fetcher (an assumption of the theorem) |
| `FetchAloneIsAllOrNothing` | `FetchIsAllOrNothing` | release, with one fetcher (an assumption of the theorem) |

**The registry** (`SnapshotStoreProofs`). None of the properties is inductive
alone. `Unlink` forgets a record several steps after `ReclaimDisk` or
`CallDelete` found it unreferenced and unleased, with the worker awaited in
between; `InsertRow` adds references to parents checked two expiry and eviction
loops earlier. `CallHolds` records what must survive those awaits: the victim
is still loose, the parents still pinned, the id still free. It survives
because only a record without leases and references is ever forgotten, and
because leases are exact: a record with no lease is pinned neither by the
caller nor by the call. `RefcountsExact` in turn makes "no references" mean
that nobody refers to it, so that forgetting it breaks no `ParentsRegistered`.
`DurableIsDisk` is needed to see that an evicted memory snapshot has no
directory. There is one lemma per operation on a set of records
(`PinEffect`, `UnpinEffect`, `ForgetEffect`, `InsertEffect`), one per kind of
step, one per action (`XInv`), and `NextInv` puts them together.

**The registry and the worker** (`SnapshotStoreProofs`). `RegistryMatchesWorker`
speaks of what is resident and can still be asked for; it is not inductive
because a snapshot that nobody can ask for may be asked for again when
something comes to refer to it or to lease it. `Wanted` closes that gap: it has
not expired, or something refers to it, or a lease taken in time pins it. No
step makes a snapshot wanted again: a lease is taken on what is gettable and
on its ancestors, which something refers to (`AncestorWanted`), and a new
record refers only to what its registration has leased. `PendingIsNew`
says that what a reply published is not registered yet, except the row being
saved. Then `HeldIsKnown` relates the two sides, with the victim of a removal
in neither. One lemma per action (`XW`) and one per kind of step (`QuietW`,
`PinW`, `ForgetW`, `MoveW`, `LostW`).

**What the store promises of a step** (`SnapshotStoreProofs`). That a leased
snapshot stays in memory and a published one on disk (`NothingIsTakenAway`) is
about steps, and follows from the same invariant: what a step forgets or evicts
is unleased (`CallHolds`), and a removed directory is that of the snapshot whose
removal began, which was expired or is being deleted by its client. `Removing`
is the one addition: while a removal runs, the manifest of its directory is
already gone, so the step that ends it takes nothing away.

The budget, the directory and the promotion memo need `PromiseInv`.
`LedgerInv` splits the charge into what it consists of: the upper K/V of each
30 and the lower K/V of each snapshot that owns one, so that the sums the code
keeps become two cardinalities. A 30 that owns none shares that of its parent,
an 18 in memory (`Shares`); this is what the sibling check in `_evict_one` is
for, and why a reload, which brings a blob of its own, is charged more than the
registration was. `PendingInv` says the same of the rows a reply brought and
nobody registered yet, whose 18 may be in the same reply. `HeldMatches` ties
both to the worker's blobs. `DirectoryInv` says that parents are kept where
their children are and that a manifest says what its record says, so that no
order of expiry, eviction and kill leaves a child directory without its
parent's. The one exception is the kill inside `_remove_tree` (section 3), which
`DirectoryIsAlwaysRestorable` therefore excludes by `CrashInUnlink = FALSE`.
`MemoInv` says that what a promotion is remembered as is a 30.

**The service** (`SnapshotServiceProofs`). `ServiceInv` says, for each step of a
handler, what it may rely on and what it still owes:

* `Steering` and `Waiting`: which request a step serves and which store call it
  waits for, so that a call never returns to the wrong handler.
* `UnderLease`: while it restores and infers, its subject stays registered and
  the ids it has allotted are nobody's. It is what makes `InferenceFindsParent`
  hold across the awaits; `BranchesFrom30` adds that what is branched from is a
  30, also when it came from the memo.
* `InOrder`, `OnlyLastRefers`, `RowWaits`, `AtRow`: the rows of a reply are
  registered in order, those not reached are pending and unknown to the
  registry, and among the allotted ids only the last can refer to another. So a
  rollback, which goes from the last id to the first, never meets a referenced
  record, and `store.delete` never refuses it.
* `Unwinding`: what has been undone is `Gone`: not held by the worker, and if
  the registry still has a record, it has expired and nobody can get it. This
  is the state after the TTL of a row ran out before its rollback.
* `NothingOpen`: before a lease is taken and after it is closed nothing is open
  and nothing is pending, which is `HandlersLeaveNothing` once the request ends.
* `LostHoldsNothing`: a worker that is lost holds nothing, so a handler that
  lost it owes nothing.

The proof has one lemma per step of a handler and one per step of the store
while a handler waits for it. Each step is then a step of `StoreClient`, which
gives the refinement and carries `IInv`, `WorkerInv` and `PromiseInv` over. The
assumption `IndexFaults = FALSE` is the case the finding on `recover()` is
about: when the index cannot be read after a restart the old store stays in
use, and the run `stale_store` shows the registry disagreeing with the worker.

**The transport** (`WorkerTransportProofs`).
`TaskPlaces` says what the flags are at each await of the one task in the
backend; `Pipes` says what the pipes of the worker in use can then hold: a
hello, nothing, or one command in one of three places (unread, being handled,
answered). An answer can be trusted because the invariant leaves no other line
to be read. `LetGo` is needed for workers the backend forgot: they were killed,
or are idle and see the end of their input, so none is in the middle of a
command that could still take effect. `AppliedForSomebody` is needed for the
refinement: a new command is one the worker has not applied. Each action is
then one step of the channel or a stutter.

**The decision service** (`DecisionServiceProofs`). The invariant says, for
each phase of the lifespan, what the flags and the pipes are (`Phases`), and
that while the backend is up and serving, what is in the pipes or in the
worker is one request, the one that waits (`InTransit`). `Halted` follows
a worker from the moment it was let go: it was killed, or is idle with its
input closed, so nothing it computes later can matter. `Outcomes` ties the
status of a request to whether it was computed. With these, every action is a
step of `DecisionContract` or a stutter.

**The snapshot worker** (`SnapshotWorkerProofs`). `ValuesAreExact` looks at
snapshots and readouts only, and is kept because of what the contexts hold:

* `SnapshotsInv`: the shape of a snapshot and its exactness, for files too. An
  18 keeps its boundary rows and was run in one piece, so its promotion computes
  what its 30 would have had.
* `ContextsInv`: what is resident begins what the contexts hold, and the upper
  context is behind the lower one only before the first branch. A ride is the
  only thing that runs past the resident; what remains of it is trimmed.
* `CommandInv`: the questions a command still has passed the preflight and
  still would, although its earlier children are published; a ride has room for
  what is left, and the contexts of its mode hold the cells of its tokens so far.

The cells a prompt should have are a recursion over its pieces
(`CellsOf`, `SplitCells`). `Induction` gets what is needed of it from finite sets
alone (the least element of a set of naturals): the run of a longer list of
pieces agrees with the shorter (`RunOf`), so one more piece is one more decode,
in either graph (`CellsOfMore`, `SplitMore`). `Onward` says that going on from a
snapshot is that one more piece, and `FromBlobs` that what is resident
need not be restored: the context `make_resident` trims is the blob it would
have copied. Then there is one lemma per action. For the refinement, the
questions a command has still to answer are `asked` and what a ride has in the
contexts is the scratch of `SnapshotSemantics`. Each step is the abstract action
of the same command, or a stutter; the answer of a question, in particular, is
that of the abstract `Branch`, which reads its parent's blobs and nothing else.
`RepliesAreBelieved` needs no more than `WInv`: `Shape` makes every row valid
(`RowIsValid`), and the preflight, which a command under way still passes
(`Branching`), leaves a suffix of at least one token (`AccountingIsValid`).

**The v1 worker** (`LabelWorkerProofs`). An answer is alone because of what the
context begins with: `CachedInv` says that its first cells are those of the
cached prefix, run in decodes of their own, so that a question which reuses the
prefix attends to the cells it would have made again. The prefix is taken only
by a question that begins with it (`Reuses`), and is empty in a worker that has
batched so far. For a batch, `BatchIs` says what cell each token of each
question takes: the shared prefix first, then one remainder after the other
(`Lists`, `Within`). A question then attends to a part it is in, skips one it
is not in, and so on (`Kept`, `Skipped`); the four parts add up to its prompt
(`BatchedAnswer`), and the lengths of all of them to the cells and to the work
reported (`BatchSums`). What is recursive here (the list of remainders, the
choice of the attended cells, the sum of the work) is a recursive function over
a range of numbers: that it exists, and what it is at each number, is shown
with `Induction`, which is proved of sets of numbers from the pigeonhole
principle. `CellsFit` holds of a fallback because a context for a batch is at
least as large as one for a prompt (`SizesAssumption`, `worker.cpp:134`).
`ResponsesAreTrue` needs a second invariant, `ReportsInv`: what is reported of
each question, and that nothing is cached before the first of a request has been
evaluated, so that its answer reuses nothing, as the mapping demands. Counts
then add up to the prompt, all results have one mode, and a response is a
function of cells that are those its question gets alone.

**The prompts** (`SnapshotPromptsProofs`). `PromptIsTheHistory` speaks of the last
prompt; what makes it inductive is that each record is a function of its
logical history (`IsRecord`): its messages, its prefix, and what it froze. A
promotion copies the record of the same history (`IsPromotion`), so `_plan()` may
branch from whichever 30 `_ensure_30()` finds or makes (`IsEnsured`). Then a
branch of a context is one message (`ContextMore`), one of a readout two more
(`MessagesMore`), and `RenderOf` is the prompt. `ContextBranchesExtend` is about
the tokenizer: the text up to where the state ends begins every prompt of the
state, trimmed or not (`PromptBegins`); texts of which one begins the other have
the same tokens but for the last of the shorter (`TokensAgree`, by induction from
the end of the text), because a merge looks one word ahead. So the tokens
`context_prefix()` keeps, all that is common but the last of the head, begin the
tokens of every branch, and one more token remains to be decoded
(`FrozenBegins`). A tokenizer that looks further ahead than two neighbours is
outside the model, and outside the proof. `IsAnchored` follows the anchor from
the child of a context to whatever is asked of that child.

**The install** (`WorkerBundleProofs`). `FetchInv` says what one fetcher has
done to the directory at each of its steps. That a worker runs what was verified
does not follow from the hashes, which are compared before the model is hashed
and the worker executed, but from what a fetch may still do then. `DirectoryInv`:
the libraries are the last member of an archive, so where they are those of an
asset that lacks nothing all its files are in place, the fetch that wrote them
can only report them, and a later one refuses a directory that exists.
`StartInv`: from the hash of the libraries on they are those of the verified
asset, which has its manifest and its executable (both were hashed), so what is
executed and loaded later is of that asset. With a second fetcher, which may be
past its own check of `exists()`, `DirectoryInv` is false, and so is the property.

**The builds** (`WorkerBundleProofs`), for any number of commits and of builds
into one output. `BaseSteps` says what the directory of the base holds at each
step, `BuildReads` that a build goes by the one manifest of the base, and
`BuildWrote` that what it put into the output is still there. The key is
`OneStaged`: `copytree()` refuses an existing directory, so one build gets past
the staging, and everything that is written from there on is its own; the
others can still write scratch files, which are read by nobody any more.
`BaseSteps` also relates the patches in the tree to the versions that were
hashed, and the commit of the tree to that of the manifest: they are the same
unless `raced` says that a file or a name changed between its two readings, which
is all that `ProvenanceIsTrue` excepts. That a snapshot bundle has some version of
the layer-range patch, and no other patch, needs no exception.
`PackReads` carries this over to an archive. `LinksShipped` is for a build
alone: the base can only be altered for good, so what passes the hash of the
staging is what was linked before.

Only model-checked: every liveness property (`RequestsEnd`, `WorkerRecovers`,
`CallsEnd`, `ForgottenWorkersEnd`, `CommandsEnd` and those of the decision service and
of the v1 worker), which TLAPS does not reach. Every safety property of a passing run
is a theorem.

## 5. Not modelled

* The schemas of requests, the CLI, the snapshot mapper and the probabilities
  of `mapping.py` and `semif.py`: declarative validation, argument parsing and
  floating-point arithmetic over logits, with no state. Where it matters that
  they fail, the handlers that call them fail.
* Tensors, graphs, logits, the chat template and the tokenizer: outside this
  repository, or numbers. The models keep which cells an answer is computed
  from, and take the template and the tokenizer as parameters.
* Inside the worker: option parsing and the file layout of a saved snapshot
  (a file is what it holds and the batch size it was made with; a file whose
  checksum fails is refused). Vectors are read without changing state.
* Routes that only read (`/v1/models`, capabilities, the text of /health).
* Of the bundles: the choice of a flavor, the lookup of a release and the
  download of CUDA redistributables, which decide what is fetched and not how it
  is installed.
* Research scripts, benchmarks, the probe `so1_probe.cpp`, the competitor
  suites: experiments beside the service.
