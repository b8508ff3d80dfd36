# Formal model of drowse

TLA+ modules, TLC configurations and TLAPS proofs for
[drowse](../src/README.md): a steering and measurement engine around one
loaded language model, with a Python API, a server with three protocols and a
dashboard. Paths below are relative to `src/drowse/` unless they begin with
`webui/`, which is `src/webui/src/`.

The verification is about what the tests of such a program can hardly reach:
who may be on the device, what a failure or a crash leaves behind, what two
threads or two processes do to one tree or one folder, what a socket does when
its client leaves, which of several cached things is stale. Tensor arithmetic,
wording and layout are left out.

1. The system · 2. The modules · 3. The runs · 4. The proofs · 5. Bounds and
fairness · 6. Where code and documentation disagree · 7. Hazards without a
property · 8. What is not modelled · 9. What could come next

## 1. The system

`DrowseSession` owns one model. Everything that forwards, backwards or rebuilds
hooks is meant to hold one re-entrant lock (`_gen_lock`). On top of it sit the
generation transaction with its phase, the stack of steering scopes whose
composed plan the layer hooks apply, and the conversation tree that a stateful
generation streams into. The server adds a FIFO request lock, one WebSocket
handler per connection with a worker thread per generation, and long operations
with receipts. Artifacts (manifolds, templates, lenses, SAEs) are folders that
several processes fit, author, install and remove. The dashboard is one page of
many, with a mirror of the tree, a queue of turns and a browser store.

| Part | State it keeps | What is hard | Correct when |
|---|---|---|---|
| Generation engine `session/engine.py` | phase, transaction, worker streams | calls from callbacks, stop and close at any time, an error in any step of set-up or teardown | one generation at a time; whatever it acquired is released; it ends; a stop is prompt |
| Session facade `session/session.py` | the exclusive lock | re-entrancy, threads that check and then act | the device has one user |
| Steering composer `steering/composer.py`, hooks `steering/hooks.py` | scope stack, roles, plan and its caches, feet | rebuilds that raise, scopes left out of order or mid-decode, caches that outlive a registration | what is installed is what the scopes say, and never moves under a decode; fits run unsteered |
| Steering language `steering/grammar.py` | none | a receipt is text that is read again, later, elsewhere | it means the same, and its inversion the opposite |
| Decode loop `generation/decode.py` | thinking state, buffered text, budget | delimiters, stop strings and UTF-8 that straddle tokens | the text is the response, whatever the segmentation |
| Read plane `generation/read_plane.py`, `readout/` | capture plan, buffers, digests | consumers, gates and retention share buffers written in place | each reading is of its own forward |
| Fans, batches, sweeps `session/batch.py`, caches `generation/prefix_cache.py`, `compile_runtime.py` | a series, lent cache entries | a stop or a raise between rows, one entry lent to many | rows do not leak into each other |
| Loom tree `loom/tree.py`, `loom/ops.py` | nodes, active node, revision, reservation | edits around a streaming node, restore of old documents | the tree is valid; a reply hangs under what it was prompted with |
| Recipes, transcripts `loom/recipe.py`, `loom/transcript.py` | receipts on nodes | tiers of defaults, casts, modifiers, imports in three modes | a turn is reproduced as recorded |
| Server streaming `server/ws_stream.py` | buffers, request, worker, forwarder | disconnects, full queues, stops that race the last token, two tasks writing one socket | requests end, workers run under the session lock, done follows its tree frame |
| Long operations `server/operations.py`, `runtime.py` | request lock, ledger of receipts | repeats, lost answers, clients that leave, shutdown | each request runs once and its receipt is true |
| Artifact store, fits `store/`, `fit/`, `base/` | folders, pairs, proofs, locks, caches | crashes between moves, authoring that changes under a fit | a reader sees one whole artifact of one identity |
| Distribution `store/install.py`, `archive.py`, `hub.py` | a home, archives, a Hub | a template shared between manifolds, damage, crashes | what arrives is what was sent; nobody's template is replaced |
| Registry `session/registry.py` | loaded fits, directions, probes, copies | the folder is replaced while they are in use | what is held is current |
| Lens and SAE `lens/`, `sae/` | sources, checkpoints, the resident lens and dictionary | interruption and power loss; swaps during a run | no prompt counted twice; one lens and one dictionary everywhere |
| Dashboard `webui/lib/` | mirror, queue of turns, stored sessions, saved chats | frames and fetches are unordered; two pages, one store | the mirror equals the tree, the slot is single, work is never overwritten by older work |

**How they interact.** A socket's worker thread calls `session.generate`; the
engine takes the lock, composes the call from its recipe tiers, resolves it
against the tree, opens its scope and its turn, binds what is to be read, decodes
under the installed plan and calls back per token; the callback queues a frame.
Each mutation of the tree emits an event whose frame the connection's forwarder
sends and the dashboard's mirror applies. Other threads meanwhile edit the tree
(its own lock and the reservation are all that orders them), push and pop scopes,
start fits and ask for stops. A fit snapshots a folder, captures under the lock,
and publishes by compare-and-swap under the folder's lock; the registry then
replaces what the session holds of it.

`PROJECT.json` lists all components with how far each is modelled, and every
hazard at its line.

## 2. The modules

```
ModelAccess       abstract: who uses the model       <- DrowseSession implements it
DrowseSession     lock, transaction, scopes, streams
SessionSocket     WebSocket connections over a generation's effect on them  <- MCSocket
LoomTreeOps       the tree's operators, frames, the mirror   <- LoomTree <- MCLoomTree
ServerOperations  operations, preparations, ledger, shutdown   \ MCOperations
LensEstimator     the estimator of a lens fit                  /
ManifoldStore     manifold folders on disk                     \ MCArtifacts
LensFit           one lens on disk and resident                /
SaeInstrument, LensInstrument, ReadPlane                       MCInstruments
BatchRuns, SteeringHooks, DecodeLoop, SteeringGrammar          MCGeneration (with DrowseSession)
FitCapture, ArtifactRegistry, Distribution                     MCFits
DashboardQueue, -Mirror, -Sessions, -Library, LoomRecipes      MCDashboard
```

An MC module that names several components runs them beside each other: the
constant-in-time variable `part` says which one a behaviour is of, the others
stay in an initial state. A run so bundled is the union of separate runs; no
state of one component is multiplied with another's. What the MC modules
restrict besides (initial states that are alike, inputs that are tried) is said
at their definitions and in section 5.

### DrowseSession, ModelAccess

A thread is a caller or the worker of a stream; `pc` says where in a call it
is. One action is one stretch of code between two points where another
thread can run or an exception can leave:

| Code | Action |
|---|---|
| `SteeringScope.__enter__`, `push` | `PushCall` (the phase check), `PushAcquire` (blocking lock, append of frame and role), `PushDone` or `PushFail` (the rebuild and its `except`) |
| `SteeringScope.close`, `pop` | `PopCall`, `PopAcquire`, `PopDone(ok)` (a rebuild that raises turns all steering off) |
| `transaction()` | `Generate` or `WorkerStarts`, and `EndTransaction` |
| `generate_one` | `Resolve`, `StartLoomTurn`, `PushAcquire` at `enter`, `Prepare` (which resets the stop flag), `BeginReads`, the loop `StopCheck`, `Forward`, `Callback`, then `Teardown`, `Finalize` |
| `_WorkerStream` | `StartStream`, `CloseStream` (cancel), `JoinStream` |
| `_model_exclusive`, extraction and fits | `ModelOp`, `Fit`, `EndExclusive` |
| `cache_prefix` | `CachePrefix` (checks), `StartPrefill`, `EndPrefill`, none of which takes the lock |
| `joint_logprobs` | `JointLogprobs`, `EndReplay`: forwards outside the lock |

Each step that can raise has a failing alternative. `held` is what a generation
has acquired (reservation, instrument runs, capture hooks). `refused`, `asked`
and `late` only record history. A callback makes at most one call.
`ModelAccess` is the abstract promise: a user takes the free model, uses it,
and leaves; the refinement maps the lock's owner to the user.

### LoomTreeOps, LoomTree, LoomRecipes

`LoomTreeOps` holds the data: a tree is its nodes, their ordered children, root,
active node and revision; `ValidTree` is the loader's validation; `Frame` is what
the server sends for a mutation and `Applied` what the dashboard does with it.
`LoomTree` has one action per mutator (atomic under the tree's lock) and the steps
of one generation on the tree, between which other callers' actions run:
resolve, check the target, open the turn, reserve, begin, render, decode, finalize,
release. A text is a sequence of words; the past of a prompt is the branch it was
rendered from. Node ids are never reused, as ULIDs are not. Rewind is a
navigation; star, note, cast and captured prompt rows are one action (a revision
and a frame); labels, thinking text and token rows are left out.

`LoomRecipes` is what a generation runs under: the tiers of `compose_call`, the
seed schedule, modifiers, casts, the receipt, and what fork, fan, comparison,
prefill, export, import and replay make of it. What the model says is a function of the
conditions it speaks under, so two texts are equal exactly when their conditions are.
Edits, removals and continuations are LoomTree's; thinking of past turns, token
budgets, probe notes and `strict` are left out; YAML, diffs and filters too.

### SessionSocket, ServerOperations

`SessionSocket`: per connection the inbound buffer (`inbox`, with the one control
slot), the outer loop and request handler (`req`), the worker thread of the current
sibling (`work`), its token queue, the tree frames to forward, and the finalize
frames last forwarded (`landed`, a bounded deque). `lock` and `waiters` are the
server's FIFO session lock. A generation is its effect on the socket: a node it
opens, a frame per token, a node it finalizes or an error. A failing send is a dropped
connection. `Navigate` is any other client's call that makes another node active, which takes no session
lock: before the first token it makes the reply name that node (`build_token_event`), and the handler then waits
for a finalize frame that need not come (`Stranded`; divergence 20). A message continued in place, whose
finalize frame may have been sent once before, is not modelled.

`ServerOperations`: HTTP operations (JSON and streamed), generations of the socket and
lens preparations as they wait for the lock, start, run in a thread, end, or are
left; the ledger that admits, records, evicts and forgets receipts within a count and a
payload budget; lock timeouts; and the shutdown that withdraws what is queued and joins
what has begun. An answer that cannot be encoded leaves its receipt running (`AnswerFails`); a send of the socket that
fails otherwise than by a disconnect ends the request as failed when its client could be told and as interrupted
when it could not, though the generation ran (`SendFails`). A stream without an encodable answer stays open until its client leaves.

### Generation: SteeringHooks, DecodeLoop, ReadPlane, BatchRuns, SteeringGrammar

`SteeringHooks` follows scopes through flattening, projection, the plan cache,
rebuild, hooks or compiled offsets and the triggers of each forward; directions and
gains are values carrying the versions they were computed from. Affine and curved
spans are not orthogonalised. `DecodeLoop` is the
thinking state machine over five families of delimiters, stop strings and partial UTF-8.
`ReadPlane` numbers forwards; a reading is the set of <<layer, forward>> it was
computed from. `BatchRuns` runs fans, batches and sweeps row by row over the prefix
cache and the static cache; a KV cache is the sequence of tokens it holds. A row may raise at any token; one on a lent
prefix leaves in the entry what it fed (`entry.left`), and the next row to end on it rolls all of it back.
`SteeringGrammar` is the parser, the resolution of names, the folding of terms and
the printer; a text is its lexemes, and gluing of lexemes is not modelled.

### Artifacts: ManifoldStore, LensFit, LensEstimator, FitCapture, ArtifactRegistry, Distribution

`ManifoldStore` is manifold folders with every writer's locks, the staged replacement and
its recovery, and the death of a process at each step; a merge reads one folder and writes another. `LensFit` is the lens folder
(pointers, shards, checkpoints, collection) and the resident lens through fits,
resumption, removal, crashes and power loss; `LensEstimator` its inner loops and
back-off, with a record of what two failures tear (`torn`). `FitCapture` is a fit from request to publication: preflight, capture cache
with pruning, pooled capture with batch halving, neutral baseline and whiteners that fail, reuse; the numerical
result is a value of the inputs (`ComputedFrom`), and the folder transaction is one step.
`ArtifactRegistry` is what a session holds of the disk. A request that changes a folder is one step where the code does
all of it in one exclusive section (fits, bakes) and two where it does not: a removal evicts and then removes, a rewrite writes and then
evicts or fails to, an extraction publishes and then registers, an attachment extracts and then folds. Between the two steps `route` keeps
the session lock, which probes, registrations and polls do not take. Callers without a server
take one exclusive section per call. Failed folds, `put_manifold`, transfers, clearing and fits by other processes are left out.
`Distribution` carries manifolds with their template through archive, Hub and
folder copies; byte limits, paths, Hub search and cards are left out.

### Instruments: SaeInstrument, LensInstrument

The resident SAE under loads, trainings, restarts and fetched metadata that
answers late; the resident lens under replacement on disk, probes, live switch, pinned
generations and transported stacks. A feature id means something only in one dictionary.

### Dashboard

`DashboardQueue`: the one generation slot (reservation, `genStatus`, queue,
comparisons, agents). `DashboardMirror`: deltas, snapshots, refetches, reconnection
and the two barriers. `DashboardSessions`: `BrowserSessionPersistence`, which no
file of this repository imports (it serves a hosted runtime). `DashboardLibrary`:
saved chats and autosave over several pages of one server, which hear of its tree one by one, and the save
button, which waits for no flush that fails and overwrites what is there.

## 3. The runs

| Run | Configuration | Properties | Shows |
|---|---|---|---|
| `session_locked` | DrowseSession, 2 callers | `SteeringFollowsStack` `IdleMeansReleased` `FitsRunUnsteered` `ImplementsModelAccess` `SteeringStableInDecode` | for all calls that take the lock, with every failure: one device user, installed is the stack's plan, roles follow frames, idle means released, fits are unsteered, a decode's steering never moves |
| `session_stream` | DrowseSession, a caller and a worker, fair | `StopIsPrompt` `CallsReturn` | calls return, closing a stream included; at most one step after a cancel |
| `loom` | MCLoomTree | `TreeIsValid` `ReplyHangsUnderItsPrompt` `MirrorsFollow` | the tree and every saved document are valid; frames reproduce the tree and revisions grow; a reply's branch is what the model was shown |
| `socket` | MCSocket, 2 connections | `WorkerHoldsLock` `DoneFollowsTree` `StopEndsFan` `RequestEnds` | workers run under the lock even when the client left; done after the tree frame of the node it names; a stop ends the fan; requests end unless navigation stranded one |
| `artifacts` | MCArtifacts | `FolderIsSound` `NobodyWaitsForEver` `LensIsExact` `DurableIsKept` | a proof never vouches for a mixed pair; nothing computed from another authoring is saved; no deadlock but that of crossed merges; a lens holds the documents it claims, and a published one survives power loss |
| `operations` | MCOperations | `ReceiptsAreTrue` `NothingIsAbandoned` `AccountsAreExact` `WorkEnds` | receipts say what happened; begun work ends before shutdown; prompts counted once but for what two failures tear (9, 10), payload once; everything ends |
| `instruments` | MCInstruments | `DictionaryIsOne` `LensIsOne` `ReadsAreOfTheirForward` `RestartRestoresTheDictionary` | views, probes, units, digests of the resident dictionary and lens; readings of their own forward |
| `generation` | MCGeneration | `RowsKeepApart` `SteeringIsWhatScopesSay` `TextIsTheResponse` `PrefixIsNeutral` `ReceiptsKeepTheirMeaning` | what surrounds one forward; a row sees another's tokens only right after one that raised on its prefix (3) |
| `dashboard` | MCDashboard | `SlotIsSingle` `MirrorIsWhole` `ReproducedAsRecorded` `WorkNeverShrinks` `ChatsAreKept` | the page, its store, and turns that are run again or carried elsewhere |
| `fits` | MCFits | `FitIsOfItsInputs` `HeldIsCurrent` `TravelsWhole` `SharedTemplateIsKept` | fits and their reuse (but for 13), what a session holds of them (but for 14) and how they travel |
| `lens_deadlock` | MCArtifacts | `StateLockIsALeaf` is violated | divergence 1 of section 6 |
| `completed_is_whole` | ServerOperations | `CompletedIsWhole` is violated | divergence 2 |

For each property of a passing run `PROJECT.json` names a mutant: a changed
definition written beside the original (`Release_NotNested`, `Coeffs_AsStored`)
under which the run finds the property violated.

**Deadlock** is checked in the two session runs. The others use up their bounds and
stop, so it is not checked there; `NobodyWaitsForEver`, `WorkEnds` and `RequestEnds`
say what it would.

## 4. The proofs

All theorems hold for every value of the constants that satisfies the module's
`ASSUME`s, which fix shapes (disjoint sets, naturals, a `None` outside) and nothing
about the program, with the exceptions named here. TLC evaluates them in the runs.

| Module | Theorem | States |
|---|---|---|
| DrowseSessionProofs | `InductiveInvariant`, `TypeCorrect` | the invariant `IInv` of lock, phase and arguments; the type invariant |
| | `DeviceExclusion` | `LockedOps => (Spec => []OneDeviceUser)` |
| | `SessionImplementsModelAccess` | the refinement of `ModelAccess` |
| | `SteeringIsStableInDecode` | no step changes the stack, the roles or the plan while a decode runs |
| | `SessionInvariant` | the invariant `SessionInv` |
| | `SteeringIsTheStack`, `ReleasedWhenIdle`, `FitsAreUnsteered`, `StopTakesOneStep` | `SteeringFollowsStack`, `IdleMeansReleased`, `FitsRunUnsteered`, `StopIsPrompt` |
| | `PrefixStaysNeutral` | `OneThread => (Spec => []PrefixIsNeutral)` |
| SessionSocketProofs | `SocketInvariant` | the invariant `SocketInv` |
| | `LockOutlivesThread`, `DoneIsLast`, `StopIsFinal` | `WorkerHoldsLock`, `DoneFollowsTree`, `StopEndsFan` |
| OperationsProofs | `OperationsInvariant` | the invariant `OperationsInv` |
| | `ReceiptsTellTheTruth`, `BegunWorkIsFinished` | `ReceiptsAreTrue`, `NothingIsAbandoned` |
| InstrumentProofs | `SaeInvariant` | the invariant `SaeInv` |
| | `OneDictionary`, `DictionaryIsRestored` | `DictionaryIsOne`, `RestartRestoresTheDictionary` |
| | `LensInvariant`, `OneLens` | the invariant `LensInv`; `LensIsOne` |
| | `ReadsInvariant`, `ReadsFollowTheirForward` | the invariant `ReadsInv`; `ReadsAreOfTheirForward` |
| LoomProofs | `TreeInvariant`, `BranchInvariant` | the invariants `TreeInv`, and with `Named` `BranchInv` |
| | `TreeStaysValid`, `RepliesHangUnderTheirPrompts` | `TreeIsValid`; `Named => (Spec => []ReplyHangsUnderItsPrompt)` |
| | `RevisionsOnlyGrow` | the first conjunct of `MirrorsFollow` |
| StoreProofs | `StoreInvariant` | the invariant `StoreInv` |
| | `StoreTypeCorrect`, `FoldersStaySound` | `StoreTypeOK`, `FolderIsSound` |
| | `LensFitInvariant`, `DurableStays` | the invariant `LensFitInv`; `LensSpec => DurableIsKept` |
| | `LensExactInvariant`, `LensStaysExact` | `~LossAfterInterrupt => (LensSpec => [](LensFitInv /\ ExactInv))`; `LensIsExact` under the same hypothesis |
| GenerationProofs | `HooksInvariant`, `ForwardsAddWhatScopesSay` | the invariant `HooksInv`; `SteeringIsWhatScopesSay` |
| | `BatchInvariant`, `RowsStayApart` | the invariant `BatchInv`; `RowsKeepApart` |
| ArtifactProofs | `RegistryInvariant`, `HeldStaysCurrent` | the invariant `RegistryInv`; `HeldIsCurrent` |
| | `TravelInvariant`, `ClosuresTravelWhole` | the invariant `TravelInv`; `TravelsWhole` |
| | `TemplatesAreKept` | `~AuthorsMeetInstalls => (TripSpec => SharedTemplateIsKept)` |

Each invariant was checked with TLC on the instances of section 3 before it was
proved. Each preservation proof has one lemma or step per action.

**Device exclusion** (`IInv`). "One thread on the device" says nothing about who may
take the lock next. `IInv` adds that the lock is owned exactly by the thread in a
locked section, at the depth its nesting gives (`LockInv`); that the phase is the
one that thread's program counter implies (`PhaseInv`); and that a thread carries a real
expression into a push (`ArgInv`). `LockedOps` excludes the two calls that
forward without the lock, `cache_prefix` and `joint_logprobs`: with them the property is false.
Stability follows because a push or pop past its guard needs either the lock, which
the decoding thread holds, or the phase guard, which refuses.

**Session** (`SessionInv` = `IInv` and `ReleaseInv`, `InstalledInv`, `RolesInv`,
`FramesInv`, `StopInv`). What is held is determined by where the
thread is; the installed plan is the stack's except between a push and its rebuild;
the frames a thread has pushed are on the stack in order, its generation's on top;
the flag and the cancellation tell how many forwards may still end. `OneThread`
(one caller, no workers) is needed because `cache_prefix` takes no lock, and another thread
may steer the prefix while it is built.

**Socket** (`SocketInv` = `TypeOK`, `HandlerInv`, `FramesInv`, `NodeInv`,
`DoneFollowsTree`, `TakenInv`). The handler's place says who owns the lock and where its
thread may be; nodes are finalized in the order they were made, so a finalize
frame that is in `landed` is behind no earlier one, and the node a reply names, its own or one navigated to, was made; a stop that was taken has stopped the
fan or is about to. The deque may be as short as one.

**Operations** (`OperationsInv` = `WorkInv` and `ReceiptInv`). `WorkInv`: the stage of
each operation, the one holder of lock and model, who is joined, and that a begun
job is not cancelled. `ReceiptInv`: each receipt has one run, runs and rows tell its state (interrupted: it never ran, or its
socket could not be told how it failed; running though over: its answer could not be encoded),
the ledger lists a receipt once and is within its bounds, with a finished record to evict
whenever it admits one.

**SAE** (`SaeInv`: shapes, `SectionInv`, `CarriedInv`, `SelectionInv`, `RunInv` and the
dictionary properties themselves). The hard part is what a thread carries out of `state_lock`:
it keeps its meaning until the epoch moves, and whoever stores it compares the epoch.
`SaeAssumption` says that a locally trained release has one layer, because training saves one.

**Lens** (`LensInv` = `LensTypes`, `PlaceInv`, `RefreshInv`, `StackInv`, `PrepInv`, `MeasureInv`). `LensIsOne` speaks of
the moments between refreshes; `RefreshInv` says what holds inside one: probes and directions are of the resident
lens at every step, and the live readout too, but where an adoption has still to restore it, with layers that
fit. `StackInv` is why a cache keyed by an address may be trusted: no two lenses in use share one, and a
new lens empties the cache before its address, free since the old lens went, is asked for (`InstalledIs`). `Touches` says
that whoever asks for the stacks of a lens in use gets that lens's, and that the cache goes on answering for every
other. What was prepared is of the prepared lens (`PrepInv`), so the run is, whatever becomes resident meanwhile;
`PlaceInv` keeps a run from being bound while its owner is in a call, so a pinned lens answers nobody who writes.

**Tree** (`TreeInv` = type and `TreeIsValid`; `BranchInv` = `ContinuesInPlace`,
`HangsWhereResolved`, `Linked`, `BranchIsReserved`, `PromptedPast`). One lemma per tree
operator says that it makes a valid tree of a valid one; reachability is the least
set closed under children, so the lemmas argue about closed sets and need no induction
over data. `Named` says that calls name their parent: one that does not follows the
active node, which a navigation may move between resolution and opening of the turn (the
dashboard always names it, the Python API need not).

**Folders** (`StoreInv` = `ShapeInv`, `OneWriter`, `WriterInv`, `FolderInv`, `HistoryInv`).
That a fit is saved only into the folder it saw is not inductive: it follows at one step, when the
revision of now is compared with the snapshot's, from what a snapshot means. `SnapshotsIdentify`
says it: a folder with the identity a fit saw was born as the one it saw, and its target was not
cleared while the epochs are those it saw. That needs `IdentitiesAreNew` (no identity is given twice,
not even by one fit at two stages) and that `EpochKeys` holds every scope that selects
the target (`SelectedByKeys`). `WriterInv` is what the holder of a folder's lock relies on between
two steps; `OneWriter` keeps everybody else out. Every action is shown to be a `Step` of one process:
what it does to its folder (`Disk`) and to itself (`Proc`), from which `StepKeepsInvariant` follows once.

**Lens store** (`LensFitInv` = `FitTypes`, `FitPlaces`, `PlanInv`, `CoverInv`, `PublishedInv`; `ExactInv` = `SyncedInv`,
`SaveInv`, `MatrixInv`, `ResidentIsWhole` and exact pointers). `LensFitInv` needs nothing of the faults: the pointers a run plans on are those
on disk, what it fits and what it has already are all that was asked, and what it publishes is complete and of those
layers; `DurableStays` follows in one step. `ExactInv` says of what the matrices are. `MatrixInv` gives the sums in closed form (the
first `n` documents), so a resumption, a top-up and a promoted checkpoint are one case each of `StartExact`.
`SaveInv` keeps the new shards out of every pointer until all are synced; `SyncedInv` says why power loss may then leave either
pointer: the disk and its durable image hold the shards of each other's pointers. It fails between an
interrupted publication and the next fsync, hence `~LossAfterInterrupt` (divergence 11).

**Reads** (`ReadsInv` = `Shapes`, `CountInv`, `CaptureInv` and the property itself). `CaptureInv` says in closed form
what the capture holds: of n forwards a bucket has the last m in order (`Window`), m given by the plan, and
a sink has one row of each. `PlanCovers` and `PlanKeeps` say of every plan that whoever reads a
band finds its layers hooked, and kept deep enough for the aggregate. That a pooling index has a maximum to find
needs induction: the library's well-founded minimum (`WFMin`), which takes no operator, gives it.

**Steering** (`HooksInv` = `HooksTypes`, `InstalledInv`, `ContextInv`, `FeetInv` and the property). `InstalledInv`
says what is installed in terms of `wanted`, the entries and versions of the last rebuild: an atom of a layer is
in the offsets, in a static hook, or in the one group of its trigger. Two facts carry it through the caches:
a cached plan whose dependencies still resolve to the same objects is the plan that would be composed now, and a projection
is reused only when base, onto and whitener are the same. `ContextInv` ties the context to the
run's step and phase, `FeetInv` leaves a foot warm only in the run that warmed it.

**Rows** (`BatchInv` = `RowShapes`, `RowInv`, `TreesInv`, `StopInv`, `PrefixIsWhole`). `RowInv` says in closed form
what a cache has seen of its row: the prompt up to its suffix, then one token per forward, with room for
the budget. `PrefixIsWhole`: between rows the resident prefix is the prefix, rewound, and behind it exactly what
rows that raised on it fed (`entry.left`), since their entry is not released (divergence 3): the next row on it sees that
too (`InputSeen`), and its end rolls both back. `TreesInv` keeps
the tree a tree whatever the callback navigates, and hangs the turns of a fan under one anchor.

**Registry** (`RegistryInv` = `DiskInv`, `HeldInv`, `CopiesInv`, `AttachInv`, `RouteInv`).
`HeldIsCurrent` says what is held is present, but for the pairs of `unswept`, whose consumers nobody told, and keys
of `overtaken` (divergence 14); the invariant says why it stays so. `RouteInv` is what the first step of a request leaves for its
second: an extraction's fit is still the folder's when it is registered, and what is held of a folder about to be removed is
only what was loaded since the eviction, hence noted. `AttachInv` says the same of a probe's extraction before it is folded. What is held under a key is of a
folder the key matches (`ReadsAs`), so a fit or an eviction of that folder finds it; a folder without authoring has no pair,
so authoring one anew outdates nothing; a probe reads either a loaded object, which has no key, or a ray folded
for the probe's own name, so the two kinds of replacement cannot be mistaken for each other. That objects
have distinct identities is not needed: equal objects are moved alike. A copy may be outdated only while somebody who changed
what is held has still to drop the copies.

**Travel** (`TravelInv` = `TravelTypes`, `CarriedInv`, `IdsInv`, `LocksInv` and the property). `CarriedInv` says what a
process carries at each place: an export under its locks what the folder says now, an install what its archive declared or
its commit holds, agreeing with its template; past the decision its pairs are proven under the new name. `LocksInv` is the
exclusion itself: a manifest's lock and the template's have one holder each, so what a holder read stays (`Undisturbed`),
whoever dies. A fit publishes only where its snapshot still stands, and an install gives no id,
so the folder with the id a fit saw is the one it began in. `DependentsInv` adds, for the template, that nobody comes to refer
to it between the decision to replace it and the replacement; `~AuthorsMeetInstalls` is needed because a from-template
publishes without the template's lock (divergence 15).

**Only model-checked.** Liveness (`CallsReturn`, `RequestEnds`, `WorkEnds`, `WorkIsFinished`):
TLAPS has no support for it. `NobodyWaitsForEver` and `StateLockIsALeaf` are stated with `ENABLED`.
`FramesReproduceTree` (in `MirrorsFollow`), `AccountsAreExact`, `TextIsTheResponse`, `ReceiptsKeepTheirMeaning`,
`MirrorIsWhole`, `WorkNeverShrinks` and what `LensEstimator` sums rest on folds over sequences, on
filtered sequences or on the parser's recursion: the provers know no rule for these operators, and the library's
induction takes an operator as a parameter. (Where a natural number alone is counted down, its well-founded minimum
replaces the induction.) `FitIsOfItsInputs` and the properties of `dashboard` are checked on the bounded
instances and not proved.

## 5. Bounds, initial states and fairness

**Session.** Two callers meet every hazard of the lock and the stack: one inside a
locked section, one outside, with callbacks as the third party. Two expressions,
one steering the prefill and selecting a role and one doing neither, are all the
composer distinguishes. `MaxStack` bounds where a call may *start* a scope. One token is a
decode with a callback; the stream run has two, so that a forward can follow a cancel.

**Tree.** Four nodes are a root with a chain, siblings and room for a graft; ids are
symmetric. `maxRev` of a client bounds the mutations, `MaxText` the words of a text.
Two kinds of behaviour: editors that restore and save, and a generation among calls that could
disturb it. `LoomRecipes`: `MaxTurns` nodes, `MaxRolls` generations, `MaxMoves` casts,
defaults and sessions; two journeys, reruns without transcripts and
travels without fans, forks or comparisons; three settings of the session.

**Socket, operations.** Queues and the landed deque of one entry, so that they
overflow and forget; a fan of two, so that a stop has a sibling to cancel; a second connection that
competes for the lock. A ledger of two records and a payload budget of two, three operations
(`MaxStarts`), one set of parameters, fans of two rows. `MCSocket`: the users of a behaviour either stop fans or
navigate once, while a reply has no token yet, the only time when it matters which node is active. `Heard`: at most one
operation ends without a word on how, in a server that is up and prepares no lens.

**Artifacts.** Two processes, one death, the operations of a menu: three on one folder (`OnOneFolder`), or two on two
folders (`TwoOperations`), enough for two merges that cross and for a merge beside any other call on its source or its destination.
Menus separate fits, authoring and merges so that each meets each. The lens: two corpora
that share a prefix, two layers with nested choices, a checkpoint every two documents,
three events, one fault. `LossAfterInterrupt = FALSE` leaves out a
power loss right after an interrupted publication (divergence 11). The estimator: three prompts over groups of
up to four, four rows, two layers; memory may run out at every allocating call of every device (`AllFaults`), and a fit is
torn once (`Tearing`): torn again, `torn` counts on.

**Instruments.** Two threads, two features, a provider release of two layers and a local
one; `MaxLoads`, `MaxOps`, `MaxChanges`, `MaxCalls` bound loads, other calls, replacements on disk and
calls. `AggTailDepth = 2` of 8. `MaxForwards = 3`: prefill and two steps, or three steps.

**Generation.** Two prompts that part at their last token, budgets 1 to 3, a sliding window of
three, batches of two rows, two series. Six scopes with every kind of
term, two frames, one change of registration, two generations. Text: five tokens over two letters, a
space, half a character and the structural tokens; `SplitsBeforeThinking = FALSE` leaves out partial UTF-8 directly before a
thinking section (divergence 19). The grammar: 2,205 texts of one term and 242 sums; numbers are halves that
`%g` prints exactly; no text names a label other than by its slug (divergence 22).

**Dashboard.** Five desks, each with the faults and actors that can
disturb each other (all together would be the product). Revisions to 3, one fault. Two tabs
with claims to 3; two pages, three mutations, two records, two pending saves, two deeds of the users with the chats
(`MaxDeeds`), one restore that fails (`MaxFailures`); the pages are symmetric.

**Fits.** Two sessions, two fits, one edit and one mishap, batches of at most two
rows, a cache limit of three. The registry has one namespace and one name under its raw, role and SAE keys, so that eviction across
namespaces (divergence 14) is not met; two writes, one registration, two things held, and requests in two
steps and polls of analytics in behaviours of their own (parts `registry` and `polls`). Distribution: two processes, two places, two
texts, two trips, one loss; `AuthorsMeetInstalls = FALSE` leaves out part of divergence 15. Commits, corpora and names are initialised alike where
swapping them changes nothing (`MCInit`).

**Fairness.** `session_stream`: every thread inside a call goes on (`WF` of its `Step`
and of the join), which supposes that `on_token` returns. Nothing is assumed of when threads
call nor of who gets a free lock: `threading.RLock` is not fair, so a blocked push may
starve, and no property says otherwise. `socket`: handler, control read, worker and forwarder of
each connection run (an event loop and its threads); clients, timeouts and disconnects owe nothing. `MCSocket` asks for
less, that one of a connection's tasks goes on, which is enough within the bounds.
`operations`: threads and the event loop go on (`WF` of `Progress` and of the estimator's
step, neither of which can be repeated for ever); clients and timeouts owe nothing, since an operation
that waits is granted the lock by the step that releases it.

## 6. Where code and documentation disagree

The first two have runs. The others were met while modelling; the models contain them unless a bound named
in section 5 or the list says that a case is left out. Where a property would not hold because of one, the property names
the case it excepts and says what holds in it: `ForwardsSeeTheirInput` (3), `NobodyWaitsForEver` (4), `SumsAreExact` (9, 10),
`SameInputs` and `Sound` (13), `IsPresent` (14), `ReceiptTellsTheRun` (16), `RequestEnds` (20), `WorkIsKept` (24). And definitions that state the documented
claim (`OthersWait`, `NoRoleLeftBound`, `StopIsHonoured`, `ContinuationKeepsText`, `RemovedStaysRemoved`,
`FallbackIsAccepted`, `TokensNameTheirNode`, `AggregateIsVisible`,
`ReceiptReadsBack` without `Slides`) stand beside the properties and do not hold.

*Locks and threads*

1. `lens/instrument.py:525`: session-info holds the lens `state_lock` across a load that waits for the fit
   lock, whose holder waits for `state_lock`; ARCHITECTURE.md:749-751 forbids it (`lens_deadlock`).
2. `server/ws_stream.py:1036`: a stop that meets a row which ended by itself cuts the fan short and
   the receipt says completed (`completed_is_whole`).
3. `session/engine.py:1125`: a decode that fails on a prefix hit leaves the entry advanced, and the next row on the prefix
   attends to what it fed; that row's own end rolls the entry back to the prefix. The shared static prefix of a batch
   is sized so that no row hits it (engine.py:1255-1262, prefix_cache.py:160-165).
4. `fit/bake.py:261`: a merge reads a source under its destination's lock, so two opposite merges wait for each other for ever
   (ARCHITECTURE.md:755-758 gives an order that would prevent it); `CrossedMerges` is the only such wait.
5. `base/staging.py:52`: a manifold that is removed while the backup of an interrupted swap is left comes back from it.
6. `store/manifold_lifecycle.py:84-90`: the capture lock is said to span the publication of the fitted sidecar; the
   fit publishes after it has released it.
7. `steering/composer.py:514`: a push or pop of another thread is *refused* during a generation; the docstring
   (508-509) and ARCHITECTURE.md:740 say that it waits. `:318`: a scope whose exit is refused forgets it was entered.
   `session/engine.py:1234`: `cache_prefix` prefills without the lock. `:855`: a stop in the preamble is lost.
8. `store/manifold_folder.py:294-296`: a process that dies between the removal of `nodes/` and the rename leaves no corpus,
   though the docstring speaks of an untouched one; a template promoted before its dependants is visible to a crash.

*Fits and artifacts*

9. `lens/fit.py:1179`: on the CPU, memory that runs out between layers counts rows twice, those of the layers already added to
   and no others (`torn`). Its fallback (:783) refuses what the docstring (306-312) says it runs.
10. The CUDA drain does the same when a transfer fails inside the handler, for the rows committed before it.
11. `lens/store.py:720`: power loss after an interrupted publication may keep the old pointer and lose its shards.
12. Selecting a source: `source_registry.py:290` and `store.py:1125` race; the PUT route checks and then acts
    (`server/instrument_routes.py:353`).
13. Reuse of a fit ignores `dls` and the neutral baseline (`fit/pipeline.py:767-796`), though the docstring of `FitInputs` speaks of
    exactly its inputs (`ReuseIgnores`); after a failed whitener the old means are kept with the new whitener (`session/neutral.py:131-144`); `node_stats.py:36` promises to grow the batch again and does not;
    authored capture may match generated text; editing a captured authored node keeps its rows.
14. Registry: lazy memoization drops no analytics copy; evicting `ns2/name` moves a bare key of
    `ns1/name`; a forced extraction adopts a role-baselined fit under a raw key; `put_manifold` orphans probes. Consumers are not
    told (`unswept`) of: a rewrite by from-template, merge, install or generate whose eviction is refused, since the folder is written
    first (`server/manifold_routes.py:540,572,590`, `session/session.py:707`); the other feature spaces of a folder that a forced extraction
    authored anew, and all of them when it fails (`session/extraction.py:292-313`); what a probe loads between the
    eviction and the removal of a folder (`manifold_routes.py:661,664`, `probe_routes.py:148`). A direction registered while a probe
    of its key is being extracted does not reach the probe (`overtaken`, `session/session.py:1144-1169`).
15. Distribution: a local untemplated folder is copied without a lock (labels and corpus of two authorings);
    templated creation resolves its template unlocked; the Hub card is written after the locks are
    released; forced creation or removal of a template asks no dependants.

*Server and generation*

16. `server/operations.py:175,477`: an answer that cannot be encoded (NaN) leaves its receipt running and its stream open; `:222` charges done
    bytes twice. `server/ws_stream.py:700`: a send that fails otherwise than by a disconnect leaves `interrupted` on work that ran.
17. `sae/runtime.py:365`: a save that succeeded is reported as failed when the section is lost. `sae/instrument.py:428`,
    `enable_live` and `token_readout` read the residency before they use it. `lens/instrument.py:832-846` registers a
    direction of a replaced lens; `readout/roster.py:113-140` stores a digest after the release.
18. Detaching the last probe mid-generation drops the aggregate; walking back past `AGG_TAIL_DEPTH` clamps; `_apply`
    without attach keeps the old sink; a live toggle during a pinned generation uses the old lens; the
    `logits_to_keep` retry repeats layers (`generation/decode.py:903-912`); the partial-UTF-8 flush reads the EOS forward.
19. `generation/decode.py:1203-1212`: the aggregate names a token the stop string cut. The flush at a think end is missing
    from `emit_map`; partial UTF-8 before a think start leaks into the response; response text before a later
    thinking section is streamed and then dropped; a stop string that straddles emissions was partly streamed; a
    message straight into the final channel counts as thinking.
20. `loom/tree.py:728`: a continuation that fails leaves its message empty. `server/ws_events.py:19`: the first
    token's node is the active node, which a navigation moves (`server/tree_routes.py:110`); the handler then waits for the finalize frame of
    that node (`ws_stream.py:1065`) and holds the session lock until its client leaves. `session/batch.py:755`: so is a row's node id.
21. Recipes: `plan_prefill` re-sends the user turn without its label and thinking, so the reply may land under a new
    sibling, or under the first of identical twins; a fork of an unsteered turn takes a cast member's standing steering;
    casts and defaults set later fill what a receipt left open; a role label of the anchor overrides the call's.
    Replay does not force the prefix of a forked node, record raw mode or stamp default temperature; a fork of a fork
    grows the budget. `here` imports skip a user prefix equal to the active path.
22. Grammar: a position by a name that is not a slug prints as a plain term (grammar.py:70-73); inverting a collapse
    without slide changes the sign of its slide (recipe.py:256-259); inversion parses without registered keys; `@both` is not printed;
    `%g` keeps six digits; `Trigger.when` prints a gate that does not parse; `1e999` prints `inf`.

*Dashboard*

23. Queue: it stalls when an error precedes `started`, when the channel closes before a start, when an open fails outside
    a drain, and when a regeneration re-enqueues itself at the tail; an error that drains also releases the
    drained item's reservation; the auto-regenerate toggles ignore reservations; between `done` and the 0 ms timer the slot looks free;
    a stale `ready` can clear `opening` of a newer connection.
24. Storage: the save drawer goes on after a flush that failed (`SaveConversationDrawer.svelte:106`) and may update the cached chat with
    another chat's tree or an older one, since `update` has no revision check (`Continues`); equal revisions overwrite each other, and revisions are compared across server restarts; opening or clearing in one page discards another's unsaved
    edits; a claim of a missing record writes no epoch, so the old owner's save succeeds.
25. Comparisons: the regenerate dialog names the node's *parent*, so the anchor is the nearest generated ancestor;
    a seed pinned in the box beats the compared turn's; thinking of past turns is not sent; raw targets are compared non-raw.

## 7. Hazards without a property

A scope left out of order by another thread pops that thread's frame (`composer.py:318`; the
composer does not know which frame a scope pushed). A stop asked in the preamble is lost (`engine.py:855`).
A continuation reads its message before its branch is reserved and clears it before the decode that
may fail (`tree.py:728`). A navigation between resolution and opening of a turn splits a prompt from
its branch when the call names no parent. Nothing in the code prevents these, so no passing property
can exclude them; the models contain all four. Nor does a property say when a request that a navigation stranded ends (20),
when crossed merges do (4), or which fit a session holds that nobody told (14).

## 8. What is not modelled

Geometry, scoring and sampling are real-valued tensor code. Protocol adapters, server security and
the command line validate, classify and print around calls that are modelled. Model loading
wraps third-party libraries. Chat templates and scenes are text; only the delimiters the decode loop
acts on are modelled. Of the dashboard, panels and layout are left out. Joint log-probabilities appear
only as forwards outside the lock. Corpus files, hashes and schemas are values.

## 9. What could come next

Proofs, in this order: `FitIsOfItsInputs`, `SlotIsSingle`. Models:
the dashboard's agent requests over reloads (`webui/lib/webmcp`), joint log-probability replays, the loom's diffs
and filters against reference definitions.
