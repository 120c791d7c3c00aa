# A TLA+ verification project for adk-workflow-kit

adk-workflow-kit compiles declarative workflow packages and runs them as graphs of
agent nodes whose models may call tools. This directory holds TLA+ modules that model
the parts of it where several actors, failures or restarts meet, the TLC
configurations that check them on small instances, and TLAPS proofs of the central
results for every value of the constants. Paths below are relative to the
repository (`crates/...`); `PROJECT.json` maps every definition to its source lines.

To repeat a check: `tlc -config MCEffectLedger.cfg MCEffectLedger`; to repeat the
proofs of a module: `tlapm EffectLedger_proofs.tla`.

## 1. Inventory

| Component | State it keeps | Operations | Talks to | Hard behaviour | What makes it correct |
|---|---|---|---|---|---|
| **Effect ledger** (`workflow-runtime/effect_ledger.rs`, `effect_ledger/executor.rs`) | SQLite tables `approvals` and `history`, an exclusive lease, an executor registry | open, propose, approve, advance, `DurableEffectHandler::execute`, drop | remote services through `EffectExecutor` (reconcile, execute, verify); a handler of the tool bridge | crash between a remote call and its row, late and lost requests, expiry during a slow lookup, two owners, failed appends | rows stay readable, dispatch only approved work in time, Committed is true, giving up is safe |
| **Run controller** (`workflow-runtime/controller.rs`) | counters, clock samples, active tool call, latched cause | admit a turn, begin/finish a call, accept output, progress, cancel, poll, finish, reject | a synchronous host that samples its clock | several deadlines at once, errors after the latch, clock going back | inclusive ceilings, first and earliest cause wins, every call closed once |
| **Artifact store** (`workflow-runtime/artifact.rs`) | a directory of content-addressed files, temporary files, in-memory retention policies | open, stage, commit, drop, sync_published, read, retention, remove_all | the file system, other processes on the same root, checkpoints | a crash or a loss of power between two system calls, counters that restart | nothing torn is visible, nothing visible is replaced, confirmed names survive |
| **Tool bridge** (`workflow-runtime/bridge.rs`, `approval.rs`, `workflow-adk/tool_bridge.rs`) | registrations, grants, threads in flight, idempotent results | grant, invoke | handler threads, the approval ledger, the capability layers | a wait that times out while its handler goes on, retries, rejected answers, panics | one handler per key, one answer per key, every answer approved, lock always released |
| **Node-result cache** (`workflow-runtime/node_cache.rs`, `FencedModel` in `workflow-adk/execution.rs`) | one file per key digest | lookup, invalidate, put, gc | the file system, other runs, the acceptance callback | runs replacing each other's entry, gc on a stale listing, loss of power | only accepted output is stored or reused, what was reported stored survives |
| **Durable run** (`workflow-adk/execution.rs`, `execution/tool_audit.rs`) | loop ledger, checkpoint, event log, manifest, effect journal; in memory the node states, the events and the handlers | start, resume, the node callbacks, persist_generation, replay, the closing steps | all of the above | a commit that takes several files, a process that dies between any two of them, handlers that outlive the graph | always resumable, nothing repeated or lost, a receipt is backed by files |
| **Shared session** (`workflow-adk/shared_session.rs`, `execution/shared.rs`, `execution/isolated.rs`) | turns and the pending node of a history, in memory and in the loop ledger | begin, invoke, prepare and accept a turn, admit a frontier, validate on resume | the durable run, the agents of a super-step | nodes waiting for each other, a failed or interrupted turn | every turn answers exactly the turns before it, nobody waits for ever |
| **Run directory** (`workdir.rs`, `checkpoint.rs`, `write_atomic` in `workflow-adk/execution.rs`) | the tree of a run, its manifests, the checkpoint database | allocate, roll back, open a store, save, publish, find, reopen | the durable run, other processes on the same base | a kill or a loss of power between any two file-system calls | what is published or found can be resumed |
| Pure-transform run (`workflow-runtime/execution.rs`, `pure_transform.rs`) | events, checkpoint | run a deterministic pipeline | controller, artifact store | failure of one step of several | receipt and events agree |
| **Sandbox and supervision** (`bubblewrap.rs`, `bubblewrap/*.rs`; `podman.rs` is not modelled) | a process group, capture threads, an output budget, an output stage, a cleanup worker | spawn, capture, wait, kill, reap, settle, hand over, commit the stage | the operating system, the workdir | a timeout racing the exit, processes that cannot be killed, flags raised late | a whole receipt or an error, in bounded time, and nothing leaks |
| Policy, capabilities, tool registry (`policy.rs`, `tool_registry.rs`) | layers of authority | intersect, authorize | the tool bridge | - | no layer widens another (in ToolBridge: `Authorized`) |
| Runtime events and observability (`event.rs`, `events.rs`) | a sequence of events | map, append | the durable run | out-of-order completions | in DurableRun: the log and its sequence |
| **Model routes** (`model_routes.rs`, `model_invocation.rs`, `model_sessions.rs`, `model_profiles.rs`) | the published snapshot, a call's attempts, the caller's session | publish, capture a policy, invoke, fall back, retry, probe, bind, cancel | session stores, credential brokers, model providers | a snapshot replaced during a call, answers that arrive at the deadline | the session is a transcript, only authorized candidates are asked, every call ends |
| **Compiler and graph** (`workflow-compiler/lib.rs`, `graph_builder.rs`, `workflow-adk/lib.rs`) | the IR, the translated graph, its state and checkpoint | validate, translate, invoke, resume | the SDK's graph executor | cycles, joins of branches, a resume inside a loop | the verdict is right, loops are bounded, a gate comes first |
| Specification, skills, locks (`workflow-spec`, `workflow-compiler/skill*.rs`) | none at run time | parse, lower, read pages | - | pure, sequential | diagnostics are complete |
| **Review loop** (`workflow-review/review_loop.rs`) | candidate, hashes, defects, bill, the reviewer's lease and budget | validate, review, revise, publish or abstain | callbacks, the tool bridge | threads that keep the reviewer's authority | publishes only what was accepted, bills everything, ends |
| Hot reload, session identities, compact state, datasets and GitHub intake, firewall and sentinel analysis, workflowctl, test kit | see `components` in `PROJECT.json` | | | | |

How they interact. `workflowctl` starts or resumes a run. The run opens its files,
translates the plan into a graph and drives it on one thread; the callbacks around each
node's model persist a *generation* (the state of all nodes) before a tool may
run. A tool call goes through the tool bridge, which asks the capability layers and the
approval ledger and runs the handler on its own thread; a handler may be a
`DurableEffectHandler`, which advances the effect ledger, or a static handler behind the
effect journal. Model answers may come from the node-result cache, large tool output goes
to the artifact store, and the host of a synchronous run charges a run controller. The
nodes of a super-step that share a session take turns under its lock, and their models
are reached through routes that a host may republish at any time. A node or tool that
needs a process runs it in a sandbox. The review loop is a program of its own around a
tool bridge.

`PROJECT.json` lists the hazards at the lines where they bite and the properties that
would catch each; every property below was written for one of them. A hazard without a
property has a note that says why.

## 2. Modules

| Module | Models | Form |
|---|---|---|
| `EffectLedger` | the ledger, its hosts, and the remote service it talks to | one action per operation; one action per step of `advance` between which a crash or a clock tick may come |
| `EffectLifecycle` | what the ledger promises, without hosts, leases, rows or clocks | abstract specification, implemented by `EffectLedger` |
| `RunController` | the controller of one run | one action per operation and outcome |
| `ArtifactStore` | `FilesystemArtifactStore` in several processes | one action per file-system call |
| `ToolBridge` | `ToolBridge::invoke` behind the mutex of `AdkToolBridge`, with `ApprovalLedger` | one action per outcome of the part before the wait, and per end of the wait; handlers are threads |
| `NodeCache` | `NodeResultCache` with `FencedModel` | one action per file-system call |
| `DurableRun` | start, crash and resume of a run; composes the loop ledger, the checkpoint, the event log, the manifest and the effect journal | one action per file write, callback and handler step |
| `RunDirectory` | allocation of a run's directory, creation of its checkpoint store, publication and reopening | one action per file-system call whose effect a kill or a loss of power may separate |
| `SharedTurns` | nodes that share one model session, with the ledger's turns | one action per await point and per ledger operation |
| `ModelRoutes` | calls through a published route, in a session, on a binding, and the agent's own | one action per await point; the publisher, the token and the clocks run beside it |
| `GraphValidation` | the compiler's checks of the IR | operators, among them the two-pass search for cycles |
| `WorkflowGraph` | compile, translate, invoke, resume; uses `GraphValidation` | one action per operation, one per super-step |
| `ReviewLoop` | `run_bounded_review_loop` and the authority of its reviewer | one action per answer of a callback, per tool call and its end |
| `SandboxProcess` | one sandboxed execution with its threads and processes | one action per poll, read, signal and exit, and a clock |
| `EffectLedger_proofs`, `DurableRun_proofs`, `SharedTurns_proofs`, `RunDirectory_proofs` | - | theorems about the module of that name |
| `Invocation_proofs` | - | theorems about `RunController` and `ModelRoutes` |
| `Execution_proofs` | - | theorems about `ToolBridge` and `WorkflowGraph` |
| `Acceptance_proofs` | - | theorems about `ReviewLoop` and `NodeCache` |
| `Host_proofs` | - | theorems about `ArtifactStore` and `SandboxProcess` |
| `MC*` | - | constants of the instances TLC checks |

Operators marked *Slip* in the modules are plausible wrong versions of the definition
that follows them. They are used nowhere in a specification. Substituting one for its
definition makes TLC report the property named beside it in `PROJECT.json`, which shows
that the property depends on the code.

A proof module that serves two components extends both, so one of the two specifications
carries its component in its names: `ControllerSpec`, `GraphSpec`, `CacheSpec` and
`ProcessSpec`, with the `Init`, `Next` and, where both have them, `TypeOK` and `IInv` that belong to them.

### 2.1 EffectLedger

`approvals` and `history` are the two tables; `lease` is the lock file; `registry`, `pc`,
`call` and `result` are the memory of a host. `applied` and `older` are the
remote service: the keys it applied and the earlier requests that may still reach it.
It deduplicates by key, `reconcile` and `execute` answer Committed only for an applied
key, and Rejected speaks of the present request only; this is the documented contract of
`EffectExecutor`, and the only external assumption of the module. A lookup that answers
"absent" is a snapshot: an older request may be applied right after it.
`sent` and `granted` are history variables.

`advance` is cut at every place where something else may happen: its entry
(`AdvanceRefused`, `AdvanceTerminal`, `AdvanceApproved`, `AdvanceRemote`), the lookup
(`ReconcileSettled`, `ReconcileAbsent`), the expiry decision (`Withhold`, `Dispatch`),
the answer (`ExecuteCommitted`, `ExecuteRejected`, `ExecuteUnknown`) and `Verify`. The
append at the end of each is one SQLite transaction and part of the action (`Record`);
`StorageFailure` is its failure, `Crash` the death of the process at any of these places.
Digests are collision free (`RequestAssumption`).

### 2.2 RunController

Every operation takes an elapsed sample of the host's clock and starts with
`check_boundary`. A sample that fails the boundary ends the run in the same way whatever
the operation, so `ClockRegressed` and `TimedOut` stand for that part of all of them.
`closed` and `cleaned` are history variables that count how admitted calls left
the controller.

### 2.3 ArtifactStore

`dir` is the directory as processes see it, `disk` what the last directory sync made
durable. After a loss of power each entry is, independently, as it was at the last sync
or as it is now. File contents are synced before they are linked, so only entries, never
bytes, are at risk. `root` and `rootDisk` are the same for the entry of the root in its parent:
`try_new` is cut at its calls (`OpenExisting`, `OpenAbsent`, `OpenCreate`, `OpenSync`,
`OpenSyncParent`, each of which may fail: `OpenFails`), other processes and crashes come between them,
and until the parent is synced a loss of power may take the whole root. `adopted` records that a
store came to use a root whose entry was not durable (section 5). Temporary names carry the process-local capability counter, which
restarts at 1 with its process. `Faults` names what the environment may do in an instance.

### 2.4 ToolBridge

A call stands for its idempotency key. `holder` is the caller inside `invoke`; it keeps
the mutex while it waits. A handler acts (`Act`) and ends (`End`) on its own
thread, with an error or a panic before or after it acted. The order of the refusals is the
order of the checks in `invoke` (`Refusal`).
`Authority` and `Registration` are constants. A handler that acted and whose envelope is
then rejected leaves neither a result nor an entry in flight, as in the code.

### 2.5 NodeCache

Each run looks a key up, may invalidate what it finds, calls the model, waits for the
acceptance callback and stores the result; `put` is cut at each file-system call, since
two puts, a gc and an invalidate may race for the path. gc orders by digest,
which has no meaning in the model: any subset of the right size may be removed.
`promised` records what a call reported of its key when it answered Ok, if it was alone: `solo` has
the calls that have met no other call and no gc on their key since they began. A call that overlaps
another may lose what it was told is stored, since `publish` removes what is at the path and not
what it compared.

### 2.6 DurableRun

A *generation* is the state of every agent node: the calls admitted and not completed
(`pending`), the audit identity of each completed call (`done`), how far each
node is (`phase`) and the super-step that owns its visit (`owner`). `persist_generation` is two steps,
the ledger and then the checkpoint, which for a callback keeps its `event_sequence` and continuation.
The frontier observer has a third before them: `NodeStart` maps its event, `PersistEvents` rewrites
`events.jsonl`, and the checkpoint then moves to the end of the events and to the super-step
(`NextCheckpoint`). Each of these steps, the start and each closing step can fail or be cut by a crash.
The digest a
checkpoint binds is represented by the generation itself. An audit identity is random in
the code; here it is the least one that no file and no memory mentions.

Assumptions: every command is a process of its own, as with `workflowctl`, so that
handler threads die with it; one process works on a run at a time (the code takes no lock,
see section 8); each file is replaced atomically (`write_atomic` renames and syncs, and an
error may come after the rename); a failing SQLite save has not committed.
Handlers registered by the embedding program are not behind the effect fence, the static
ones (`Journaled`) are.

Graph routing is abstracted: a run begins at its entry node, the nodes of a super-step end in any
order, and the next super-step is over any of the nodes (`NextFrontier`), so a route may leave a node
out and a loop may visit it again, which opens its finished visit anew. The graph is done when the
next super-step is over none (`GraphDone`); a start then also looks at the terminal kind, a resume does not.
The SDK yields every `NodeStart` of a super-step before it polls a node (`Visiting`). Nodes without
an agent are left out: their `NodeStart` writes the same files, with a generation that has not changed.

### 2.7 RunDirectory

`dir` is what processes see of each root, `disk` what is certain to survive a loss of power;
`roots` and `rootsDisk` are the same for the base directory. An operation on a
directory is certain only once that directory was synced, and a file whose bytes were not synced
may come back torn. `db` is the SQLite file: its transactions are atomic and durable, but the file itself
may go with a loss of power until its directory was synced (`named`). `InitializeFails` is also the
error of `symlink_metadata` right after the creation, after which nothing is rolled back.
A start goes through `Start`, `CreateRoot` (or `Collide` with an identifier that exists),
the layout and its manifest, the syncs, `CheckManifest` to `SyncDatabase` (which is
`SqliteCheckpointStore::open`), `SaveInitial` and the four steps of `write_atomic`;
`InitializeFails` and `Rollback`, `OpenFails` and `PublishFails` are the error paths. A resume
finds the run manifest, opens the store and loads. `promised` records the runs whose start
was told that they are running.

### 2.8 SharedTurns

`history`, `lock`, `waiters`, `woken` and `failed` are the memory of `shared_session.rs`;
`ledger` is the loop ledger's part of each node about the session, `talk` the part about its own
conversation, and `saved` the continuation of the same
generation (saving it is one step here; `DurableRun` has its parts). A node registers as a
waiter, tries the lock, prepares its turn in the ledger, lets its agent
answer (`ModelTurn`, and `ToolsRespond` when the answer was tool calls), and has the answer accepted; `AgentFails`, `Unwind`
and `Abandon` are the ways a turn ends badly. `Crash` forgets the memory, `Resume` runs the
checks of the code on what is left, answers the tool calls that are open, as `replay_pending_tools` does, or
ends there, and rebuilds the history. A conversation is the sequence of its contents, the model's or not,
where the visit's begin and the iteration whose calls are open; several calls of one answer stand as one.
Runs that do not persist raw loop state save an empty conversation, for which the check of the prefix
says nothing. The turns of the ledger are
sorted by naming each by its ordinal (`SortedTurns`), which is what sorting gives once the ordinals are
`0..n-1`; the code, like `HistoryValid`, checks that first. `saw` records what each turn was shown. Runs without a
ledger (`durable = FALSE`) keep their turns in memory only.

### 2.9 ModelRoutes

`call` holds the captured snapshot, the candidates left and the attempts made; `pc` is its
await point. Everything the call awaits (session store, credential broker, provider) may answer,
fail or stay silent, and `await_route` lets the deadline or the token win at each await.
A store may have applied an append whose answer is never seen (`StoreApplies`). A
stream is a sequence of abstract responses: text, a complete Stop, a half-finished one, a metadata
trailer, a thought, a broken one. One call at a time, since callers serialize the calls
of one session identity.

### 2.10 GraphValidation and WorkflowGraph

An IR is a record with nodes, edges, routes, kinds, bounds and bindings; `ValidatedIr` makes
the checks in the order of the code. `WorkflowGraph` submits an IR, compiles and
translates it, and runs the result by super-steps: the frontier's tasks run together,
their updates are merged, the next frontier is saved. The SDK's executor is external and modelled from
its use. `mem` has the fan-in provenance of the state, `visits` its `visits:<node>` entries.
`pend`, `executed`, `resumes` and `allowed` are history variables. Left out: nodes with an
untrusted-text policy, and `__end__`, which the same check refuses as `__start__`.

### 2.11 ReviewLoop

`phase` says whose answer the loop waits for. A callback may answer anything of its type, fail
or, where the code catches it, panic. `lease` has one entry per reviewer attempt: closed or not,
and which thread holds its mutex; `consumed` is the shared budget. A helper keeps a clone of
an authority for as long as it likes. `MaxCount` stands for the largest `u64`.

### 2.12 SandboxProcess

The clock counts poll intervals and does not tick while a poll of the supervisor would do
something. The group is the child and one descendant; each may write, exit, enter and leave
uninterruptible I/O, and close or redirect its outputs (`Redirect`). `ends` has the processes that
hold the writing end of a pipe; a reader sees the end of its file when nobody does. So a receipt does not
mean that the group is gone: a descendant that gave up its outputs and was killed with the sandbox's
pid namespace may be alive, and in uninterruptible I/O stay alive, when `execute` returns. Two readers share the output budget and raise its flag in a step of
its own. `phase` follows `execute`: waiting, terminating, settling, collecting; what does not
settle in time is handed to the worker reserved at the start. `stage` follows the
output stage into the receipt, and its entry-by-entry commit.

## 3. Runs

Passing runs check deadlock unless the system may really stop (a finished run
controller, a store whose capabilities are used up, and the graph, the sessions
and the routes, whose behaviours end when their bounds on runs, restarts or calls are used).

| Run | Instance | States | Shows |
|---|---|---|---|
| `effect_ledger` | 2 hosts, 1 key, a request and its renewal, up to 2 advances per call, clock 0..2 | 426k | rows stay readable, Committed is true, nothing is sent late; it implements `EffectLifecycle`; every call returns |
| `run_controller` | 2 tools, ceilings 1/3/2/2, deadlines 5/3/2 | 17k | ceilings, closing of calls, the earliest deadline |
| `artifact_store` | 2 processes, 1 content, 3 capabilities, 3 inodes, all faults | 124k | nothing torn becomes visible, confirmed content survives in a root that is durable |
| `tool_bridge` | 2 callers, 2 calls with one call id and different arguments, a read-only call, 2 threads | 182k | one handler, one answer, approval; the lock is always released |
| `node_cache` | 2 runs, 1 key, 2 outputs, gc, damage, crash, loss of power | 435k | only accepted output is stored and reused, promises survive, racing puts give up |
| `durable_run` | 2 nodes, super-steps over any of them, 2 in all, 3 calls, a budget of 2, 1 resume, crashes and I/O errors | 558k | everything a resumed run relies on; every command returns |
| `run_directory` | 2 processes, 2 identifiers and draws, 2 starts, 1 resume, 1 kill, 2 losses of power | 614k | what is published or can be found is whole and resumable |
| `shared_turns` | 2 nodes, 2 super-steps, 2 model turns per visit, 2 restarts | 156k | turns answer their prefix, every generation is recoverable, no call waits for ever |
| `model_routes` | 2 candidates, 8 snapshots, valid or not, 1 retry, 2 responses per stream, 2 calls | 436k | the session is a transcript, asked means authorized, every call ends |
| `workflow_graph` | all graphs of 3 nodes of 5 types, and 36 shapes with forks, joins, routes, loops, gates and refused IRs; 3 invocations or resumes | 371k | the verdict is the reference's, bounds survive resumes, the gate comes first, every invocation ends |
| `review_loop` | 2 candidates, 4 defect lists, 1 helper, 2 revisions, 2 tool calls, 5 turns | 554k | published means accepted, the bill is complete, the loop ends |
| `sandbox_process` | 2 processes, 2 pipes, 1 byte each against a limit of 1, wall time 1 or none, allowances 2 and 1, outputs given up by the descendant | 1276k | whole receipts, the stage outlives its writers, bounded time, everything released |

Properties, and what it takes to break them. A module's `TypeOK` is a theorem;
the types of `SharedTurns`, `ModelRoutes` and `WorkflowGraph` are part of their inductive
invariants.

- Ledger. `HistoryNeverCorrupt`: no interleaving appends a row that the reader of the
  table rejects. `CommittedIsReal`: the ledger's claim about the world is true, even with late
  requests. `NoLateDispatch`, `CallReturns`, and the refinement `ImplementsLifecycle`.
- Controller. `WithinCeilings`, `EveryCallClosedOnce`, `TimeoutIsEarliest`.
- Artifact store. `VisibleIsWhole`. `ConfirmedSurvives`: what `sync_published` confirmed outlives
  crashes and losses of power, unless a store came to use a root that was not durable.
- Bridge. `OncePerKey`: at most one running handler for an effectful call, one envelope for all
  who are answered. `AnswersAreApproved`, `LockIsReleased`.
- Cache. `OnlyAccepted`, `NodeCompletes`. `PromiseSurvives`: between the sync a call ends with and its own
  earlier steps lie those of everybody else; still, what a call that was alone reported is what its key
  holds, after any loss of power.
- Durable run. `AlwaysResumable`: whatever file was written last, event log, ledger and checkpoint agree,
  and the frontier that was saved, or is next, may be entered.
  `ReportedIsDurable`: no event reports a completion that is not in the checkpoint, and an Ok
  receipt is backed by the files: no call is pending and no visit open, whichever nodes were visited. `WithinToolCalls` (and journaled tools act once),
  `EffectOnlyWhilePending`, `CommandReturns`.
- Run directory. `PublishedIsResumable`: what a caller was told is running survives.
  `VisibleMeansComplete`: nobody is led to a run that cannot be opened, although a start
  killed inside `open` leaves a temporary that refuses every later open.
- Shared session. `AnsweredFromItsPrefix`, `AlwaysRecoverable`: each generation passes the
  code's own checks on resume (turns, open calls, conversation prefix, continuation), and an admitted
  answer is never refused. `CallsReturn`.
- Routes. `SessionIsATranscript`, `AskedWasAuthorized`, `CallEnds`.
- Graph. `VerdictIsReference` compares the code's closures and two-pass search with a
  definition by closed sets. `VisitsSurviveResume`, `GateBeforeWork`, `RunEnds`.
- Review loop. `PublishedWasAccepted`, `BillIsComplete`, `LoopEnds`.
- Sandbox. `ReceiptIsWhole`: the child was reaped, every byte written was kept, and whoever of the
  group is still alive was killed and holds no pipe. `StageOutlivesWriters`, `ReturnsInTime`, `EverythingReleased`.

Why the bounds are enough. Two hosts, processes, callers or runs are what it takes for one
to meet the half-finished work of another, and after a crash a second one
plays every later one. One key is enough in the ledger and the cache because no
step relates two keys, and the theorems hold for any number. A handler makes four advances
in the code; two are enough to loop, since every further advance is also the first of
another call, and the theorems hold for every number. A clock of 0..2 with expiries 1 and 2 puts the expiry
before, between and after the steps of an advance. Three capabilities let a restarted
process meet the number of a leftover, and a token outlive its store. In the controller each ceiling is reached and
each pair of deadlines comes in both orders. Three calls over two nodes with a budget of two
let siblings compete for the last call; two super-steps have a route that leaves a node out, a fork and a
loop back to the entry node. One resume takes up what a start left at any point; that a resume may die and be resumed
again, any number of times, is in the theorems. Two identifiers let two starts draw the same one, one kill and two losses of power
strike a start and its resume. Two super-steps give a session turns of an earlier
step, and two restarts interrupt the recovery itself. Two candidates and one retry give
every order of retry and fall-back. Three nodes have every kind of cycle, self-loops and
components of two and three; joins need four and are among the shapes. `MaxStep` is above
every recursion limit of the instance, and the caller's limit of 5 cuts the longest of the shapes. Two revisions let a candidate come back after another.
One byte in each of two pipes against a limit of one makes either reader the one that exceeds it;
the outputs given up are those of the descendant, all at once (`MCRedirects`), so that it may outlive both pipes.
Symmetry is used for processes, inodes and identifiers of the artifact store and the
run directory, whose runs check safety only; the artifact store's view leaves out what a
call returned, which no step reads.

## 4. Fairness

- `EffectLedger`: weak fairness of the steps of a running call per host. Executors must
  bound their I/O; the loop of a handler is ordinary code. The answer may be Unknown forever.
- `ToolBridge`: weak fairness of the end of a wait, which `recv_timeout` bounds. None for
  handlers.
- `NodeCache`: weak fairness of the steps of a run, each a file-system call or
  a model call that the run deadline bounds.
- `DurableRun`: weak fairness of the start, of persisting, of the closing steps, of the
  end of graph and replay, and of `Stop`, which the wall deadline justifies. None for
  models, tools or handlers.
- `SharedTurns`: weak fairness of every task and of the graph stream, which the runtime polls;
  an agent's own turns are bounded by its controller. None for crashes, resumes or cancellation.
- `ModelRoutes`: weak fairness of the call's own steps and of the clocks (the deadline, the
  profile's timer). None for stores, brokers and providers.
- `WorkflowGraph`: weak fairness of the executor's next super-step. Nodes end by the deadlines
  of the models and controllers behind them.
- `ReviewLoop`: weak fairness of the loop, so that a callback it has called returns, and of the end of a tool
  call, which the bridge's timeout bounds. Nobody has to call a tool.
- `SandboxProcess`: weak fairness of the threads and the clock, and of the exit of a process
  that was killed and is not in uninterruptible I/O. It may stay there for ever.

`RunController` has no liveness: its enforcement is cooperative, and without a polling host nothing
ends a silent run. `ArtifactStore` and `RunDirectory` are about safety.

## 5. What the models show beside the properties

No run refutes a statement of the repository as it is checked here. Some statements of
comments hold only in a narrower sense than they read, and the models have the steps that show it
(at `artifact.rs:476`, `artifact.rs:557`, `artifact.rs:675`, `bridge.rs:784` and `node_cache.rs:491`):

- "Confirms durability of names already published by this filesystem store" (`artifact.rs:505`) needs a
  root that is itself durable. `try_new` syncs the parents of what it created and nothing of what it
  found: if the process that created the root is killed between `create_dir_all` and the sync of the
  parent, or another opens the root in between, later stores use a root that a loss of power may take with
  everything that was confirmed (`OpenExisting` with `~rootDisk`). `ConfirmedSurvives` excludes just that
  (`adopted`). Durable runs are not exposed, since a start saves its first checkpoint after its own `try_new`
  returned (`execution.rs:4914`, `4979`) and a resume opens the store of such a run; `workflowctl run`
  shares `<workdir>/artifacts` between commands (`cli.rs:919`) and is.
- A put of the node cache that answers Ok may have lost its entry already, to a put that compared an
  older one and removed the path since (`PutRemove`). The entry is then missing, never wrong.

- A leftover temporary link is called safe to reclaim. Nothing reclaims it, the
  number in its name restarts with the process, and a restarted process that reaches it
  gets `Io` for content that is visible (`StageCreate`).
- `NotFound` is documented as "The requested artifact was absent"; `retention` answers it for every
  artifact that a reopened store has not committed itself (`Opened` empties the map).
- "Side effects are deduplicated with a bridge-generated stable key" holds for calls that were
  answered with an accepted envelope; a handler that acted and then failed, or whose
  envelope was rejected, is run again by a retry (`Receive`).

## 6. Proofs

All theorems are proved for every value of the constants, from the `ASSUME`s of
the modules and nothing else. The assumptions say what kind of value a constant is:
bounds and timeouts are natural numbers, there is at least one call, node or key, marks such as
"no inode", "no caller" or `None` are different from what they stand beside, usable cache
entries are not unusable ones, a digest is not the name of a temporary file, an offer of
`ModelRoutes` is a record whose candidates are a sequence, a workflow of `WorkflowGraph` has
numbers for nodes and a visit bound or `None` for each, the nodes and calls of a durable run are finitely many and
its entry is one of its nodes. Nothing is
assumed about how large a bound is, how many processes, keys or identifiers there are, or
which of the offers and workflows are valid.

Every safety property that a run checks is also a theorem, with one exception
(`VerdictIsReference`, below).

Each component's proof has the same form. The properties are not inductive as they stand, so an
invariant `IInv` adds what the reachable states owe to program counters and to what
is on the disk; TLC has checked each `IInv` on the instance of its run. One lemma per action shows that
the action keeps `IInv`, with one step per conjunct it can disturb; `Invariance` is
`Spec => []IInv`, and the listed theorems follow from it. The arms of a `CASE` are unordered in the
logic; where the arms of an operator overlap, the proofs hold for either.

**EffectLedger.** The properties are not inductive as they stand: that Committed is
true, say, depends on where every host is. `IInv` is `TypeOK`, `KeyInv` of every key
and `HostInv` of every host. `KeyInv` says what the rows of a key mean: it is bound exactly
when it has rows, the rows are valid, Committed and Verified imply applied,
Failed is last, anything beyond Proposed is granted, only keys past Approved were sent, a key
that failed without a commit was not sent, and the world knows only sent keys. `HostInv`
says what a program counter means: a host that is not closed owns the lease
(hence only one works), one that looks up, decides or waits has a bound key in state Started or
Indeterminate, one that verifies a Committed one, and the sampled clocks are not in the
future. Each action touches one key and one host; the lemmas show that it keeps
their invariants, and the lease shows that no other host looks at the key.
`Invariance` is `Spec => []IInv`; `HistoryReadable`, `DispatchDurable`,
`DispatchApproved`, `CommitReal`, `AbandonedUnsent` and `SuccessVerified` follow from it,
`DispatchInTime` from it and `Dispatch`. `Refinement` shows that every step is a
step of `EffectLifecycle`, or leaves it unchanged, under the mapping that takes the last row of a
key to its phase (Started and Indeterminate are both "requested") and `applied` to `world`.

**RunController** (`Invocation_proofs`). `IInv` adds to the properties that nothing has been handed to
cleanup while the run goes on, without which "at most one cleanup" is not inductive.
`CeilingsHold`, `CallsClosedOnce`, `LatchHolds`, `ChargedInTime` and `EarliestNamed`
hold for every `RunLimits`.

**ToolBridge** (`Execution_proofs`). Whether a second handler may be started depends on what `inFlight` says,
so `IInv` ties it to the threads: a key in flight names a handler of that call without
a result, a running effectful handler is the one in flight for its call (a timeout loses no
receiver), a kept result is a valid envelope of a handler of its call, and a handler that
answered has acted. `WaitsOnItsCall` says that the holder of the lock waits on a handler of its
own call, `AnswerIsOwn` that an answer is the kept one. `ActsOnce` bounds the
effects of a call by its handlers that have left their first state; `TypeOK` needs it, since it
bounds the effects by the threads. `NeverServedUnapproved` and `EffectIsOver` are action properties: every step by which a
call is served first passes the order of refusals, and a call with a kept result
has no running handler left that could act, nor a receiver that could replace the result.

**ReviewLoop** (`Acceptance_proofs`). The bill is settled while threads may still hold a clone of the
reviewer's authority. `LeasesClosed`: there is one lease per attempt, a closed one has no
holder, and only the attempt under way has an open one. `BilledSoFar`: outside a review the
metrics name every consumed call. `TrailIsCandidate`: what validator and reviewer said yes to is
the candidate the loop holds, which is why no revision slips in before publication.

**NodeCache** (`Acceptance_proofs`). `StoredIsAccepted` and `PromiseIsDurable` extend the properties to the synced
directory, since a loss of power may bring its entries back. `PromiseInv` follows a call that is alone: nobody
else is at work on its key, so at each of its steps the path holds what the call put there, and its last
sync makes durable what it then reports. `CallsAreSound` says what a run
knows at each step of a put: the output it is about to link was accepted for its key, however
often the path changed hands since.

**ArtifactStore** (`Host_proofs`). A name under a digest is whole because the file was whole when it was
linked and nobody writes it afterwards. `OneOwner`: `create_new` gives a temporary name to
one call at a time, although every process counts from one. `HandleIsPrivate`: a file that is
being written has that temporary name and no other, in the directory and on the disk.
`StagedIsWhole`, `FinalIsWhole` and `ConfirmedIsDurable` say the rest for both directories; that a store in use has
a durable root, unless one was adopted, is what a loss of power needs.
`PublishedIsFrozen` uses the same invariant step by step: what a store does next never touches
the bytes or the name of visible content.

**RunDirectory.** `PhaseOK` says what the steps of a start or resume have made of
the root at each label: laid out and synced from `syncbase` on, with a synced store manifest
from the database on, complete while it works and before it publishes "running" or "succeeded".
`OnePerRoot`: two processes never work on the same root, because `mkdir` gives an
identifier to one and a resume takes a root only when no process has it (section 8). `RootsSound`:
a root whose manifest is ready, in the directory or on the disk, is complete in
both, a promised one is found, and no named file has unsynced bytes. `GoneIsEmpty`: nothing is left
of a root that was rolled back, so that its identifier can be drawn again. A complete root has a database
whose name is durable; `Fresh`, that a start which is about to bind the database has created it, is what makes
the start sync that name, and `Invariance` is `Spec => [](IInv /\ Fresh)`.

**SandboxProcess** (`Host_proofs`). `LifeInv` relates the phase of the supervisor to the owner of its
resources and to the streams that were started. `ReleaseInv`: resources are released only when the child was reaped and the
streams have ended; a stage is handed out or removed only with them. `AccountInv` is the
byte count: what was written is retained or still in the pipe, unless the budget's flag is up
or its reader is about to raise it, and a reader at end of file has no writer left. Hence
a receipt that saw no flag after both readers had ended is whole. `OrphanInv` adds that a
descendant that outlives the child was killed with the sandbox's pid namespace, which is all a receipt says of it. `TimeInv` bounds the clock by the
deadline of the loop that runs: `now` is at most the wall time, or the D-state deadline that was
set by then; each deadline is set once and at most one allowance after the previous.
`SignalsOwnGroup` needs `ReapedIsGone` beside it: a signal is sent by process id, and until the
settlement nobody has reaped the child.

**DurableRun.** A commit takes several files, so the invariant says what each leaves for the
next. `FilesAgree`: the generation the checkpoint binds is one of the two the ledger keeps, and
the events the checkpoint counts exist. It is kept only
because a persist writes the new generation beside the bound one (`PersistKeeps`: what is
being persisted is the memory's, and keeps every published identity; a super-step's generation reaches
the ledger after the whole log). `EventsBound`: an event
on disk belongs to the checkpoint's generation, one in memory to the published one, and none is recorded twice;
`InMemory` says that a living process has published exactly what the checkpoint binds. `MemoryAhead`
and `ReadyIsPending` carry a call from its admission to its handler: a handler that may
still act serves a call that is pending in the published generation, which is
`ActsWhilePending`. `Budget` counts admitted calls in the memory and in the checkpoint, since
a resume takes up the second, `ActedIsJournaled` ties the acts of a static tool to its journal key.
`StartProgress`, `OffIsClean`, `Closing` and `Receipt` follow a command through its program
counter; each closing step leaves what the next relies on, and the last leaves what an Ok receipt says.

`VisitInv` is a second layer, about routes and loops, and `VisitInvariance` is
`Spec => [](IInv /\ VisitInv)`. A generation fits a super-step when its visits belong to super-steps up to
that one, the open ones are of its own nodes, and a call is pending only in a node that asked its model
(`Fits`); it is settled when no node of the super-step has the visit of an earlier one (`Settled`).
The checkpoint fits and is settled in the super-step it saved, the memory fits the present one, and once the first
`NodeStart` of a super-step is persisted the checkpoint is at it (`FrontierSaved`). Until the whole super-step
has started nothing is pending (`QuietUntilBegun`), which is why a kill between two `NodeStart`s leaves a
generation that both super-steps accept. `RunsCanResume` needs both layers; for `ReportsAreDurable`, a
super-step over no nodes has no open visit and so no pending call, whichever nodes the routes left out.
`CompletionsAreKept` is an action property beside them: three steps save a checkpoint, and none
drops or renames a completion that is bound.

**SharedTurns.** `LedgerValid` relates the ledger to the log, the sequence of all accepted
turns: the log holds the turns of all nodes, each at the place its ordinal names (`IsLog`), a node's
turns are of growing super-steps and answer its finishes one by one, one node at most waits, and what
it has prepared is the log as it is (`NodeValid`). `Generation`: the ledger and the continuation
saved with it are of one super-step, or every node is settled. `Progress` says what the ledger has
of a visit by where its call is. With a ledger, a visit that waits for its answer was shown
the log as it still is (`DurableInv`), since nobody else may append while it waits, before and after a
restart; without one the history lock does the same (`MemoryInv`), and a visit that has
answered does not ask again. `SortedIsLog` shows that sorting the ledger gives the log; hence
`AnsweredFromPrefix`. For `GenerationsRecover`, `ValidPasses` shows that a valid ledger passes
`shared::validate`, and `Generation` that it fits its continuation. `valid_invocation` needs `TalkInv` as well:
each iteration of the model has left its content in the node's conversation, those before the visit precede
its first content, and a tool call is open only in a visit that has not finished. It is
carried beside `TurnsIInv`; `TurnsInvariance` is `Spec => [](TurnsIInv /\ TalkInv)`.
`AcceptedStays` is an action property: no step takes a turn from the ledger, and a log whose turns are all
in another begins it, since the ordinals name the places (`LogPrefix`).

**ModelRoutes** (`Invocation_proofs`). `SnapshotIsValid`: a call has captured a valid snapshot, whatever is
published since. `CandidateIsNext`: the candidate a call works on is allowed, and every earlier
one was asked and is recorded as failed retryably. From these follows `RequestsAuthorized`. `OwnEntries` counts
how many of the last entries of the session belong to the call, zero, one or two, by its await point; a store may
have applied an append before the call learns of it, so two counts are possible at an append.
`ShownIsPrior` says that what was loaded, and what each request shows, is the session before
those entries; with `Ordered` this is `SessionTranscript`.

**WorkflowGraph** (`Execution_proofs`). `VisitsAccounted`: while an invocation executes, a node has run at most
once more per resume than its `visits:<node>` entry says; the checkpoint may be behind by the
super-step that is not yet saved, which is the visit a resume gives back. `GatePlaced`: a gated graph that
executes came through the compiler, so its gate is the entry, no edge and no route leads back
to it, and it is not checkpointed. `GateFirst`: until the gate has allowed the invocation its task is the
whole frontier, afterwards it is in none.

Of the proved properties TLC checks 25 invariants, four action properties and the refinement on the
instances of section 3: the theorems that have a `property` in `PROJECT.json`. The others need no
run beside their theorem.

Only model-checked:

- Liveness, which the prover does not handle: `CallReturns`, `LockIsReleased`, `NodeCompletes`,
  `CommandReturns`, `CallsReturn`, `CallEnds`, `RunEnds`, `LoopEnds`, `EverythingReleased`.
- `VerdictIsReference`: that the closures and the two-pass search of `validate_graph` compute
  reachability and cycles for every graph needs induction over the recursion. `GateRunsFirst` uses of the
  verdict only the checks that are not recursive.

## 7. Plan

Done, in this order: effect ledger with its abstract specification and proofs, run
controller with proofs, artifact store, tool bridge, node cache, durable run; then graph
validation and execution, shared sessions, model routes, review loop, sandboxed processes and run
directory; then the proofs about the tool bridge, the review loop, the node cache, the
artifact store, the run directory and the sandbox; then those about the durable run, the shared
session, the model routes and the graph.

Theorems worth proving next: an action property of the run directory, that what a resume or a failing
start does never takes a run away that was promised; one of the graph, that a resume goes on from the
saved frontier and no other.

Models worth adding: `PureTransformRun`, the composition of controller, directory and artifacts
around one transform; `ArtifactPromise`, a write-once map that both artifact stores
implement; a second process that resumes the same run in `RunDirectory`.

## 8. Not modelled

- Two processes that resume one run at the same time. The code takes no lock on a run
  directory; two would share the temporary of `write_atomic` and overwrite each
  other's checkpoints. The models have one process per run at a time.
- The manifest of a run whose event log could not be written: it says succeeded while the
  command returns an error, since only a failed checkpoint marks it failed. The run stays
  resumable in the model, and the caller is told.
- A handler that panics leaves its key in flight; later retries of the call wait for
  the whole timeout and fail. `ToolBridge` has the behaviour, no property is about it.
- Branches that leave a fork by different ways pass no common guard; writes of one key then
  overwrite each other in the order the nodes end, as the SDK merges them. The generation
  numbers of fan-in provenance restart with the process (`lib.rs:1447`); the guard compares
  sources and keys, so the model still finds a conflict after a resume.
- The commit of staged output renames entry by entry (`workdir.rs:251`): a failure leaves some of
  them published (`stage = "partial"`), and the caller gets an error.
- Nodes with an untrusted-text policy and their preparation, the behavioral worker, and the
  observation of graph streams (`workflow-adk/lib.rs`).
- Validation of a sandbox request and its argument list; podman; sealed files.
- Building registries, profiles and providers; telemetry and usage reports; what requests contain.
- `multi_hop`, `grounded_answer` and `package` of the review crate: checks of data.
- `open_read_only` of the checkpoint store and its comparison of differing manifests; cleanup of
  finished workdirs; import and export of the node cache; the in-memory artifact store.
- Skills and the construction of agents in a run, parsing, serialization, hashing, wording of
  events, redaction: pure and sequential, or abstracted to identities.
- Hot reload and session identities: a single comparison each.
- Datasets, GitHub intake, firewall and sentinel analysis, test kit: sequential data
  processing around the core, with nothing for a model checker to interleave. With skills
  and unit tests they are about half of the lines under `crates/*/src`, which is one reason why
  the map covers a small share of them.
