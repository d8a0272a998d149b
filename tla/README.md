# Verification of cliq

cliq is a coding agent in TypeScript: a turn loop over a model and tools, a
transactional overlay over the user's workspace, sessions that several processes
share through files, a headless JSON-RPC server, and a durable run kernel on
SQLite with native workers. This directory holds TLA+ models of the parts of it
whose correctness depends on the order of steps, the TLC runs that check them
and TLAPS proofs for every size of instance.

Paths below are relative to the repository root. `PROJECT.json` maps each
definition to the lines it stands for and lists the hazards, runs and theorems.

## The system

| part | state | operations | what is hard |
|---|---|---|---|
| transactional workspace, `src/workspace/transactions/` | `state.json`, `diff.json`, `apply-progress.json`, `abort-progress.json`, the overlay and snapshot directories, the records of the session | open, edit, finalize, validate, approve, apply (stages A to C), abort, recovery at start | crashes between any two file writes; two processes on one transaction; failures in the middle of apply and restore |
| path lock, `src/lib/path-lock.ts` | a lock directory and its owner file | acquire, heartbeat, stale removal, release | every call is several file-system calls; dead owners; missed heartbeats |
| turn runner, `src/runtime/runner.ts`, `tx-runner.ts` | the session in memory and on disk, the turn's transaction, the abort signal | one turn: checkpoint, model requests, overflow retries, tool calls, completion, finally | cancellation between any two awaits; failing saves; loops |
| compaction, `src/session/auto-compaction.ts`, `compaction.ts` | records and the active compaction | select a range, summarise, create | a cut inside a call or a transaction; a session that changes while the model summarises |
| headless server, `src/headless/` | active run, transport, pending answers | `run.start`, `run.cancel`, queries, run events, shutdown | writes that fail at any point; runs that outlive their client |
| run kernel, `src/state/reducers/`, `recovery-closure.ts` | rows of runs, run_journal, worker_launches, workspace_generations, state_owners; release capabilities in memory | reducers: prepare, claim, release and settle an invocation; prepare, activate, seal and retire a worker; fence and inspect a lost one; stop; the closure that every later step demands of the rows | death of the state owner, lost leases, unknown effects, stops that race completions; validators and writers that must agree |
| run admission and source inspection, `reducers/admission.ts`, `reducers/session.ts`, `source-inspection-owner.ts` | admissions by key, aliases by request id, staged captures, tasks in memory | `session.create`, `run.submit`, close, takeover | retries under other ids, one key with two intents, a death between capture and commit |
| waits of a batch, `reducers/input.ts`, `reducers/tool.ts` | the run's waiting reason, batch items, checkpoints | prepare, wait for input or approval, answer, deny, claim, renew, stop | an answer that races a stop or a deadline; rows that cannot be replayed |
| installed scheduler, `src/state/store.ts`, `run-execution.ts` | lanes, scopes, transports, kept results, timers, the owner | admit, drive, dispatch, settle, maintain, expire, close, succeed | effects charged once, no effect after a stop, results that outlive their lane |
| state owner, `store.ts`, `state-owner.ts`, `canonical-time.ts`, `state-owner.c` | lock file, owner rows, time fence, clock | open, genesis, takeover, release, close | dying openers, clocks that go back, removed locks |
| worker scopes, `src/sandbox/linux-worker.ts`, `native/linux/` | control group, controllers, processes, witness and receipts | bind, make, activate, invoke, release, stop, inspect | a supervisor that dies at any point; receipts that must be true |
| control socket and reads, `installed-control.ts`, `control-channel.ts`, `control-socket.c`, `control-read.ts` | connections, reservations, queues, cursors | open, frame, answer, close; page and follow | back-pressure, peers that vanish, pages cut while writers go on |
| installation, `installed-*.ts`, `installed-exec.c`, `installed-anchor.c` | selection, unit files, anchor, locator, keeper and supervisor processes, the held handle | install, exec, keep, serve, stop, finalize a credential, close a handle | crashes between any two steps, stale hints, descriptors used after close |
| content store, `cas.ts`, `artifacts.ts`, `sqlite-driver.ts` | directory entries, inodes, artifact rows | publish, recover, declare, read | loss of power, publishers that recover each other's leavings |
| run workspace and source capture, `src/workspace/run-workspace/`, `source-*.ts`, `generation-tree.c`, `source-walk.c` | private trees, birth records, walks with their held entries | materialize, snapshot, borrow, retire; inventory, select, read, look again | writers beside the walk, torn files, retirement after a death |
| credentials, `store.ts` (authority), `native/linux/credential-platform.c` | facts, records, receipts, the secret service, tasks and transports | write, rotate, finalize, revoke, sweep; platform calls; connect, release, retire | calls whose answer is lost, deadlines that race answers, keys that must be wiped |
| provider responses, `src/model/provider-observation.ts`, `attempt.ts` | parser state, events, the compiled turn | observe, finish, abort, compile | responses cut off, lost or repeated records |
| session files, checkpoints, forks, plans, `src/session/`, `src/plans/` | session files, workspace state and index, snapshots, plan artifacts | ensure, save, mutate, checkpoint, fork, restore, write and approve a plan | processes that share the files, deaths between two of them |
| policy, hooks, validators, tools, model requests, skills, TUI, CLI, decoders, scripts | see the components of `PROJECT.json` | | their answers are choices of the models above |

The parts call each other as follows. The CLI, the TUI and the headless server
call `runTurn`; the turn runner calls model, policy, hooks and tools, saves the
session and drives the transaction coordinator; the coordinator, the session
store, plans and credentials take path locks. Processes meet only through files.
The run kernel is a separate execution path: an installed supervisor owns the SQLite
store, serves the control socket, admits Runs with a capture of their source, drives
each through the reducers, sends model calls through the native broker and has native
workers execute tools in workspace generations; what it stores goes through the content
store.

What makes each part correct: an applied transaction is complete and an aborted
one clean, and the session tells the same story as `state.json`; the lock excludes
and is never left behind; a session stays replayable and a turn always ends;
a compaction never splits what belongs together; a run has one end and its client
hears of it; a Run has one writer, an exact budget, checkpoints without
unaccounted effects, rows that its recovery accepts, effects that are charged once, and
stays quiet after its end; a state root has one owner whose history can be read; an
answer over the control socket tells what was committed; a stopped worker has no living
process; a content and a tree are whole or refused; a secret is known or gone.

## Modules

| module | models | checked by | proved in |
|---|---|---|---|
| `TxProtocol` | one transaction, its session file and any number of processes | `MCTxProtocol`: `tx_one`, `tx_two`, `tx_stale_session` | `TxProtocolProofs` |
| `Exclusion` | an exclusive lock, the specification `PathLock` implements | | |
| `PathLock` | `withPathLock`, one step for each file-system call | `MCPathLock`: `lock_serial`, `lock_faults`, `lock_stale` | `PathLockProofs` |
| `TurnRunner` | `runTurn` and the turn's side of the transaction | `MCTurnRunner`: `turn`, `turn_count` | `TurnRunnerProofs` |
| `HeadlessRpc` | `createRpcServer` and `runHeadless` | `rpc` | `HeadlessRpcProofs` |
| `Supervisor` | the installed scheduler and its execution scopes | `MCSupervisor`: `supervisor` | `SupervisorProofs` |
| `RunKernel`, `RecoveryClosure` | the reducers of one agent Run; the validators of its rows | `MCState`: `state` | `RunKernelProofs` |
| `Admission` | `session.create` and `run.submit` with the capture of the source | `state` | `AdmissionProofs` |
| `RunWaits` | one tool batch and its waits | `state` | |
| `WorkerScope` | one worker launch, its controllers and processes | `state` | |
| `Compaction` | `selectAutoCompactRange` and `createCompaction` | `MCParts`: `parts` | |
| `SessionFiles` | session files, workspace state, checkpoints, forks, plans | `parts` | `SessionFilesProofs` |
| `CredentialAuthority`, `PlatformTask`, `ModelBroker` | credential grants; calls of the secret service; one model transport | `parts` | |
| `StateOwner` | opening, owning and closing a state root | `parts` | |
| `ControlServer`, `ControlRead` | the control socket's service; paging and following over it | `parts` | |
| `Installation`, `InstalledHandle` | installing, keeping and serving; the handle of a held selection | `parts` | |
| `ArtifactStore` | publications of one content and its row | `state` | |
| `Generation`, `SourceCapture` | the private tree of a Run; the capture of a source | `parts` | |
| `ProviderStream` | from a provider's records to the compiled turn | `parts` | |

How they fit: `PathLock` justifies the locks of `TxProtocol`, which are
variables that a waiting process takes or times out on; `TxProtocol` justifies the
coordinator calls of `TurnRunner`, which succeed or throw; `TurnRunner`'s `TurnEnds`
justifies that `HeadlessRpc` takes a turn as one step that ends. `TurnRunner` counts
compactions, `Compaction` says what one covers, `SessionFiles` what a save and a
checkpoint leave behind. `Supervisor` drives the reducers of `RunKernel`, one step each;
`StateOwner` justifies its `open` and its succession, `WorkerScope` that a fenced worker
is gone, `ModelBroker` that a refund is honest, `Generation` that a retired tree has no
handle, `ArtifactStore` that a row's artifact can be read. `Installation` justifies that one
supervisor runs, `ControlServer` that a command is authentic and answered.

`MCState` and `MCParts` put components that share no state side by side: the initial state
chooses the part that runs, the parts share the variables `v1`, `v2`, ... because only one
of them runs, and each property has one conjunct for each part it is about, guarded by
`part`. The run kernel and the session files are extended rather than instantiated, so that
their properties are the ones the theorems name; their variables keep their initial state while
another part runs. Model values such as `p1` and `p2` are processes in one part and
publications or tasks in another, so one symmetry serves them all.

### TxProtocol

The files are the variables (`txState`, `diff`, `applyPhase` with `written` and
`ghost`, `abortPhase`, `sess`, `file`, `overlay`), `pc` and `loc` are the processes.
Each write of a file is a step, so `Crash` can fall between any two; `Fail` steps
are the catch blocks of `apply.ts` and `abort.ts`; a process that starts scans
(`recovery.ts`) and repairs what it found. A file's content is a version number:
the base, the staged overlay version, or a change made outside cliq. `StaleSaves`
says whether a turn (which saves its own copy of the session) overlaps other
processes' `cliq tx` commands.

### PathLock and Exclusion

Time is two facts, "older than `LOCK_TIMEOUT_MS`", for the directory and the owner
file. `Crashes`, `LongHolds` and `Misses` switch on the three ways a lease can run
out. `Exclusion` has one variable, who is inside; `PathLock` implements it under
the mapping "inside is in the callback" while no lease runs out.

### TurnRunner

`pc` follows `runTurn`; the session exists twice (`mem`, `disk`) because
`saveSession` writes the object and `mutateSession` replaces it. `conf` holds how the
runner was created (auto mode, apply policy, plan mode, confirmation). A
model answer, a policy decision, a hook verdict, a tool outcome and a failing save
are choices. `Cancel` may fall anywhere; the code sees it where it looks.

### Compaction

A session grows by turns, calls and transactions; the cut is the index of the last
covered record. `AdjustCut` is a recursive function, the loop of
`adjustCutForTxSpans`. `KeepsRecent` states what the code's search returns by a
reference definition over all cuts.

### HeadlessRpc

One line of input is one step, except that queries answer later. `Write` is all or a
prefix of the messages, after which the transport is closed and the active run
aborted.

### RunKernel

An action is one reducer. A reducer reads, publishes artifacts, and compares the
same rows again inside one SQLite transaction; a call whose expected revision is
stale changes nothing, so the effect is one step. `Restart` is a new state owner: the
release capabilities (`handles`), which live in memory only, are lost. The
abstractions:

- the Run's revision and latest checkpoint are only compared with what a launch or a
  generation was planned from, so each keeps whether they are still equal
  (`planned`, `fresh`);
- the clock is two facts, the deadline has passed (`late`) and the lease is valid
  (`leased`). Renewing a lease is not expiring;
- an operation reserves one unit of its own counter, a model call of `modelTokens`, a
  tool of `toolCalls`; cost and repair counters behave like the first;
- the operations of the Run are a given sequence `Kinds`; a Run whose frontier is
  past it does nothing more than stop;
- `cancelRequested` is the stop intent "user_cancel": the reducer sets both;
- "succeeded" and "completed_unverified" are read by the reducers, but none of them
  produces these states, so the model has failed and cancelled ends only;
- approval and input waits are `RunWaits`; MCP servers, child Runs, operation grants,
  credential evidence, context compaction and the session projection are left out.

### RecoveryClosure

What `readRecoveryClosure` and the validators it calls demand of the rows, one definition for
each validator, as predicates over `RunKernel`'s variables. `RecoveryAccepts` says that
whatever the reducers wrote passes them. `Recoverable` names the two kinds of Run they
refuse (see the differences below).

### Supervisor

One lane takes a Run from admission to its end; a step is what happens between two awaits.
Beside it run admissions, cancellations, the maintenance timer, a clock that goes back,
shutdown, death and a successor. `net` is what has reached the provider, `done` counts the
effects of a Run, `kept` is a result that is received and not yet stored.

### Admission, RunWaits

A request of `Admission` is its bytes: call id, key and intent. Handlers of one process
interleave at their awaits; digests are the records themselves. `RunWaits` follows one batch
whose items the policy allows, denies or wants approved, or that ask for input; each
operation reads a cut, plans across awaits and commits if the cut is unchanged. Its
properties are the recovery validators of such a batch.

### WorkerScope

Controller 1 makes the worker behind a barrier; later controllers only inspect. A controller
sees the death of its supervisor when it next looks. The variables are the row, the control
group, the processes, and the birth record and witness the inspection goes by.

### SessionFiles

Every file is replaced atomically and everything else may be the last step of a process or
a call. `mem` is a process's copy of the session, `lockS`, `lockW` and `lockP` are the path
locks. A legacy session file has the format of a session and keeps its own id, records and
checkpoints (`Own`), or is one of messages that becomes a new session, or is malformed and set
aside; the retry of an `ensureSession` that died after its first write finds the first one's file
written and writes it again. `WriteIndex` stands for the two last writes of the recording, the
index and the global `state.json`, which holds only a time.

### CredentialAuthority, PlatformTask, ModelBroker

The authority is facts and records under a store-wide lock, written before and after each
platform call; a failed create may still land (`late`). `PlatformTask` is one call with its
worker thread, watchdog, timer, cancellation and join. `ModelBroker` is one transport: its
item is read, the provider connected, one request released, everything retired by a chain
of workers; `sent` is what the provider saw, `item` the secret.

### StateOwner

Two processes open and close one root; `disk` holds lock file, rows and fence, `wall` the
clock. A step is what a process does between two awaits.

### ControlServer, ControlRead

A client writes a script of frames without waiting. The service reserves bytes, queues whole
bodies, answers one at a time per connection. In `ControlRead` one client pages or follows
while reducers write and the owner may change; a read takes its cut in one snapshot and
answers later.

### Installation, InstalledHandle

`Installation` has installers, the unit manager, the keeper, the supervisor and clients, each
of which may die between any two steps. `InstalledHandle` is the queue of a held selection
with jobs and transports beside it; `ok` of an operation is what its caller sees.

### ArtifactStore

Every system call is a step. A loss of power leaves each name as it was when the directory
was last synced or as it became since, and takes the bytes of a file that was not synced.

### Generation, SourceCapture

The tree of a generation is a directory, a file of two chunks and a link; a worker writes
beside the walk. A capture walks twice and keeps what it passed open; an editor acts between
any two looks. Every change gives a new stamp, which stands for times, sizes and bytes.

### ProviderStream

A provider has a message to say in one of four protocols; the relay may lose, repeat, swap
or insert one record, and the connection may end or be aborted anywhere.

## Runs

| run | bounds | shows |
|---|---|---|
| `tx_one` | 1 process, 2 files, 2 edits, 1 validator | `OutcomeMatchesFiles`: complete applies (all of the plan in the files), clean aborts, kept snapshots, agreeing reasons; `RecoverySettles`: after a recovery the progress file, `state.json` and the files agree (`ApplySettled`) |
| `tx_two` | 2 processes, 1 validator, no files, no stale saves | `OutcomeIsRecorded`, `RecordsStay`: the audit comes first and stays; `ApprovedIsCovered`; `OperationEnds` under fairness |
| `tx_stale_session` | 2 processes, stale saves | violation of `RecordsStay` (finding 1) |
| `lock_serial` | 4 calls, no faults | `Serializes`: PathLock implements Exclusion |
| `lock_faults` | 3 calls, all faults | `NoneLeftBehind`; `CallEnds` under fairness |
| `lock_stale` | 3 calls, crashes only | violation of `OneInside` (finding 2) |
| `turn` | turns of 3 rounds, or 2 turns of 1 | `SessionIsReplayable`, `TurnLeavesNothing`, `NothingStartsAfterCancel`; `TurnEnds` under fairness |
| `turn_count` | 1 turn | violation of `TurnsAreCounted` (finding 3) |
| `rpc` | 2 runs, 1 query | `StreamIsOrdered`, `FailureIsReported`, `ClosedRunsStop`; `EveryRunEnds` under fairness |
| `supervisor` | 2 Runs under one owner, or 1 Run with a fault and a successor | `EffectsAreCharged`, `ScopesAreOwned`, `NoEffectAfterStop`, `ResultIsKept`; `RunEnds` under fairness |
| `state` | kernel: a model call, a read, an edit, 2 launches, 2 generations, 2 owners, 2 attempts, 1 model token, 2 tool calls; admission: 2 handlers, 3 calls, 2 owners, 1 fault; waits: 2 handlers, batches of 2; scope: 1 invocation, 2 controllers, 2 owners, 1 fault; artifacts: 3 publications, 2 attempts, 1 fault | `OneWriter`, `SealedIsAccounted`, `TerminalIsQuiet`, `RecoveryAccepts`; `AdmissionAgrees`; `WaitsReopen`; `WorkersAreConfined`; `ContentIsWhole` (artifacts) |
| `parts` | see the instances of `MCParts` | `CutsAreWhole` (compaction, provider streams), `FilesAgree` and `NothingIsDropped` (session files), `SecretsAreKnown` (credentials, platform tasks, broker), `OneStateOwner`, `ControlIsExact` (service, reads), `InstallIsContained` (installation, handle), `TreesAreExact` (generations, captures) |

Why the bounds are enough to be interesting. Two files are needed for a partly
written workspace, two edits for a diff that is older than its overlay; two
processes reach every race on one transaction, since the locks admit one and the
other waits; three waiters are needed for a stale removal that hits a fresh lock, a
fourth adds a waiter behind it. Two rounds show a repeated action and its limit,
three a limit reached after another round. Six records hold two nested transactions
with a call beside them. Two launches and generations are the lost worker and its
replacement; two owners are the dead one and its successor; one model token lets a
refunded call be retried and an unknown one hit the limit, two tool calls let an edit
follow a read and its repetition hit the limit; one inspection reaches the
exhausted state that eight reach in the code. Three credential processes are two writers
and a sweeper; three publications are a dead one and two that recover what it left; three
sessions are a fork of a fork; two edits are an edit and its undoing under a walk.

Larger instances were checked once and are not kept as runs: the kernel with two model
tokens and one tool call (1.76 million states); `WorkerScope` with two invocations, and
with three controllers and owners (5.8 million); `ControlRead` with a longer session (12.9
million); `ControlServer` with an unknown frame; `Installation` with three faults;
`SourceCapture` with three edits (3.4 million).

Deadlock checking is off where the system may stop: locks, turns, servers, Runs and all
parts of `state` and `parts` end.

### Fairness

- `TxProtocol`: a process inside an operation takes its next step, and one that waits
  for a lock gets it or times out. Node runs the continuation of every await, and
  `withPathLock` throws after its timeout. Nothing is assumed of starting an
  operation, of crashing or of failing.
- `PathLock`: weak fairness of a call's steps and strong fairness of the timeout of
  a waiter: the clock passes `LOCK_TIMEOUT_MS` however often the waiter looks in
  between.
- `TurnRunner`: weak fairness of the turn's steps (awaited promises settle: model and
  tool calls have timeouts or end by the signal; an approver answers).
- `HeadlessRpc`: weak fairness of query answers, run steps and shutdown.
- `Supervisor`: weak fairness of the lane (every await of it settles, the deadline of the
  transport included), of admission and retention, of the maintenance timer and of a Run's
  deadline: the clock reaches it. Nothing is assumed of cancellation, shutdown, death, a
  successor or a lapse of a lease.
- the parts of `state` and `parts`: none. They are checked for safety only: several states of
  the run kernel are ends by design or by omission (see below), and the others end when
  their clients do.

## Proofs

Each theorem holds for every value of the constants that its module's assumptions (or, where
named, its hypotheses) allow.

`TxProtocolProofs`, from `LockAssumption`, `TurnsAssumption` and `BoundAssumption`:

- `TypeCorrect`: every file and every local keeps its type.
- `Covered`: no approved, applied or partly applied transaction has an uncovered
  blocking failure. `ApprovedIsCovered` is not inductive: a validator's write must be
  excluded while an approver is between its look and its write. The strengthening is
  `LocksHeld` (a process at a holder's label is the value of the lock), `StageInv` (which
  state a process at each label may rely on) and `CoverInv`.
- `AuditFirst` and `AuditStays`, for `StaleSaves = FALSE`: `state.json` never shows an
  outcome that the session has no record of, and records stay. Needs `MemFresh` (who
  holds the session lock has the session as it is on disk) and `RecordInv` (a process
  past its session save has its record).
- `OutcomeAlwaysMatches` and `RecoveryAlwaysSettles`, under `Alone` (one process, which dies
  at any step and is started again, as in `tx_one`): the workspace is what the outcome says,
  and a recovery settles. The properties speak of rest, the steps in between need what each
  has left behind: `PhaseInv` (which transaction state and which files go with each phase of
  the apply), `TraceInv` (the session's records and the abort's progress), `PlantedInv` and
  `OutcomeWritten` (what the files recorded as written hold), and by label `ApplySteps`,
  `AbortSteps` and `RecoverSteps`. `Alone` is what they are about: an abort of
  a transaction that another process applied meanwhile records both outcomes (see below).

`PathLockProofs`, from `OwnerAssumption` and `FaultAssumption`:

- `Excludes` and `Implements`, when no lease runs out (`LeasesHold`): callbacks do not overlap,
  and every step is a step of `Exclusion` or a stutter. The invariant is `OneKeeper` (the
  directory exists exactly while one call keeps it), `OwnToken`, `Young` and `OwnRemoval` (only
  the keeper removes). Without `LeasesHold` the theorems are false (finding 2).
- `PathIsFreed`, without `LeasesHold`: however calls remove each other's directories, the last
  one leaves none. The invariant is `SomeoneClears`: a directory with an owner file has that
  call still to remove it, one without has some call about to fill or to remove it, or a call
  has died.

`HeadlessRpcProofs`, from `BoundsAssumption`:

- `RpcTypeCorrect` and `NoRunUnheard`, from `TypeOK /\ ClosedRunsStop`, which is inductive:
  `Write` is the only place where the transport closes and it aborts the active run.
- `StreamOrdered` and `FailuresReported`, from `StreamInv`: messages are about accepted runs and
  an end about a finished one (`RunsAgree`), the end comes last (`EndIsLast`), and what should
  have been written over a working transport was (`Answered`, `EndSeen`, `Reported`).

`TurnRunnerProofs`, from `BoundsAssumption`: `SessionAlwaysReplayable`, `TurnAlwaysCleansUp` and
`CancelIsSeen`. A session may be replayed only if each record follows the one before, and whether
the next append keeps that depends on where the turn is, so `TurnInv` ties each place to the
record appended last (`SessionInv`); it also says that each produced result is stored once
(`StoredInv`), what a turn that ended early has left (`EarlyInv`), and in which state each
place has its transaction (`TxInv`). None of these exempts a failing save: the object is then
one record ahead of the file (`Ahead`), the last result is either there or lost with its call at
the end of the file (`Kept`, `Lost`), and the reset's save may still bring it. What is exempt
is said in the property: a failing reset leaves the file of an early turn as it was written last, a
failing transaction call leaves the transaction where it was, and only a transaction call that
fails in the finally block leaves one staging (the reset is then skipped). `NothingStartsAfterCancel` is an
action property; that a cancelled turn adds no record rests on `StoredInv`, because a
`mutateSession` after a failed save takes the object back to the file.

`SupervisorProofs`, from `SupervisorAssumption` (the root holds finitely many Runs):
`EffectsAlwaysCharged`, `ScopesAlwaysOwned`, `EffectsRespectStops` and `ResultsAreStored`. A step
of the lane relies on what an earlier step checked, so `SupervisorInv` says for each place of
the lane what it has left of the Run it drives (`PlaceInv`), and beside it: only the frontier
can have an effect (`FrontierInv`, `SentInv`, `ToolInv`), one Run holds the worker slot
(`SlotInv`), an admission that has begun is of a Run without a row (`AdmissionInv`), and an
owner that is gone holds nothing (`LaneHasTask`). `FlagsOK` and `AdmissionInv` are what the
first attempt lacked: without them a state in which the lane drives a Run that is being
admitted is a counterexample to induction.

`RunKernelProofs`, from `KernelAssumption`, for any operations, ceilings and numbers of
launches, generations, attempts and owners:

- `OneWriterAlways`, from `WriterInv`: one launch that is not retired, the Run running exactly
  with its activated launch, and each phase of a launch tied to that of its generation and to
  the epoch, which only grows.
- `JournalAlwaysValid`, from `JournalInv`: operations are attempted in order and only a model
  call again. `SealedAlwaysAccounted` adds `Accounted`: every reducer that seals has seen all
  edits of its epoch completed, and none of an old epoch becomes open again.
- `TerminalStaysQuiet`, from `EndsQuiet`: only `CommitTerminalStop` and a stopped completion of a
  probe end a Run, and both ask that every attempt be `Closable`.

For `RecoveryClosure` the same module has `RecoveryAlwaysAccepts` and `RowsAlwaysTyped`: what the
reducers write is what the validators of the next start accept. `RecoveryInv` adds
`LinkInv` (a launch and its generation, and which launch gave a generation up), `HistoryInv`
(which attempts may be open, failed after a claim or rolled back), `ProbeInv`, `Resolved`
(what an ended Run may leave) and `BudgetInv`: what is reserved and consumed is the number of
attempts that the journal says reserve and consume, and the sum is within the ceiling. The
budget is bounded only together with that count: a refund is never below zero because the
attempt it is for is one of those counted.

`AdmissionProofs`, with `AdmissionConstants` as a hypothesis (finitely many requests, the two
methods, a capacity that is a number): `AnswersAlwaysAgree`, `RunsAlwaysSourced` and
`CapturesAlwaysOwned`, together `AdmissionAgrees` (`AdmissionAlwaysAgrees`). `Inv`
says that each key has one task and the task one leader (`TaskInv`), so that a leader between
two awaits finds the attempt of its key as it left it (`StepInv`); that the rows of sources
decode and their request ids differ (`SourceInv`); and that what an id is bound to follows
from its key: the response of the admitted row or, without one, that of the refused source
(`BoundInv`).

`SessionFilesProofs`, from `SessionAssumption` (bounds that are numbers, room for
one recent session, no process called "free"): `FilesAlwaysAgree` and `NothingIsEverDropped`.
Whether a name has its file is decided several steps before the name is written, so `FilesInv`
says of each process what the call it is in has secured (`OwnInv`): `SaveOK` which locks it holds
and that a session is on disk before `state.json` is read for it; `Mutates` that a mutated
session still has every checkpoint of the file, which stays as it was read; `PlanOK`, `SeedOK`
and `RestoreOK` that progress comes before an approval and the safety checkpoint before a
restore. Three things beside it make that inductive. `Sound` orders the checkpoints of a session
by their records, or a fork up to one could lose the records of an earlier one. `UniqueInv`: ids
are drawn once, so no other call makes the file that `ensureSession` is about to make under
another lock than the session's. The id of a legacy session is the exception, being its own:
`LegacyInv` says that until the workspace is recorded nobody works with that session, nothing else
is written and the file, when it is there, is what the legacy session becomes, so that a second
attempt after a failure writes what it finds. And the entries of `recentSessions` differ (`Recent`), which
`Recording` shows of `recordWorkspaceSession`: the filter drops one entry, and the cut at the
end only what the limit does not allow. `FilesInv` was checked by TLC before it was proved.

Three changes of the models came from the proofs. `CASE` chooses any arm that is true, so an
ordered chain of conditions cannot be reasoned about as one: it is written IF ... ELSE IF in
`Supervisor`, `StateOwner`, `ControlRead`, `CredentialAuthority`, `ProviderStream` and
`SourceCapture`. `TurnRunner` counts the stored results as the cardinality of their
positions (`ToolsSince`). `SessionFiles` removes the one older entry of a recent session by its
index (`dropped`) where it filtered the sequence.

Only model-checked:

- the liveness properties `OperationEnds`, `CallEnds`, `TurnEnds`, `EveryRunEnds` and `RunEnds`:
  temporal reasoning under fairness, and ENABLED, are out of the prover's reach;
- the part of `CutsAreWhole` about `Compaction`: what a recursion over the spans computes can
  only be proved by induction over them;
- `WaitsReopen`, `WorkersAreConfined`, `ContentIsWhole` and the properties of `MCParts` (the
  other part of `CutsAreWhole`, `SecretsAreKnown`, `OneStateOwner`, `ControlIsExact`,
  `InstallIsContained`, `TreesAreExact`): their components have no proofs yet. The properties of
  `MCState` and `MCParts` are conjunctions over the parts that run; the theorem about admission
  states the component's own `AdmissionAgrees`, which the one of `MCState` guards by the part.

## Findings

1. `tx_stale_session`: a turn that loaded the session before another process applied or
   aborted saves its own copy over the new record (`src/session/store.ts:788`).
2. `lock_stale`: two waiters that both found a dead owner's lock stale both get it; the
   slower one removes the fresh directory of the faster (`src/lib/path-lock.ts:140`).
3. `turn_count`: the turn number counted up in memory is lost when the checkpoint
   replaces the object by the file (`src/session/store.ts:818`).

## Differences between code and documents met while modelling

They are modelled as the code has them. Design documents are under
`docs/superpowers/specs/`: "tx design" is
`2026-05-02-cliq-transactional-workspace-runtime-design.md`, "headless design" is
`2026-05-03-phase4-headless-runtime-interfaces-design.md`.

- `abort.ts:94`: an abort of a transaction that was applied meanwhile records both
  outcomes (tx design :709 has one); recovery of such a transaction is not idempotent
  (`recovery.ts:235`, tx design :1218).
- `abort.ts:219`: `abort-progress.json` is written under a lock taken again, without a new
  look at `apply-progress.json` (tx design :1219).
- `tx-runner.ts:82`: edits go into the overlay of a finalized transaction (tx design :226).
- `apply.ts:162`: a retried apply deletes the progress file that `abort.ts:191` needs to
  restore a partial one.
- `path-lock.ts:136`: a waiter that finds no owner file judges the lock by the directory's
  time, which heartbeats do not renew.
- `tx-runner.ts:83`: a turn takes over any active transaction, also a conflicting one.
- `tx-runner.ts:232`: a turn cancelled while its validators run still applies (tx design
  :935).
- `runner.ts:491`: a cancellation can be reported twice.
- `headless/run.ts:456` accepts manual-only with per-turn, which `config.ts:443` refuses.
- `headless/run.ts:330`: a run cancelled early still resolves and saves its session
  (headless design :634); `run.ts:535` reports an earlier warning in place of the error that
  ended the run (`run.ts:520`).
- `coordinator.abortTx` records "user-abort" for a failed validator too (tx design :1374);
  `openTx` overwrites the session's active transaction (tx design :1166).
- `cliq compact create` (`cli.ts:2051`) may split a call from its result; the automatic
  compaction does not.
- Kernel: a preparing launch of a dead owner, or one whose source checkpoint is no longer
  the latest, makes `readRecoveryClosure` fail and with it most reducers; a generation
  registered without a launch has no way to be retired and blocks the terminal stop; a
  reading tool of unknown effect has no closing path; an exhausted inspection has no
  further path in these reducers; a settlement does not compare consumed with reserved,
  only its decoder does (`src/state/decoders.ts:1075`).

Observations about the durable runtime, met in the traces of the models above. No document
says otherwise, or the document leaves it open; each is modelled as the code has it.

- Recovery: when a Run was stopped for its budget or for a model failure and its worker is
  then lost, `beginWorkerRecovery` sets `waitingReason`, after which the readers of the stop
  cause return nothing (`resource-stop.ts:30`, `model-failure.ts:22`,
  `credential-redemption-failure.ts:120`), `readAgentStop` throws and so does every later
  `readRecoveryClosure`: the Run does not end and cannot be cancelled. The comment at
  `resource-stop.ts:32` wants the proof to remain true while the Run drains. `Recoverable`
  excludes these Runs.
- Recovery: a model attempt claimed by an owner that died can only be closed as unknown, under
  its successor; a Run with an abandoned edit is never closable.
- Admission: a request id that is used at once with other bytes makes the retirement of a
  capture throw; its row stays and blocks the workspace and the release of the owner until
  the process ends (`source-inspection-owner.ts:393`). A death between the making of the
  staging directory (`source-staging.c:241`) and its row makes every retry of the key fail.
- Waits: a prepared attempt of an older lease epoch cannot be claimed and must expire.
- Worker scopes: `stop_scope` of a scope whose processes were never identified returns before
  it kills the group; a partly written birth record is refused for good; an edit's truncation
  and write are two steps.
- Scheduler: after a failed close the gate opens again but the timer is not armed again; a
  response whose reader throws leaves its claim without an owner until the deadline.
- State owner: a genesis that dies leaves a content store that is not empty, which every later
  opening refuses; an opening that fails after its row was committed leaves the row active
  until the process ends; a release under a fence that still runs ahead is dated after it.
- Control: when the socket's name is replaced, the listener's failure is only reported and the
  supervisor goes on without one. No writer forks a kernel session or prunes run events yet,
  though the readers handle both. A checkpoint of the same millisecond with a smaller
  identifier than a page's cursor is not paged.
- Installation: `keeper.ready` is never removed, so a stale locator satisfies the client and the
  supervisor starts before its keeper (the unit restarts it); an installation that dies after
  its `mkdir`, or between the creation and the write of a unit file, is refused from then on.
- Content store: publisher A has linked its file, B's recovery unlinks A's temporary name, A
  finds it gone and returns without syncing (`cas.ts:373`); a loss of power before B's own
  sync brings the name back, and a content of two links is refused by every reader until it
  is published again. Temporaries of publishers that died before their link stay.
- Generations: a cursor looks again only at the directories it is still in; one descriptor that
  does not close makes every later operation on generations refuse.
- Capture: the bytes of a directory that is swapped into a selected path between the walks
  are read and stored although the projection fails; an edit of an excluded file fails it, an
  edit inside an excluded directory does not.
- Providers: a lost or repeated fragment of Anthropic's stream and any lost record of the chat
  and Ollama streams goes unnoticed; the Responses stream detects all of them. A chat response
  cut between its finish reason and `[DONE]` is refused though its content is complete.
- Broker and platform tasks: a call that finds the deadline passed leaves the closing to the
  timer; a guard that could not be made keeps its binding; the item is not read again between
  the connection and the release; a create or delete whose answer is lost may have happened.

## Not modelled, and the plan

Left out for good:

- pure functions and data: decoders, digests and the kernel's types, policy and shell
  grammar, model requests and retry tables, prompts and instructions. The models take
  their verdicts as choices; a reference definition of them would repeat them;
- input and output without state of its own: hooks, validators, tools, the handoff report, the
  TUI's rendering, the CLI's arguments, the sandbox's probes and its runtime bundle;
- descriptor and identity checks of the native code, beyond whether they accept;
- scripts and campaigns that drive the installed runtime on a host: they are tests.

What each part marked "partly" in `PROJECT.json` leaves out is in its note; of what changes
state these are MCP servers, child Runs, grants and context compaction in the kernel, the
private Git metadata and the archive of a quarantined generation, and transactions of
other sessions.

What is left to do is to prove more. Eight modules hold theorems, so a further component
shares a module with another, as an instance of its own variables.

1. `RunWaits`: an answered batch opens once and a cut one is reopened (`WaitsReopen`), which needs
   lemmas about the sequence of the batch's items first.
2. `StateOwner`, `WorkerScope` and `ModelBroker`: one owner of a root, no process outside its
   scope, an honest refund.
3. `NamedIsWhole` of `ArtifactStore`: a short invariant over any number of publications.
4. The conjunctions of `MCState` and `MCParts` themselves, from the theorems of their parts.
