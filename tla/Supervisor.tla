---------------------------- MODULE Supervisor ----------------------------
(* The installed scheduler of StateStore (state/store.ts) with the execution *)
(* scopes it drives (state/run-execution.ts) and the model broker: one lane  *)
(* that takes a Run from admission to its end, interleaved with admissions,  *)
(* cancellations, the maintenance timer, a regressing clock, shutdown, the   *)
(* death of the process and its successor.  The reducers (RunKernel) are one *)
(* step each; a step of the lane is what happens between two awaits.         *)
EXTENDS Naturals, Sequences, FiniteSets, SequencesExt

CONSTANTS
    Run,       \* Runs that may be submitted
    MaxTurn,   \* model calls of one Run
    MaxFault,  \* storage and native failures
    MaxEpoch   \* state owners, one after the other

\* A database holds finitely many Runs.
ASSUME SupervisorAssumption ==
    IsFiniteSet(Run) /\ MaxTurn \in Nat /\ MaxFault \in Nat /\ MaxEpoch \in Nat

VARIABLES
    run,      \* rows of runs: status, stop intent, next step, turns begun
    worker,   \* the launch of a Run: none, preparing, active, fenced, quarantined
    model,    \* the model attempt at the frontier: its phase and claiming epoch
    tool,     \* the tool call at the frontier: none, prepared, claimed, unknown
    net,      \* Runs whose claimed model request reached the network
    done,     \* Run -> effects of its frontier: bodies sent, tools released
    owner,    \* the state owner: its epoch, and "active", "released" or "dead"
    tasks,    \* installedRunTasks in the order of installedQueue
    lane,     \* where driveInstalledRun of the first task is
    trans,    \* modelTransports: "none", "preparing", "open" or "closed"
    kept,     \* what is retained to be settled: "closure", "completion", "tool"
    owns,     \* Runs whose execution scope holds a physical worker
    alive,    \* ... that has not been revoked
    shut,     \* Runs whose execution scope has been closed
    adm,      \* installedAdmissionTasks: Run -> "none", "begun" or "admitted"
    flags,    \* closing, schedulerFailure, the maintenance timer
    notes,    \* installedRunFailures and installedPreparationRetries
    clock     \* deadlines and leases that ran out, and the faults so far

rows == <<run, worker, model, tool>>
world == <<net, done, owner>>
mem == <<tasks, lane, trans, kept, owns, alive, shut, adm, flags, notes>>
vars == <<rows, world, mem, clock>>

NoModel == [phase |-> "none", epoch |-> 0]
NoRun == [status |-> "absent", stop |-> FALSE, next |-> "agent", turn |-> 0]
Up == owner.state = "active"

\* supportsInstalledRuns
supports == Up /\ flags.timer # "unstarted" /\ ~flags.failed /\ ~flags.closing
live(r) == run[r].status \in {"queued", "running", "waiting"}

\* installedWorkerSlotAvailable: launches that are not retired, of other Runs.
\* Mutant: only workers that run take the slot.
installedWorkerSlotAvailable_Active(r) == \A o \in Run \ {r} : worker[o] # "active"
installedWorkerSlotAvailable(r) == \A o \in Run \ {r} : worker[o] \notin {"preparing", "active", "fenced"}

\* selectInstalledModelProgress of the attempt at the frontier.
selectInstalledModelProgress(m) ==
    CASE m.phase = "none" -> "prepare" [] m.phase = "unusable" -> "stop"
      [] m.phase = "failed" -> "retry" [] OTHER -> "retain"

\* scheduleInstalledRun, as a function of the tasks.
scheduled(ts, r) == IF supports /\ ~Contains(ts, r) THEN Append(ts, r) ELSE ts

Cold == /\ tasks' = <<>> /\ lane' = "idle"
        /\ trans' = [r \in Run |-> "none"] /\ kept' = [r \in Run |-> "none"]
        /\ owns' = {} /\ alive' = {} /\ shut' = {}
        /\ adm' = [r \in Run |-> "none"]
        /\ notes' = [failed |-> {}, hint |-> {}]

\* Runs of earlier owners may be over already.
Init ==
    /\ run \in [Run -> {NoRun, [NoRun EXCEPT !.status = "ended"]}]
    /\ worker = [r \in Run |-> "none"]
    /\ model = [r \in Run |-> NoModel]
    /\ tool = [r \in Run |-> "none"]
    /\ net = {} /\ done = [r \in Run |-> 0]
    /\ owner \in [epoch : 0 .. MaxEpoch - 1, state : {"released"}]
    /\ tasks = <<>> /\ lane = "idle"
    /\ trans = [r \in Run |-> "none"] /\ kept = [r \in Run |-> "none"]
    /\ owns = {} /\ alive = {} /\ shut = {}
    /\ adm = [r \in Run |-> "none"]
    /\ flags = [closing |-> FALSE, failed |-> FALSE, timer |-> "unstarted"]
    /\ notes = [failed |-> {}, hint |-> {}]
    /\ clock \in [late : {{}}, lapsed : {{}}, faults : 0 .. MaxFault]

\* ---- opening ---------------------------------------------------------------

\* StateStore.open: the successor takes the lock of an owner that is gone and
\* retires preparations nobody will finish; startInstalledRuns then retains every
\* Run that is not terminal and schedules it.
open ==
    /\ ~Up /\ owner.epoch < MaxEpoch
    /\ owner' = [epoch |-> owner.epoch + 1, state |-> "active"]
    /\ worker' = [r \in Run |-> IF worker[r] = "preparing" THEN "none" ELSE worker[r]]
    /\ flags' = [closing |-> FALSE, failed |-> FALSE, timer |-> "unstarted"]
    /\ Cold
    /\ UNCHANGED <<run, model, tool, net, done, clock>>

startInstalledRuns ==
    /\ Up /\ flags.timer = "unstarted" /\ ~flags.closing
    /\ flags' = [flags EXCEPT !.timer = "armed"]
    /\ tasks' = SetToSeq({r \in Run : live(r)})
    /\ UNCHANGED <<rows, world, lane, trans, kept, owns, alive, shut, adm, notes, clock>>

\* The process dies: rows stay, what it held is gone.
Die ==
    /\ Up /\ owner.epoch < MaxEpoch
    /\ owner' = [owner EXCEPT !.state = "dead"]
    /\ Cold
    /\ UNCHANGED <<rows, net, done, flags, clock>>

\* ---- admission -------------------------------------------------------------

Admission(r, stage) ==
    /\ adm' = [adm EXCEPT ![r] = stage]
    /\ UNCHANGED <<worker, model, tool, world, lane, trans, kept, owns, alive, shut, flags, notes, clock>>

\* ownInstalledAdmission: the handler is registered before its first await.
submitInstalledRun(r) ==
    /\ supports /\ run[r].status = "absent" /\ adm[r] = "none"
    /\ Admission(r, "begun") /\ UNCHANGED <<run, tasks>>

\* submitInstalledRunOwned commits the row, unless shutdown aborted it.
admitInstalledRun(r) ==
    /\ Up /\ adm[r] = "begun"
    /\ IF flags.closing THEN Admission(r, "none") /\ UNCHANGED run
       ELSE Admission(r, "admitted") /\ run' = [run EXCEPT ![r].status = "queued"]
    /\ UNCHANGED tasks

retainInstalledAgent(r) ==
    /\ Up /\ adm[r] = "admitted"
    /\ Admission(r, "none") /\ tasks' = scheduled(tasks, r) /\ UNCHANGED run

\* ---- the lane --------------------------------------------------------------

At(pc) == Up /\ tasks # <<>> /\ lane = pc
cur == Head(tasks)
Fault == clock.faults < MaxFault /\ clock' = [clock EXCEPT !.faults = @ + 1]
Go(pc) == lane' = pc /\ UNCHANGED <<tasks, shut, notes>>
Calm == UNCHANGED <<clock, flags, adm, owner>>

\* The task ends; its error is remembered for this Run only.
Ends(failed) ==
    /\ lane' = "idle" /\ tasks' = Tail(tasks)
    /\ notes' = [notes EXCEPT !.failed = IF failed THEN @ \cup {cur} ELSE @]
    /\ UNCHANGED shut

\* retireInstalledTerminalRun: the scope of a terminal Run is closed and what
\* was noted of it is dropped.
retireInstalledTerminalRun ==
    /\ lane' = "idle" /\ tasks' = Tail(tasks)
    /\ notes' = [failed |-> notes.failed \ {cur}, hint |-> notes.hint \ {cur}]
    /\ UNCHANGED shut

\* A usable scope: not closed by a shutdown that was given up.
usable(r) == r \notin shut /\ ~flags.closing

\* driveInstalledRun: what the loop does with the Run as it is now.
choice(r) ==
    LET progress == selectInstalledModelProgress(model[r])
        queued == run[r].status = "queued" IN
    IF ~supports \/ ~live(r) THEN "end"
    ELSE IF kept[r] = "tool" THEN "toolFinish"
    ELSE IF kept[r] = "closure" THEN "settleClosure"
    ELSE IF kept[r] = "completion" THEN "settle"
    ELSE IF run[r].status = "running" /\ r \notin owns THEN "fence"
    ELSE IF run[r].status = "waiting" THEN "recover"
    ELSE IF queued /\ worker[r] = "quarantined" THEN "retire"
    ELSE IF run[r].stop THEN "stop"
    ELSE IF queued /\ ~installedWorkerSlotAvailable(r) THEN "end"
    ELSE IF queued /\ (run[r].next = "tool" \/ progress \in {"prepare", "retry"}) THEN "activate"
    ELSE IF run[r].next = "tool" THEN "toolPrepare"
    ELSE IF progress = "stop" THEN "modelStop"
    ELSE IF progress = "retain" THEN "end"
    ELSE "prepare"

driveInstalledRun ==
    /\ Up /\ tasks # <<>> /\ lane \in {"idle", "drive"}
    /\ IF choice(cur) = "end" THEN Ends(FALSE) ELSE Go(choice(cur))
    /\ UNCHANGED <<rows, net, done, trans, kept, owns, alive>> /\ Calm

\* An operation of a scope fails: ownOperation fences the worker it activated
\* and joins what it holds.
Lost(r) ==
    /\ worker' = [worker EXCEPT ![r] = IF @ = "active" THEN "fenced" ELSE IF @ = "preparing" THEN "none" ELSE @]
    /\ run' = [run EXCEPT ![r].status = IF worker[r] = "active" THEN "waiting" ELSE @]
    /\ owns' = owns \ {r} /\ alive' = alive \ {r}

ownOperation ==
    /\ Up /\ tasks # <<>>
    /\ lane \in {"fence", "recover", "retire", "activate", "activating", "toolPrepare", "toolClaim"}
    /\ \/ Fault /\ UNCHANGED <<flags, adm, owner>>
       \/ ~usable(cur) /\ Calm
       \/ run[cur].stop /\ lane \in {"activate", "activating", "toolPrepare", "toolClaim"} /\ Calm
    /\ Lost(cur) /\ Ends(TRUE)
    /\ tool' = [tool EXCEPT ![cur] = IF @ = "prepared" THEN "none" ELSE @]
    /\ UNCHANGED <<model, net, done, trans, kept>>

\* recoverWorker, first half: the worker of a predecessor is fenced.
fence ==
    /\ At("fence") /\ usable(cur)
    /\ run' = [run EXCEPT ![cur].status = "waiting"] /\ worker' = [worker EXCEPT ![cur] = "fenced"]
    /\ Go("drive") /\ UNCHANGED <<model, tool, net, done, trans, kept, owns, alive>> /\ Calm

\* What a terminal commit leaves open: nothing claimed, and an unknown model
\* request only of an owner that is dead.
closable(r) ==
    /\ model[r].phase # "claimed" /\ (model[r].phase = "unknown" => model[r].epoch < owner.epoch)
    /\ tool[r] # "claimed"

\* observeInstalledBrokerQuiescence
brokerQuiescence(r) == trans[r] = "none" /\ kept[r] # "completion"

\* ... second half: its containment is dead; the Run goes on from its
\* checkpoint, or ends when it was stopped.
recoverWorker ==
    /\ At("recover") /\ usable(cur) /\ brokerQuiescence(cur)
    /\ IF run[cur].stop
       THEN closable(cur) /\ run' = [run EXCEPT ![cur].status = "ended"] /\ worker' = [worker EXCEPT ![cur] = "none"]
       ELSE /\ cur \notin clock.late /\ model[cur].phase \notin {"prepared", "claimed"} /\ tool[cur] = "none"
            /\ run' = [run EXCEPT ![cur].status = "queued"] /\ worker' = [worker EXCEPT ![cur] = "quarantined"]
    /\ owns' = owns \ {cur} /\ alive' = alive \ {cur}
    /\ IF run[cur].stop THEN retireInstalledTerminalRun ELSE Go("drive")
    /\ UNCHANGED <<model, tool, net, done, trans, kept>> /\ Calm

\* ... or it cannot be reconciled: the task ends and the wait stays.
recoverRefused ==
    /\ At("recover")
    /\ ~(usable(cur) /\ brokerQuiescence(cur) /\
         IF run[cur].stop THEN closable(cur)
         ELSE cur \notin clock.late /\ model[cur].phase \notin {"prepared", "claimed"} /\ tool[cur] = "none")
    /\ Ends(TRUE)
    /\ UNCHANGED <<rows, net, done, trans, kept, owns, alive>> /\ Calm

\* resumeCurrentRetirement
resumeCurrentRetirement ==
    /\ At("retire") /\ usable(cur) /\ brokerQuiescence(cur)
    /\ worker' = [worker EXCEPT ![cur] = "none"]
    /\ Go("drive") /\ UNCHANGED <<run, model, tool, net, done, trans, kept, owns, alive>> /\ Calm

\* finishCurrentStop: the worker's generation is sealed and the Run ends, or the
\* stop waits for a claim to be closed.
finishCurrentStop ==
    /\ At("stop")
    /\ IF usable(cur) /\ closable(cur) /\ tool[cur] # "unknown" /\ (worker[cur] = "active" => model[cur].phase # "unknown")
       THEN /\ run' = [run EXCEPT ![cur].status = "ended"] /\ worker' = [worker EXCEPT ![cur] = "none"]
            /\ owns' = owns \ {cur} /\ alive' = alive \ {cur} /\ retireInstalledTerminalRun
       ELSE Ends(TRUE) /\ UNCHANGED <<run, worker, owns, alive>>
    /\ UNCHANGED <<model, tool, net, done, trans, kept>> /\ Calm

\* activateWorker: the preparing launch is recorded before anything is born ...
activateWorker ==
    /\ At("activate") /\ usable(cur) /\ ~run[cur].stop
    /\ worker' = [worker EXCEPT ![cur] = "preparing"]
    /\ Go("activating") /\ UNCHANGED <<run, model, tool, net, done, trans, kept, owns, alive>> /\ Calm

\* ... and the lease is activated when everything is.
activateWorkerLease ==
    /\ At("activating") /\ usable(cur) /\ ~run[cur].stop
    /\ worker' = [worker EXCEPT ![cur] = "active"] /\ run' = [run EXCEPT ![cur].status = "running"]
    /\ owns' = owns \cup {cur} /\ alive' = alive \cup {cur}
    /\ clock' = [clock EXCEPT !.lapsed = @ \ {cur}]
    /\ Go("drive") /\ UNCHANGED <<model, tool, net, done, trans, kept, flags, adm, owner>>

\* An unusable answer becomes a stop intent.
stopForModelFailure ==
    /\ At("modelStop")
    /\ run' = [run EXCEPT ![cur].stop = TRUE] /\ alive' = alive \ {cur}
    /\ Go("drive") /\ UNCHANGED <<worker, model, tool, net, done, trans, kept, owns>> /\ Calm

\* ---- a model call ----------------------------------------------------------

\* prepareModel: an attempt is reserved (another one of the same call after a
\* free failure), or the budget of the Run is exhausted
\* and it stops.
prepareModel ==
    /\ At("prepare")
    /\ IF run[cur].status # "running" \/ run[cur].stop THEN Ends(TRUE) /\ UNCHANGED <<run, model, alive>>
       ELSE IF run[cur].turn < MaxTurn \/ model[cur].phase # "none" THEN
              /\ model' = [model EXCEPT ![cur] = [phase |-> "prepared", epoch |-> 0]]
              /\ run' = [run EXCEPT ![cur].turn = IF model[cur].phase = "none" THEN @ + 1 ELSE @]
              /\ Go("transport") /\ UNCHANGED alive
       ELSE run' = [run EXCEPT ![cur].stop = TRUE] /\ alive' = alive \ {cur} /\ Go("drive") /\ UNCHANGED model
    /\ UNCHANGED <<worker, tool, net, done, trans, kept, owns>> /\ Calm

\* failPreparation: nothing was claimed; the attempt is free, and only a refused
\* native preparation leaves the hint that lets maintenance try again.  A Run that
\* is stopped is driven on, any other ends its task with the error.
failPreparation(hint, stopped) ==
    /\ model' = [model EXCEPT ![cur].phase = "failed"]
    /\ trans' = [trans EXCEPT ![cur] = "none"]
    /\ IF stopped THEN Go("drive")
       ELSE /\ lane' = "idle" /\ tasks' = Tail(tasks)
            /\ notes' = [failed |-> notes.failed \cup {cur}, hint |-> IF hint THEN notes.hint \cup {cur} ELSE notes.hint]
            /\ UNCHANGED shut
    /\ UNCHANGED <<worker, tool, net, done, kept, owns>>

\* prepareModelTransport: registered before the first await, so that a stop or a
\* shutdown can revoke it.
prepareModelTransport ==
    /\ At("transport") /\ ~flags.closing
    /\ trans' = [trans EXCEPT ![cur] = "preparing"]
    /\ Go("ready") /\ UNCHANGED <<rows, net, done, kept, owns, alive>> /\ Calm

transportReady ==
    /\ At("ready") /\ trans[cur] = "preparing"
    /\ trans' = [trans EXCEPT ![cur] = "open"]
    /\ Go("claim") /\ UNCHANGED <<rows, net, done, kept, owns, alive>> /\ Calm

\* The credential scope is busy, the native preparation fails, the transport was
\* closed meanwhile, or the credential is not authorized any more.
transportRefused ==
    /\ Up /\ tasks # <<>>
    /\ \/ lane = "transport" /\ flags.closing /\ failPreparation(FALSE, run[cur].stop) /\ UNCHANGED <<run, alive>> /\ Calm
       \/ lane = "ready" /\ trans[cur] = "closed" /\ failPreparation(FALSE, run[cur].stop) /\ UNCHANGED <<run, alive>> /\ Calm
       \/ /\ lane \in {"transport", "ready"} /\ Fault /\ UNCHANGED <<flags, adm, owner>>
          /\ \/ failPreparation(TRUE, run[cur].stop) /\ UNCHANGED <<run, alive>>
             \/ failPreparation(FALSE, TRUE) /\ run' = [run EXCEPT ![cur].stop = TRUE] /\ alive' = alive \ {cur}

dispatchable(r) ==
    /\ supports /\ run[r].status = "running" /\ ~run[r].stop
    /\ r \notin clock.late /\ r \notin clock.lapsed

\* claimInvocationDispatch: the permanent claim, after the dispatch fence.
claimInvocationDispatch ==
    /\ At("claim") /\ trans[cur] = "open" /\ dispatchable(cur)
    /\ model' = [model EXCEPT ![cur] = [phase |-> "claimed", epoch |-> owner.epoch]]
    /\ Go("connect") /\ UNCHANGED <<run, worker, tool, net, done, trans, kept, owns, alive>> /\ Calm

claimRefused ==
    /\ At("claim") /\ ~(trans[cur] = "open" /\ dispatchable(cur))
    /\ failPreparation(FALSE, run[cur].stop) /\ UNCHANGED <<run, alive>> /\ Calm

\* gate: one synchronous cut of state, lease, clock and worker, after which the
\* native call is entered at once.
\* Mutant: what was checked at the claim is good enough.
gate_Claimed(r) == trans[r] = "open"
gate(r) == trans[r] = "open" /\ dispatchable(r) /\ r \in alive /\ model[r].epoch = owner.epoch

connect ==
    /\ At("connect") /\ gate(cur)
    /\ net' = net \cup {cur}
    /\ Go("send") /\ UNCHANGED <<rows, done, trans, kept, owns, alive>> /\ Calm

releaseBody ==
    /\ At("send") /\ gate(cur)
    /\ done' = [done EXCEPT ![cur] = @ + 1]
    /\ Go("await") /\ UNCHANGED <<rows, net, trans, kept, owns, alive>> /\ Calm

\* The response is read and kept before it is settled; one that cannot be read
\* leaves the claim as it is.
response ==
    /\ At("await") /\ trans[cur] = "open"
    /\ trans' = [trans EXCEPT ![cur] = "none"]
    /\ \/ kept' = [kept EXCEPT ![cur] = "completion"] /\ Go("settle") /\ Calm
       \/ Fault /\ Ends(TRUE) /\ UNCHANGED <<kept, flags, adm, owner>>
    /\ UNCHANGED <<rows, net, done, owns, alive>>

\* The gate refuses, the peer fails or the transport was closed: the original
\* transport is kept with the claim until that is settled.
dispatchFails ==
    /\ Up /\ tasks # <<>>
    /\ \/ lane \in {"connect", "send"} /\ ~gate(cur) /\ Calm
       \/ lane = "await" /\ trans[cur] = "closed" /\ Calm
       \/ lane \in {"connect", "send", "await"} /\ Fault /\ UNCHANGED <<flags, adm, owner>>
    /\ trans' = [trans EXCEPT ![cur] = "closed"] /\ kept' = [kept EXCEPT ![cur] = "closure"]
    /\ Go("dispatchClosure") /\ UNCHANGED <<rows, net, done, owns, alive>>

\* settleInstalledModelClosure: a request that never reached the network is
\* refunded, any other is unknown and charged.
\* Mutant: a connection without a request counts as no release.
closed_NoBody(r) == [model[r] EXCEPT !.phase = IF done[r] > 0 THEN "unknown" ELSE "refunded"]
closed(r) == [model[r] EXCEPT !.phase = IF r \in net THEN "unknown" ELSE "refunded"]

\* The error of the dispatch that made it still ends the task, unless a stop is
\* what it was about; maintenance settles a kept one in the loop.
settleInstalledModelClosure ==
    /\ Up /\ tasks # <<>> /\ lane \in {"settleClosure", "dispatchClosure"}
    /\ \/ /\ model' = [model EXCEPT ![cur] = closed(cur)] /\ kept' = [kept EXCEPT ![cur] = "none"]
          /\ trans' = [trans EXCEPT ![cur] = "none"] /\ Calm
          /\ IF lane = "settleClosure" \/ (run[cur].stop /\ cur \notin net) THEN Go("drive") ELSE Ends(TRUE)
       \/ Fault /\ Ends(TRUE) /\ UNCHANGED <<model, kept, trans, flags, adm, owner>>
    /\ UNCHANGED <<run, worker, tool, net, done, owns, alive>>

\* settleInstalledModelCompletion: the answer calls a tool, is a candidate, or
\* is unusable.
\* Mutant: a completion that could not be stored is dropped.
settleInstalledModelCompletion_Drop ==
    /\ At("settle")
    /\ kept' = [kept EXCEPT ![cur] = "none"]
    /\ \/ \E p \in {"candidate", "unusable"} : model' = [model EXCEPT ![cur].phase = p] /\ Go("drive") /\ Calm /\ UNCHANGED run
       \/ Fault /\ Ends(TRUE) /\ UNCHANGED <<run, model, flags, adm, owner>>
    /\ UNCHANGED <<worker, tool, net, done, trans, owns, alive>>

completeModel(r) ==
    /\ kept' = [kept EXCEPT ![r] = "none"]
    /\ \/ /\ \E p \in {"candidate", "unusable"} : model' = [model EXCEPT ![r].phase = p]
          /\ UNCHANGED <<run, net, done>>
       \/ /\ model' = [model EXCEPT ![r] = NoModel] /\ run' = [run EXCEPT ![r].next = "tool"]
          /\ net' = net \ {r} /\ done' = [done EXCEPT ![r] = 0]

settleInstalledModelCompletion ==
    /\ At("settle")
    /\ \/ /\ completeModel(cur)
          /\ notes' = IF cur \in notes.hint THEN [failed |-> notes.failed \ {cur}, hint |-> notes.hint \ {cur}] ELSE notes
          /\ lane' = "drive" /\ UNCHANGED <<tasks, shut>> /\ Calm
       \/ Fault /\ Ends(TRUE) /\ UNCHANGED <<run, model, net, done, kept, flags, adm, owner>>
    /\ UNCHANGED <<worker, tool, trans, owns, alive>>

\* ---- a tool call -----------------------------------------------------------

\* executeCurrentTool: the worker's generation is sealed for a denied call ...
prepareTool ==
    /\ At("toolPrepare") /\ usable(cur) /\ ~run[cur].stop
    /\ \/ tool' = [tool EXCEPT ![cur] = "prepared"] /\ Go("toolClaim") /\ UNCHANGED <<run, worker, owns, alive>>
       \/ /\ run' = [run EXCEPT ![cur].next = "agent", ![cur].status = "queued"]
          /\ worker' = [worker EXCEPT ![cur] = "none"] /\ owns' = owns \ {cur} /\ alive' = alive \ {cur}
          /\ Go("drive") /\ UNCHANGED tool
    /\ UNCHANGED <<model, net, done, trans, kept>> /\ Calm

\* ... and an allowed one is claimed before its process exists.
claimTool ==
    /\ At("toolClaim") /\ usable(cur) /\ dispatchable(cur)
    /\ tool' = [tool EXCEPT ![cur] = "claimed"]
    /\ Go("toolRelease") /\ UNCHANGED <<run, worker, model, net, done, trans, kept, owns, alive>> /\ Calm

releaseTool ==
    /\ At("toolRelease") /\ dispatchable(cur) /\ cur \in alive
    /\ done' = [done EXCEPT ![cur] = @ + 1]
    /\ Go("toolAwait") /\ UNCHANGED <<rows, net, trans, kept, owns, alive>> /\ Calm

\* The result is registered before the first await that follows it; a revoked
\* worker may still have delivered one.
toolResult ==
    /\ At("toolAwait")
    /\ kept' = [kept EXCEPT ![cur] = "tool"]
    /\ Go("toolFinish") /\ UNCHANGED <<rows, net, done, trans, owns, alive>> /\ Calm

\* The producer is joined without a result: charged once, effect unknown.
toolLost ==
    /\ Up /\ tasks # <<>>
    /\ \/ lane = "toolRelease" /\ ~(dispatchable(cur) /\ cur \in alive) /\ Calm
       \/ lane = "toolAwait" /\ cur \notin alive /\ Calm
       \/ lane \in {"toolRelease", "toolAwait"} /\ Fault /\ UNCHANGED <<flags, adm, owner>>
    /\ tool' = [tool EXCEPT ![cur] = "unknown"]
    /\ Lost(cur) /\ Ends(TRUE)
    /\ UNCHANGED <<model, net, done, trans, kept>>

\* receivedTool.finish: checkpoint, observation and settlement, retried over the
\* revisions of a stop; a failed publication keeps the result and its owner.
finished(r) ==
    /\ run' = [run EXCEPT ![r].next = "agent", ![r].status = "queued"]
    /\ tool' = [tool EXCEPT ![r] = "none"] /\ worker' = [worker EXCEPT ![r] = "none"]
    /\ done' = [done EXCEPT ![r] = 0] /\ kept' = [kept EXCEPT ![r] = "none"]
    /\ owns' = owns \ {r} /\ alive' = alive \ {r}

finishTool ==
    /\ At("toolFinish")
    /\ \/ finished(cur) /\ Go("drive") /\ Calm
       \/ Fault /\ Ends(TRUE) /\ UNCHANGED <<run, tool, worker, done, kept, owns, alive, flags, adm, owner>>
    /\ UNCHANGED <<model, net, trans>>

\* ---- stop, maintenance, clock ----------------------------------------------

\* requestInstalledRunStop: the intent is committed first; the owners that are
\* loaded are revoked in the same step.
Stop(r) ==
    /\ run' = [run EXCEPT ![r].stop = TRUE]
    /\ alive' = IF run[r].status = "waiting" THEN alive ELSE alive \ {r}
    /\ trans' = [trans EXCEPT ![r] = IF @ = "none" THEN @ ELSE "closed"]

cancelInstalledRun(r) ==
    /\ Up /\ flags.timer # "unstarted" /\ live(r) /\ ~run[r].stop
    /\ Stop(r) /\ tasks' = scheduled(tasks, r)
    /\ UNCHANGED <<worker, model, tool, world, lane, kept, owns, shut, adm, flags, notes, clock>>

Maintained == Up /\ supports /\ flags.timer = "armed"

\* maintainInstalledRuns of one Run: the deadline, ...
expireRun(r) ==
    /\ Maintained /\ live(r) /\ r \in clock.late /\ ~run[r].stop
    /\ Stop(r) /\ tasks' = scheduled(tasks, r)
    /\ UNCHANGED <<worker, model, tool, world, lane, kept, owns, shut, adm, flags, notes, clock>>

\* ... the lease of an idle worker, renewed in time or fenced, ...
Operating(r) == tasks # <<>> /\ cur = r /\ lane \in {"activating", "toolPrepare", "toolClaim", "toolRelease", "toolAwait", "toolFinish"}
renewCurrentWorkerLease(r) ==
    /\ Maintained /\ r \in owns /\ r \in clock.lapsed /\ ~run[r].stop /\ run[r].status = "running"
    /\ ~Operating(r) /\ kept[r] # "tool"
    /\ run' = [run EXCEPT ![r].status = "waiting"] /\ worker' = [worker EXCEPT ![r] = "fenced"]
    /\ trans' = [trans EXCEPT ![r] = IF @ = "none" THEN @ ELSE "closed"]
    /\ UNCHANGED <<model, tool, world, tasks, lane, kept, owns, alive, shut, adm, flags, notes, clock>>

\* ... and what is worth another drive.
\* Mutant: a stopped Run is left to the task that was there when it was stopped.
Wakes_NoStop(r) ==
    \/ kept[r] = "tool" \/ run[r].status = "waiting"
    \/ run[r].status = "queued" /\ r \notin notes.failed
    \/ run[r].status = "running" /\ run[r].next = "agent" /\ kept[r] \in {"closure", "completion"}
    \/ run[r].status = "running" /\ r \in notes.hint /\ model[r].phase = "failed"
Wakes(r) ==
    \/ kept[r] = "tool" \/ run[r].stop \/ run[r].status = "waiting"
    \/ run[r].status = "queued" /\ r \notin notes.failed
    \/ run[r].status = "running" /\ run[r].next = "agent" /\ kept[r] \in {"closure", "completion"}
    \/ run[r].status = "running" /\ r \in notes.hint /\ model[r].phase = "failed"

maintainInstalledRuns(r) ==
    /\ Maintained /\ live(r) /\ ~Contains(tasks, r) /\ Wakes(r)
    /\ tasks' = scheduled(tasks, r)
    /\ UNCHANGED <<rows, world, lane, trans, kept, owns, alive, shut, adm, flags, notes, clock>>

\* The canonical clock went back: everything that produces is revoked, and the
\* scheduler stays down until a successor.
fenceTime ==
    /\ Maintained /\ clock.faults < MaxFault
    /\ clock' = [clock EXCEPT !.faults = @ + 1]
    /\ flags' = [flags EXCEPT !.failed = TRUE]
    /\ trans' = [r \in Run |-> IF trans[r] = "none" THEN "none" ELSE "closed"]
    /\ alive' = {}
    /\ UNCHANGED <<rows, world, tasks, lane, kept, owns, shut, adm, notes>>

DeadlinePasses(r) ==
    /\ live(r) /\ ~run[r].stop /\ r \notin clock.late /\ clock' = [clock EXCEPT !.late = @ \cup {r}]
    /\ UNCHANGED <<rows, world, mem>>

LeaseLapses(r) ==
    /\ worker[r] = "active" /\ r \notin clock.lapsed /\ clock.faults < MaxFault
    /\ clock' = [clock EXCEPT !.lapsed = @ \cup {r}, !.faults = @ + 1]
    /\ UNCHANGED <<rows, world, mem>>

\* ---- shutdown --------------------------------------------------------------

\* beginClose: the gate closes, producers are revoked, idle workers stay for the
\* settlement of their model call.
beginClose ==
    /\ Up /\ ~flags.closing
    /\ flags' = [flags EXCEPT !.closing = TRUE, !.timer = IF @ = "armed" THEN "off" ELSE @]
    /\ trans' = [r \in Run |-> IF trans[r] = "none" THEN "none" ELSE "closed"]
    /\ alive' = {r \in alive : ~Operating(r) /\ kept[r] # "tool"}
    /\ shut' = shut \cup owns
    /\ UNCHANGED <<rows, world, tasks, lane, kept, owns, adm, notes, clock>>

\* close joins admissions, transports and driver tasks ...
joined == tasks = <<>> /\ (\A r \in Run : adm[r] = "none")

\* ... settles what is still kept ...
closeSettles(r) ==
    /\ Up /\ flags.closing /\ joined /\ kept[r] # "none"
    /\ \/ kept[r] = "closure" /\ model' = [model EXCEPT ![r] = closed(r)]
          /\ kept' = [kept EXCEPT ![r] = "none"] /\ trans' = [trans EXCEPT ![r] = "none"]
          /\ UNCHANGED <<run, tool, worker, net, done, owns, alive>>
       \/ kept[r] = "completion" /\ completeModel(r) /\ UNCHANGED <<tool, worker, owns, alive, trans>>
       \/ kept[r] = "tool" /\ finished(r) /\ UNCHANGED <<model, net, trans>>
    /\ UNCHANGED <<owner, tasks, lane, shut, adm, flags, notes, clock>>

\* ... fences the workers of its scopes ...
closeScope(r) ==
    /\ Up /\ flags.closing /\ joined /\ kept[r] = "none" /\ r \in owns
    /\ Lost(r)
    /\ UNCHANGED <<model, tool, world, tasks, lane, trans, kept, shut, adm, flags, notes, clock>>

\* ... and only then releases the state owner.
gracefullyReleaseStateOwner ==
    /\ Up /\ flags.closing /\ joined /\ owns = {}
    /\ \A r \in Run : kept[r] = "none" /\ trans[r] = "none"
    /\ owner' = [owner EXCEPT !.state = "released"]
    /\ UNCHANGED <<rows, net, done, mem, clock>>

\* A join or settlement fails: the owner is kept and the gate opens again, but
\* neither the closed scopes nor the timer come back.
closeFails ==
    /\ flags.closing /\ Up /\ joined /\ Fault
    /\ flags' = [flags EXCEPT !.closing = FALSE]
    /\ UNCHANGED <<rows, world, tasks, lane, trans, kept, owns, alive, shut, adm, notes>>

Over == ~Up /\ owner.epoch = MaxEpoch /\ UNCHANGED vars

Lane == \/ driveInstalledRun \/ ownOperation \/ fence \/ recoverWorker \/ recoverRefused
        \/ resumeCurrentRetirement \/ finishCurrentStop \/ activateWorker \/ activateWorkerLease
        \/ stopForModelFailure \/ prepareModel \/ prepareModelTransport \/ transportReady
        \/ transportRefused \/ claimInvocationDispatch \/ claimRefused \/ connect \/ releaseBody
        \/ response \/ dispatchFails \/ settleInstalledModelClosure \/ settleInstalledModelCompletion
        \/ prepareTool \/ claimTool \/ releaseTool \/ toolResult \/ toolLost \/ finishTool

Next ==
    \/ open \/ startInstalledRuns \/ Die \/ Lane \/ fenceTime
    \/ beginClose \/ gracefullyReleaseStateOwner \/ closeFails \/ Over
    \/ \E r \in Run :
          \/ submitInstalledRun(r) \/ admitInstalledRun(r) \/ retainInstalledAgent(r)
          \/ cancelInstalledRun(r) \/ expireRun(r) \/ renewCurrentWorkerLease(r)
          \/ maintainInstalledRuns(r) \/ DeadlinePasses(r) \/ LeaseLapses(r)
          \/ closeSettles(r) \/ closeScope(r)

Fairness ==
    /\ WF_vars(Lane) /\ WF_vars(startInstalledRuns)
    /\ \A r \in Run : /\ WF_vars(admitInstalledRun(r)) /\ WF_vars(retainInstalledAgent(r))
                      /\ WF_vars(expireRun(r)) /\ WF_vars(maintainInstalledRuns(r))
                      /\ WF_vars(DeadlinePasses(r))

Spec == Init /\ [][Next]_vars /\ Fairness

\* ---- properties ------------------------------------------------------------

\* A claim is refunded only when its request never reached the network, whoever
\* closed the transport and however often its settlement was retried
\* (settleInstalledModelClosure, broker-no-release.ts).
RefundIsHonest == \A r \in Run : model[r].phase = "refunded" => r \notin net

\* One claim, one effect: no retry, recovery, successor or shutdown sends the
\* body of a model call or releases a tool a second time.
EffectsAreOnce == \A r \in Run : done[r] <= 1

\* A charged claim has one effect and a refunded one has none.
EffectsAreCharged == RefundIsHonest /\ EffectsAreOnce

\* One worker at a time holds a launch that is not retired, across the lane,
\* recovery and successors (installedWorkerSlotAvailable).
OneWorker == Cardinality({r \in Run : worker[r] \in {"preparing", "active", "fenced"}}) <= 1

\* The state owner is released only after everything it answers for: tasks,
\* transports, workers and results that are not stored (close).
ReleasedIsEmpty ==
    owner.state = "released" =>
        /\ tasks = <<>> /\ owns = {}
        /\ \A r \in Run : kept[r] = "none" /\ trans[r] = "none" /\ adm[r] = "none"

\* Workers, tasks and results have an owner: one slot, and an empty release.
ScopesAreOwned == OneWorker /\ ReleasedIsEmpty

\* No effect begins after the stop intent of its Run, the end of its lease, the
\* failure of the scheduler or the begin of a shutdown was there to be seen.
NoEffectAfterStop ==
    [][\A r \in Run : (done'[r] > done[r] \/ r \in net' \ net) => dispatchable(r) /\ r \in alive]_vars

\* What was received is kept until it is stored: while its process lives, a sent
\* request is in flight, kept, or settled (installedModelCompletions, receivedTool).
ResultIsKept ==
    [][\A r \in Run : kept[r] # "none" /\ kept'[r] = "none" /\ owner'.state = "active"
          => model'[r] # model[r] \/ tool'[r] # tool[r]]_vars

\* A Run that was admitted ends, unless a claim of it is left open, the owner
\* goes, the scheduler failed or a shutdown began: its deadline gets it there.
RunEnds ==
    \A r \in Run :
        run[r].status = "queued" ~>
            \/ run[r].status = "ended" \/ ~Up \/ flags.failed \/ flags.timer # "armed"
            \/ model[r].phase \in {"claimed", "unknown"} \/ tool[r] = "claimed"
=============================================================================
