----------------------------- MODULE RunKernel -----------------------------
(***************************************************************************)
(* The durable life of one agent Run in the state store (src/src/state):   *)
(* the invocation journal and its budget, the worker launches and their    *)
(* workspace generations, the fencing and inspection of a lost worker, and *)
(* the stop of the Run.  Every action is one reducer.  A reducer reads the *)
(* rows, publishes artifacts, and then compares the same rows again inside *)
(* one SQLite transaction, so what it does to the state is one step; a     *)
(* call with a stale expectedRunRevision changes nothing.                  *)
(*                                                                         *)
(* Abstractions.  The revision of the Run and its latest checkpoint are    *)
(* only ever compared with the value a launch or a generation was made     *)
(* from: each keeps whether they are still equal (planned, fresh).  The    *)
(* clock is the two facts the reducers ask for: the deadline has passed    *)
(* (late), the lease has expired (leased).  An operation reserves one unit *)
(* of its own counter.                                                     *)
(***************************************************************************)
EXTENDS Naturals, Sequences, FiniteSets

CONSTANTS
    Kinds,          \* the operations of the Run in order: "model", "read" or "edit"
    Launch, Gen,    \* worker launches and workspace generations the Run may make
    Ceiling,        \* RunSpec.budgets, for each counter
    MaxDispatch,    \* retry policy: dispatched attempts of one model operation
    ProbeLimit,     \* automatic inspections of one lost worker (8 in the code)
    MaxAttempts,    \* bound: attempts of one operation
    MaxOwner,       \* bound: state owners that succeed each other
    None

ASSUME KernelAssumption ==
    /\ Kinds \in Seq({"model", "read", "edit"}) /\ Len(Kinds) > 0
    /\ Ceiling \in [{"modelTokens", "toolCalls"} -> Nat]
    /\ MaxDispatch \in Nat \ {0} /\ ProbeLimit \in Nat \ {0}
    /\ MaxAttempts \in Nat /\ MaxOwner \in Nat \ {0}
    /\ None \notin Launch \cup Gen

VARIABLES
    run,        \* the row of runs
    att,        \* run_journal: for each operation the attempts it has
    launch,     \* worker_launches
    gen,        \* workspace_generations
    probe,      \* the probe state of the worker_death wait
    owner,      \* the state owner, one supervisor instance after another
    handles,    \* the one-use release capabilities the supervisor has in memory
    late        \* the deadline of the Run has passed
vars == <<run, att, launch, gen, probe, owner, handles, late>>

Op == 1 .. Len(Kinds)
Counter(op) == IF Kinds[op] = "model" THEN "modelTokens" ELSE "toolCalls"
ReplayClass(op) == IF Kinds[op] = "edit" THEN "manual" ELSE "retry"

StopOrigin == {"user_cancel", "deadline", "budget", "runtime"}
Terminal == {"failed", "cancelled"}
Target(origin) == IF origin = "user_cancel" THEN "cancelled" ELSE "failed"

LaunchPhase == {"none", "preparing", "reserved", "preactivated", "activated",
                "reconciling", "retired"}
Writable == {"active", "revoking", "checkpointing"}
Unlaunched == {"materializing", "preactivated_readonly"}
GenPhase == Writable \cup Unlaunched \cup
            {"none", "fenced_reconciling", "sealed", "quarantined", "retired"}

Attempt == [phase : {"prepared", "dispatch_claimed", "completed", "failed",
                     "unknown", "abandoned"},
            claimed : BOOLEAN, released : BOOLEAN, epoch : Nat, owner : Nat]

TypeOK ==
    /\ run \in [status : {"queued", "running", "waiting"} \cup Terminal,
                epoch : Nat, active : Launch \cup {None},
                stop : StopOrigin \cup {None},
                next : Op \cup {Len(Kinds) + 1},
                reserved : [{"modelTokens", "toolCalls"} -> Nat],
                consumed : [{"modelTokens", "toolCalls"} -> Nat]]
    /\ att \in [Op -> Seq(Attempt)]
    /\ launch \in [Launch -> [phase : LaunchPhase, gen : Gen \cup {None},
                              epoch : Nat, owner : Nat,
                              prep : {"none", "intent", "controller"},
                              write : GenPhase, leased : BOOLEAN,
                              planned : BOOLEAN, fresh : BOOLEAN]]
    /\ gen \in [Gen -> [phase : GenPhase, launch : Launch \cup {None},
                        epoch : Nat, fresh : BOOLEAN]]
    /\ probe \in [phase : {"none", "pending", "in_flight", "exhausted"},
                  count : 0 .. ProbeLimit, owner : Nat]
    /\ owner \in 1 .. MaxOwner
    /\ handles \subseteq Op \X (1 .. MaxAttempts)
    /\ late \in BOOLEAN

Init ==
    /\ run = [status |-> "queued", epoch |-> 0, active |-> None,
              stop |-> None, next |-> 1,
              reserved |-> [c \in DOMAIN Ceiling |-> 0],
              consumed |-> [c \in DOMAIN Ceiling |-> 0]]
    /\ att = [op \in Op |-> <<>>]
    /\ launch = [l \in Launch |->
                    [phase |-> "none", gen |-> None, epoch |-> 0, owner |-> 0,
                     prep |-> "none", write |-> "none", leased |-> FALSE,
                     planned |-> FALSE, fresh |-> FALSE]]
    /\ gen = [g \in Gen |-> [phase |-> "none", launch |-> None, epoch |-> 0,
                             fresh |-> FALSE]]
    /\ probe = [phase |-> "none", count |-> 0, owner |-> 0]
    /\ owner = 1 /\ handles = {}
    /\ late = FALSE

-----------------------------------------------------------------------------
(* Reading the rows.                                                       *)

Front(kinds) == run.next \in Op /\ Kinds[run.next] \in kinds
LastAtt(op) == att[op][Len(att[op])]
LastPhase(op) == IF att[op] = <<>> THEN "none" ELSE LastAtt(op).phase
Dispatched(op) == Cardinality({i \in DOMAIN att[op] : att[op][i].claimed})
Attempts == UNION {{op} \X DOMAIN att[op] : op \in Op}
Phase(a) == att[a[1]][a[2]].phase

Live(l) == launch[l].phase \notin {"none", "retired"}
Stopping == run.stop # None

\* A cause is read only when no result can still change the continuation.
SettledHistory ==
    /\ \A c \in DOMAIN Ceiling : run.reserved[c] = 0
    /\ \A a \in Attempts : \/ Phase(a) = "completed"
                           \/ Phase(a) = "failed" /\ ~att[a[1]][a[2]].claimed

\* Every reducer asserts the active state owner.  readRecoveryClosure, which
\* most of them read first, fails on a preparing launch whose owner is gone or
\* whose source checkpoint is no longer the latest one of a queued Run, and on
\* a budget or runtime stop whose cause it cannot derive again (readAgentStop):
\* none is derived of a Run that waits.
Recoverable ==
    /\ \A l \in Launch : launch[l].phase = "preparing" =>
        /\ launch[l].owner = owner /\ launch[l].fresh
        /\ run.status = "queued" /\ run.active = None
    /\ run.stop \in {"budget", "runtime"} => run.status # "waiting" /\ SettledHistory

\* The supervisor keeps a model operation registered until it has settled.
BrokerQuiet ==
    /\ \A h \in handles : Kinds[h[1]] # "model"
    /\ \A a \in Attempts : Kinds[a[1]] = "model" =>
         ~(Phase(a) = "dispatch_claimed" /\ att[a[1]][a[2]].owner = owner)

LiveDispatch ==
    /\ run.status = "running" /\ run.active # None
    /\ ~Stopping /\ ~late
    /\ LET l == launch[run.active] IN
        /\ l.phase = "activated" /\ l.owner = owner
        /\ l.epoch = run.epoch /\ l.write = "active" /\ l.leased
        /\ gen[l.gen].phase = "active"
        /\ gen[l.gen].launch = run.active /\ gen[l.gen].epoch = run.epoch

CanActivate == run.status = "queued" /\ run.active = None /\ ~Stopping /\ ~late

\* Steps that increment the revision, and steps that publish a checkpoint.
Revised == [l \in Launch |-> [launch[l] EXCEPT !.planned = FALSE]]
Aged == [l \in Launch |-> [launch[l] EXCEPT !.planned = FALSE, !.fresh = FALSE]]
Checkpointed == [g \in Gen |-> [gen[g] EXCEPT !.fresh = FALSE]]

-----------------------------------------------------------------------------
(* The invocation journal.                                                 *)

\* assertBudgetWithin, and the entry with its reservation.
Reserve(op) ==
    LET c == Counter(op) IN
    /\ run.consumed[c] + run.reserved[c] + 1 <= Ceiling[c]
    /\ Len(att[op]) < MaxAttempts
    /\ att' = [att EXCEPT ![op] = Append(@,
                 [phase |-> "prepared", claimed |-> FALSE, released |-> FALSE,
                  epoch |-> run.epoch, owner |-> 0])]
    /\ run' = [run EXCEPT !.reserved[c] = @ + 1]

\* previousAttemptAllowsRetry and modelRetryState; every settled attempt
\* carries its settlement, and a model operation is replayed with "retry".
RetryAllowed(op) ==
    \/ att[op] = <<>>
    \/ LastPhase(op) \in {"failed", "unknown"} /\ Dispatched(op) < MaxDispatch

PrepareModel ==
    /\ Front({"model"}) /\ LiveDispatch /\ RetryAllowed(run.next)
    /\ Reserve(run.next) /\ launch' = Revised
    /\ UNCHANGED <<gen, probe, owner, handles, late>>

\* A tool has one attempt; its admission publishes a checkpoint.
PrepareTool ==
    /\ Front({"read", "edit"}) /\ LiveDispatch /\ att[run.next] = <<>>
    /\ Reserve(run.next) /\ launch' = Aged /\ gen' = Checkpointed
    /\ UNCHANGED <<probe, owner, handles, late>>

\* The policy denies the call: its result is published without an invocation.
DenyTool ==
    /\ Front({"read", "edit"}) /\ LiveDispatch /\ att[run.next] = <<>>
    /\ run' = [run EXCEPT !.next = @ + 1]
    /\ launch' = Aged /\ gen' = Checkpointed
    /\ UNCHANGED <<att, probe, owner, handles, late>>

ClaimInvocation ==
    /\ run.next \in Op /\ LiveDispatch
    /\ LastPhase(run.next) = "prepared" /\ LastAtt(run.next).epoch = run.epoch
    /\ att' = [att EXCEPT ![run.next][Len(att[run.next])] =
                 [@ EXCEPT !.phase = "dispatch_claimed", !.claimed = TRUE, !.owner = owner]]
    /\ handles' = handles \cup {<<run.next, Len(att[run.next])>>}
    /\ UNCHANGED <<run, launch, gen, probe, owner, late>>

\* release: the capability is consumed first, then the claim is checked again
\* and the dispatch leaves the process with no await in between.
Releasable(h) ==
    LET a == att[h[1]][h[2]] IN
    /\ LiveDispatch /\ h[1] = run.next /\ h[2] = Len(att[h[1]])
    /\ a.phase = "dispatch_claimed" /\ a.owner = owner /\ a.epoch = run.epoch

ReleaseInvocation ==
    /\ \E h \in handles :
         /\ handles' = handles \ {h}
         /\ att' = IF Releasable(h) THEN [att EXCEPT ![h[1]][h[2]].released = TRUE] ELSE att
    /\ UNCHANGED <<run, launch, gen, probe, owner, late>>

\* commitInitialSettlement: an attempt that was never settled gets its
\* terminal phase, its reservation is released and the rest is charged.
Settle(op, from, to) ==
    /\ LastPhase(op) = from
    /\ att' = [att EXCEPT ![op][Len(att[op])].phase = to]
Charged(op, charge) ==
    [run EXCEPT !.reserved[Counter(op)] = @ - 1, !.consumed[Counter(op)] = @ + charge]

\* A continuation never commits under a reconciliation wait.
Continues(kinds) ==
    /\ Front(kinds) /\ run.status \in {"queued", "running"} /\ Recoverable
    /\ Settle(run.next, "dispatch_claimed", "completed")
    /\ LastAtt(run.next).released

\* completeModel: the next frontier, or the same one when the response is
\* unusable or ends the turn.
CompleteModel ==
    /\ Continues({"model"})
    /\ \E n \in {run.next, run.next + 1} :
         run' = [Charged(run.next, 1) EXCEPT !.next = n]
    /\ launch' = Aged /\ gen' = Checkpointed
    /\ UNCHANGED <<probe, owner, handles, late>>

\* prepareToolCheckpoint: the worker of the Run is quiesced for a checkpoint.
Quiesced ==
    /\ run.status = "running" /\ run.active # None
    /\ launch[run.active].phase = "activated"
    /\ launch[run.active].write = "checkpointing"
    /\ gen[launch[run.active].gen].phase = "checkpointing"

\* The commit of a seal: generation sealed, launch retired, Run queued.
SealedLaunch == [Aged EXCEPT ![run.active] =
                    [@ EXCEPT !.phase = "retired", !.write = "sealed", !.leased = FALSE]]
SealedGen == [Checkpointed EXCEPT ![launch[run.active].gen] =
                    [@ EXCEPT !.phase = "sealed", !.launch = None]]

CompleteRead ==
    /\ Continues({"read"})
    /\ run' = [Charged(run.next, 1) EXCEPT !.next = @ + 1]
    /\ launch' = Aged /\ gen' = Checkpointed
    /\ UNCHANGED <<probe, owner, handles, late>>

\* A mutating tool completes together with the checkpoint that holds its
\* effect: the worker is sealed in the same transaction.
CompleteEdit ==
    /\ Continues({"edit"}) /\ Quiesced
    /\ run' = [Charged(run.next, 1) EXCEPT
                 !.next = @ + 1, !.status = "queued", !.active = None]
    /\ launch' = SealedLaunch /\ gen' = SealedGen
    /\ UNCHANGED <<probe, owner, handles, late>>

\* failInvocationBeforeDispatch; a typed tool is refused here.
FailBeforeDispatch ==
    /\ \E op \in Op :
         /\ Kinds[op] = "model" /\ Settle(op, "prepared", "failed")
         /\ run' = Charged(op, 0)
    /\ launch' = Revised
    /\ UNCHANGED <<gen, probe, owner, handles, late>>

\* What became of a model claim only the owner that made it can say.
OwnClaim(op) == Kinds[op] = "model" => LastAtt(op).owner = owner

\* failInstalledModelClaimWithoutRelease: the broker of the claiming owner
\* proves that the claim was not released and never will be.
FailWithoutRelease ==
    /\ \E op \in Op :
         /\ Kinds[op] = "model" /\ Settle(op, "dispatch_claimed", "failed") /\ OwnClaim(op)
         /\ <<op, Len(att[op])>> \notin handles /\ ~LastAtt(op).released
         /\ run' = Charged(op, 0)
    /\ launch' = Revised
    /\ UNCHANGED <<gen, probe, owner, handles, late>>

\* Mutant: nothing is charged.
MarkUnknown_Refund ==
    /\ \E op \in Op :
         /\ Settle(op, "dispatch_claimed", "unknown") /\ OwnClaim(op)
         /\ run' = Charged(op, 0)
    /\ launch' = Revised
    /\ UNCHANGED <<gen, probe, owner, handles, late>>

\* markInvocationUnknown charges the whole reservation.
MarkUnknown ==
    /\ \E op \in Op :
         /\ Settle(op, "dispatch_claimed", "unknown") /\ OwnClaim(op)
         /\ run' = Charged(op, 1)
    /\ launch' = Revised
    /\ UNCHANGED <<gen, probe, owner, handles, late>>

\* abandonUnknownInvocation: the operator abandons a manual unknown.
AbandonUnknown ==
    /\ \E op \in Op :
         /\ ReplayClass(op) = "manual" /\ LastPhase(op) = "unknown"
         /\ att' = [att EXCEPT ![op][Len(att[op])].phase = "abandoned"]
    /\ UNCHANGED <<run, launch, gen, probe, owner, handles, late>>

-----------------------------------------------------------------------------
(* Preparing a worker and its workspace generation.                        *)

\* beginWorkerPreparation: the intent, before anything exists outside.
BeginPreparation(l) ==
    /\ launch[l].phase = "none" /\ CanActivate /\ Recoverable
    /\ \A m \in Launch : ~Live(m)
    /\ \A g \in Gen : gen[g].phase \in {"none", "sealed", "retired"}
    /\ launch' = [launch EXCEPT ![l] =
                    [@ EXCEPT !.phase = "preparing", !.owner = owner, !.prep = "intent",
                              !.planned = TRUE, !.fresh = TRUE]]
    /\ UNCHANGED <<run, att, gen, probe, owner, handles, late>>

\* preparing and bindableRun: a stop may have advanced the revision, but the
\* source checkpoint must still be the latest.
Bindable(l) ==
    /\ launch[l].phase = "preparing" /\ launch[l].owner = owner
    /\ launch[l].fresh
    /\ run.status = "queued" /\ run.active = None

\* recordWorkerPreparationGeneration: the directory and its row.
RecordPreparationGeneration(l, g) ==
    /\ Bindable(l) /\ launch[l].gen = None /\ gen[g].phase = "none"
    /\ gen' = [gen EXCEPT ![g] = [@ EXCEPT !.phase = "materializing", !.fresh = TRUE]]
    /\ launch' = [launch EXCEPT ![l].gen = g]
    /\ UNCHANGED <<run, att, probe, owner, handles, late>>

RecordPreparationController(l) ==
    /\ Bindable(l) /\ launch[l].gen # None /\ launch[l].prep = "intent"
    /\ launch' = [launch EXCEPT ![l].prep = "controller"]
    /\ UNCHANGED <<run, att, gen, probe, owner, handles, late>>

\* registerWorkspaceGeneration: of a queued Run, or the one replacement of a
\* Run whose worker is being inspected.
RegisterGeneration(g) ==
    /\ gen[g].phase = "none" /\ run.active = None
    /\ \/ run.status = "queued"
       \/ /\ run.status = "waiting" /\ Recoverable
          /\ \A h \in Gen : gen[h].phase \notin Unlaunched
    /\ gen' = [gen EXCEPT ![g] = [@ EXCEPT !.phase = "materializing", !.fresh = TRUE]]
    /\ UNCHANGED <<run, att, launch, probe, owner, handles, late>>

RecordGenerationPreactivated(g) ==
    /\ gen[g].phase = "materializing"
    /\ gen' = [gen EXCEPT ![g].phase = "preactivated_readonly"]
    /\ UNCHANGED <<run, att, launch, probe, owner, handles, late>>

\* assertWorkerPreparationPromotion: a prepared launch keeps its identity and
\* its own generation.
Promotable(l, g) ==
    /\ launch[l].phase = "preparing" /\ launch[l].owner = owner
    /\ launch[l].prep = "controller" /\ launch[l].planned
    /\ launch[l].gen = g
    /\ \A m \in Launch \ {l} : ~Live(m)

\* Mutant: beside an unretired launch.
ReserveLaunch_Second(l, g) ==
    /\ CanActivate
    /\ launch[l].phase = "none" \/ Promotable(l, g)
    /\ gen[g].phase = "preactivated_readonly" /\ gen[g].fresh
    /\ launch' = [launch EXCEPT ![l] =
                    [@ EXCEPT !.phase = "reserved", !.gen = g, !.owner = owner,
                              !.write = "preactivated_readonly", !.planned = TRUE]]
    /\ UNCHANGED <<run, att, gen, probe, owner, handles, late>>

\* reserveWorkerLaunch.
ReserveLaunch(l, g) ==
    /\ CanActivate
    /\ \/ launch[l].phase = "none" /\ \A m \in Launch : ~Live(m)
       \/ Promotable(l, g)
    /\ gen[g].phase = "preactivated_readonly" /\ gen[g].fresh
    /\ launch' = [launch EXCEPT ![l] =
                    [@ EXCEPT !.phase = "reserved", !.gen = g, !.owner = owner,
                              !.write = "preactivated_readonly", !.planned = TRUE]]
    /\ UNCHANGED <<run, att, gen, probe, owner, handles, late>>

\* recordWorkerPreactivated: the identity of the process names this owner.
RecordWorkerPreactivated(l) ==
    /\ launch[l].phase = "reserved" /\ launch[l].owner = owner
    /\ CanActivate /\ launch[l].planned
    /\ launch' = [launch EXCEPT ![l].phase = "preactivated"]
    /\ UNCHANGED <<run, att, gen, probe, owner, handles, late>>

\* activateWorkerLease: the Run gets its worker and a new epoch.
ActivateLease(l) ==
    /\ launch[l].phase = "preactivated" /\ launch[l].owner = owner
    /\ CanActivate /\ launch[l].planned
    /\ gen[launch[l].gen].phase = "preactivated_readonly"
    /\ LET e == run.epoch + 1 IN
        /\ run' = [run EXCEPT !.status = "running", !.active = l, !.epoch = e]
        /\ launch' = [Revised EXCEPT ![l] =
                        [@ EXCEPT !.phase = "activated", !.epoch = e,
                                  !.write = "active", !.leased = TRUE]]
        /\ gen' = [gen EXCEPT ![launch[l].gen] =
                        [@ EXCEPT !.phase = "active", !.launch = l, !.epoch = e]]
    /\ UNCHANGED <<att, probe, owner, handles, late>>

\* beginGenerationRevocation and beginGenerationCheckpoint: no step back.
WriteState(l, from, to) ==
    /\ launch[l].phase = "activated" /\ launch[l].write = from
    /\ LET g == launch[l].gen IN
        /\ gen[g].phase = from /\ gen[g].launch = l /\ gen[g].epoch = launch[l].epoch
        /\ gen' = [gen EXCEPT ![g].phase = to]
    /\ launch' = [launch EXCEPT ![l].write = to]
    /\ UNCHANGED <<run, att, probe, owner, handles, late>>

BeginRevocation(l) ==
    /\ run.status = "running" /\ run.active = l
    /\ WriteState(l, "active", "revoking")
BeginCheckpoint(l) == WriteState(l, "revoking", "checkpointing")

\* Mutant: tools may be open.
SealGeneration_Unsettled ==
    /\ Quiesced
    /\ run' = [run EXCEPT !.status = "queued", !.active = None]
    /\ launch' = SealedLaunch /\ gen' = SealedGen
    /\ UNCHANGED <<att, probe, owner, handles, late>>

\* sealWorkerGeneration: the bytes of the generation become the checkpoint, so
\* every claimed tool must have published its result.
SealGeneration ==
    /\ Quiesced
    /\ \A a \in Attempts : Kinds[a[1]] # "model" /\ att[a[1]][a[2]].claimed
                            => Phase(a) = "completed"
    /\ run' = [run EXCEPT !.status = "queued", !.active = None]
    /\ launch' = SealedLaunch /\ gen' = SealedGen
    /\ UNCHANGED <<att, probe, owner, handles, late>>

-----------------------------------------------------------------------------
(* Giving up a worker that was never activated.                            *)

\* retireWorkerPreparation: by its live producer; a generation that was born
\* is retired in the same transaction.
RetirePreparation(l) ==
    /\ Bindable(l) /\ BrokerQuiet /\ \A m \in Launch \ {l} : ~Live(m)
    /\ \/ launch[l].gen = None /\ gen' = gen
       \/ /\ launch[l].gen # None /\ gen[launch[l].gen].phase \in Unlaunched
          /\ gen' = [gen EXCEPT ![launch[l].gen].phase = "retired"]
    /\ launch' = [launch EXCEPT ![l] = [@ EXCEPT !.phase = "retired", !.fresh = FALSE,
                                                 !.planned = FALSE]]
    /\ UNCHANGED <<run, att, probe, owner, handles, late>>

\* retirePreactivationLaunch: by any owner, once the native reservation shows
\* that no process was made or that all are dead.
RetirePreactivation(l) ==
    /\ launch[l].phase \in {"reserved", "preactivated"}
    /\ run.status = "queued" /\ run.active = None
    /\ gen[launch[l].gen].phase = "preactivated_readonly" /\ gen[launch[l].gen].fresh
    /\ gen' = [gen EXCEPT ![launch[l].gen].phase = "quarantined"]
    /\ launch' = [Revised EXCEPT ![l] = [@ EXCEPT !.phase = "retired", !.fresh = FALSE]]
    /\ UNCHANGED <<run, att, probe, owner, handles, late>>

\* retireQuarantinedGeneration: its one launch is retired.
RetireQuarantined(g) ==
    /\ gen[g].phase = "quarantined" /\ Recoverable /\ BrokerQuiet
    /\ LET of == {l \in Launch : launch[l].gen = g} IN
        Cardinality(of) = 1 /\ \A l \in of : launch[l].phase = "retired"
    /\ gen' = [gen EXCEPT ![g].phase = "retired"]
    /\ UNCHANGED <<run, att, launch, probe, owner, handles, late>>

-----------------------------------------------------------------------------
(* A worker that was lost.                                                 *)

Fenced(l) == launch[l].phase = "reconciling"
Open == {a \in Attempts : Phase(a) \in {"prepared", "dispatch_claimed", "unknown"}}
ModelUnknown(a) == Kinds[a[1]] = "model" /\ Phase(a) = "unknown"

\* beginWorkerRecovery: revocation, not a proof of death.
BeginRecovery(l) ==
    /\ run.status = "running" /\ run.active = l /\ Recoverable
    /\ launch[l].phase = "activated" /\ \A m \in Launch \ {l} : ~Live(m)
    /\ gen[launch[l].gen].phase \in Writable
    /\ run' = [run EXCEPT !.status = "waiting", !.active = None]
    /\ launch' = [Revised EXCEPT ![l] = [@ EXCEPT !.phase = "reconciling", !.leased = FALSE,
                                                  !.write = "fenced_reconciling"]]
    /\ gen' = [gen EXCEPT ![launch[l].gen].phase = "fenced_reconciling"]
    /\ probe' = [phase |-> "pending", count |-> 0, owner |-> 0]
    /\ UNCHANGED <<att, owner, handles, late>>

\* beginWorkerRecoveryProbe: the nonce of the inspection names this owner.
BeginProbe ==
    /\ run.status = "waiting" /\ probe.phase = "pending" /\ Recoverable
    /\ probe' = [phase |-> "in_flight", count |-> probe.count + 1, owner |-> owner]
    /\ launch' = Revised
    /\ UNCHANGED <<run, att, gen, owner, handles, late>>

\* closeWorkerRecoveryProbe: the deadline of the inspection has passed and its
\* task is joined, or the owner of the task is dead.
CloseProbe ==
    /\ run.status = "waiting" /\ probe.phase = "in_flight" /\ Recoverable
    /\ probe' = [phase |-> IF probe.count = ProbeLimit THEN "exhausted" ELSE "pending",
                 count |-> probe.count, owner |-> 0]
    /\ launch' = Revised
    /\ UNCHANGED <<run, att, gen, owner, handles, late>>

\* completeWorkerRecoveryProbe, both branches: the whole containment is dead.
Inspected ==
    /\ run.status = "waiting" /\ Recoverable
    /\ probe.phase = "in_flight" /\ probe.owner = owner
    /\ Open # {} => /\ BrokerQuiet
                    /\ \A g \in Gen : gen[g].phase \notin Unlaunched
    /\ Cardinality({g \in Gen : gen[g].phase = "preactivated_readonly" /\ gen[g].fresh}) <= 1
    /\ probe' = [phase |-> "none", count |-> 0, owner |-> 0]

\* The Run goes on from its latest checkpoint, in another generation.
CompleteProbe(l) ==
    /\ Inspected /\ Fenced(l) /\ ~Stopping /\ ~late
    /\ \A a \in Open : ModelUnknown(a)
    /\ run' = [run EXCEPT !.status = "queued"]
    /\ launch' = [Revised EXCEPT ![l].phase = "retired"]
    /\ gen' = [gen EXCEPT ![launch[l].gen].phase = "quarantined", ![launch[l].gen].launch = None]
    /\ UNCHANGED <<att, owner, handles, late>>

-----------------------------------------------------------------------------
(* Stopping the Run.                                                       *)

Priority(origin) ==
    CASE origin = "user_cancel" -> 3 [] origin = "runtime" -> 1 [] OTHER -> 2

\* cut: a stop is accepted from a live Run, from the inspection wait only when
\* it is a cancellation or the deadline.
StopCut(waits) ==
    Recoverable /\ run.status \in {"queued", "running"} \cup waits

\* commitDerivedStop with selectAgentStop: the intent of the higher priority,
\* and among equals the first.
DeriveStop(origin) ==
    /\ Stopping => Priority(origin) > Priority(run.stop)
    /\ run' = [run EXCEPT !.stop = origin]
    /\ launch' = Revised
    /\ UNCHANGED <<att, gen, probe, owner, handles, late>>

Cancel ==
    /\ StopCut({"waiting"})
    /\ run' = [run EXCEPT !.stop = "user_cancel"]
    /\ launch' = Revised
    /\ UNCHANGED <<att, gen, probe, owner, handles, late>>

Expire == StopCut({"waiting"}) /\ late /\ DeriveStop("deadline")

\* readResourceStopCause; whether the context window is exhausted is a choice.
ResourceCause(origin) ==
    IF late THEN origin = "deadline"
    ELSE LET c == Counter(run.next) IN
        /\ run.next \in Op /\ SettledHistory
        /\ IF Kinds[run.next] = "model" THEN LastPhase(run.next) # "completed"
                                        ELSE att[run.next] = <<>>
        /\ \/ origin = "budget" /\ run.consumed[c] + run.reserved[c] + 1 > Ceiling[c]
           \/ origin = "runtime" /\ Kinds[run.next] = "model"

StopForResource ==
    \E origin \in StopOrigin :
        StopCut({}) /\ ResourceCause(origin) /\ DeriveStop(origin)

\* prepareModelFailureStop: an unusable response, or a refused credential.
ModelFailureCause(origin) ==
    IF late THEN origin = "deadline"
    ELSE /\ origin = "runtime" /\ Front({"model"}) /\ SettledHistory
         /\ LastPhase(run.next) \in {"completed", "failed"}

StopForModelFailure ==
    \E origin \in StopOrigin :
        StopCut({}) /\ ModelFailureCause(origin) /\ DeriveStop(origin)

\* withInstalledBrokerTerminalClosure: a model call of unknown outcome ends with
\* the process that claimed it.
ClaimantDead(a) == att[a[1]][a[2]].owner < owner

\* commitTerminalStop: which attempts may be left, and their refund.
Closable(a) ==
    \/ Phase(a) \in {"prepared", "completed"}
    \/ Phase(a) = "failed" /\ (att[a[1]][a[2]].claimed => Kinds[a[1]] = "model")
    \/ ModelUnknown(a) /\ run.active = None /\ ClaimantDead(a)
Refunded(rollback) ==
    [op \in Op |-> [i \in DOMAIN att[op] |->
        IF att[op][i].phase = "prepared" \/ <<op, i>> \in rollback
        THEN [att[op][i] EXCEPT !.phase = "failed"] ELSE att[op][i]]]

TerminalRun ==
    [run EXCEPT !.status = Target(run.stop), !.active = None,
                !.reserved = [c \in DOMAIN Ceiling |-> 0]]

\* Mutant: a generation that was not retired is left.
Drained_Launches == \A l \in Launch : launch'[l].phase \in {"none", "retired"}

\* Retired launches whose generation was not sealed need it retired.
Drained ==
    /\ \A l \in {m \in Launch : launch[m].phase = "retired"} :
         launch[l].write \notin {"none", "sealed"} => gen[launch[l].gen].phase = "retired"
    /\ \A g \in Gen : gen'[g].phase \in {"none", "sealed", "retired"}
    /\ \A l \in Launch : launch'[l].phase \in {"none", "retired"}

CommitTerminalStop ==
    /\ Stopping /\ StopCut({}) /\ BrokerQuiet
    /\ \A a \in Attempts : Closable(a)
    /\ \/ run.active # None /\ Quiesced /\ launch' = SealedLaunch /\ gen' = SealedGen
       \/ run.active = None /\ launch' = Aged /\ gen' = Checkpointed
    /\ Drained
    /\ att' = Refunded({}) /\ run' = TerminalRun
    /\ UNCHANGED <<probe, owner, handles, late>>

\* The stopped branch of completeWorkerRecoveryProbe ends in the same commit:
\* a mutating tool of unknown effect is rolled back with its generation.
RolledBack == {a \in Open : Phase(a) = "unknown" /\ ReplayClass(a[1]) = "manual"}
CompleteProbeStopped(l) ==
    /\ Inspected /\ Fenced(l) /\ Stopping /\ BrokerQuiet
    /\ \/ \A a \in Open : ModelUnknown(a)
       \/ \A a \in Open : Phase(a) = "prepared"
       \/ Cardinality(Open) = 1 /\ RolledBack = Open
    /\ \A a \in Attempts \ RolledBack : Closable(a)
    /\ launch' = [Aged EXCEPT ![l].phase = "retired"]
    /\ gen' = [Checkpointed EXCEPT ![launch[l].gen].phase = "retired",
                                   ![launch[l].gen].launch = None]
    /\ Drained
    /\ att' = Refunded(RolledBack) /\ run' = TerminalRun
    /\ UNCHANGED <<owner, handles, late>>

-----------------------------------------------------------------------------
(* The clock, and the death of the state owner.                            *)

DeadlinePasses ==
    /\ ~late /\ late' = TRUE
    /\ UNCHANGED <<run, att, launch, gen, probe, owner, handles>>

LeaseExpires(l) ==
    /\ launch[l].leased /\ launch' = [launch EXCEPT ![l].leased = FALSE]
    /\ UNCHANGED <<run, att, gen, probe, owner, handles, late>>

Restart ==
    /\ owner < MaxOwner /\ owner' = owner + 1 /\ handles' = {}
    /\ UNCHANGED <<run, att, launch, gen, probe, late>>

Journal ==
    \/ PrepareModel \/ PrepareTool \/ DenyTool \/ ClaimInvocation \/ ReleaseInvocation
    \/ CompleteModel \/ CompleteRead \/ CompleteEdit
    \/ FailBeforeDispatch \/ FailWithoutRelease \/ MarkUnknown \/ AbandonUnknown

Worker ==
    \/ \E l \in Launch :
         \/ BeginPreparation(l) \/ RecordPreparationController(l)
         \/ RecordWorkerPreactivated(l) \/ ActivateLease(l) \/ BeginRevocation(l)
         \/ BeginCheckpoint(l) \/ RetirePreparation(l) \/ RetirePreactivation(l)
         \/ BeginRecovery(l) \/ CompleteProbe(l) \/ CompleteProbeStopped(l) \/ LeaseExpires(l)
         \/ \E g \in Gen : RecordPreparationGeneration(l, g) \/ ReserveLaunch(l, g)
    \/ \E g \in Gen :
         RegisterGeneration(g) \/ RecordGenerationPreactivated(g) \/ RetireQuarantined(g)
    \/ SealGeneration \/ BeginProbe \/ CloseProbe

Stop ==
    \/ Cancel \/ Expire \/ StopForResource \/ StopForModelFailure \/ CommitTerminalStop

Next == Journal \/ Worker \/ Stop \/ DeadlinePasses \/ Restart

Spec == Init /\ [][Next]_vars

-----------------------------------------------------------------------------
(* What the reducers keep.                                                 *)

\* One writer: at most one launch is not retired, at most one generation can
\* be written, and it belongs to the active worker at the current epoch with
\* the write state the launch records, whatever owners, recoveries and stops
\* came in between (activateWorkerLease, reserveWorkerLaunch, beginWorkerRecovery).
OneWriter ==
    /\ \A l, m \in Launch : Live(l) /\ Live(m) => l = m
    /\ \A g \in Gen : gen[g].phase \in Writable =>
         /\ run.active # None /\ run.status = "running"
         /\ launch[run.active].gen = g /\ gen[g].launch = run.active
         /\ gen[g].epoch = run.epoch /\ launch[run.active].epoch = run.epoch
         /\ launch[run.active].write = gen[g].phase

\* The bytes of a sealed generation become a checkpoint.  They hold no effect
\* of a mutating tool whose result is not published: no tool that was released
\* under the lease of a sealed generation is open, unknown or abandoned
\* (sealWorkerGeneration, prepareToolCheckpoint, commitTerminalStop).
SealedIsAccounted ==
    \A l \in Launch : launch[l].write = "sealed" =>
        \A a \in Attempts :
            Kinds[a[1]] = "edit" /\ att[a[1]][a[2]].released
              /\ att[a[1]][a[2]].epoch = launch[l].epoch
            => Phase(a) = "completed"

\* A Run that has ended stays quiet: no worker, no generation that something
\* may still write or that waits for its inspection, no reservation, no claim
\* that could still be released, and the status its stop intent asks for.
TerminalIsQuiet ==
    run.status \in Terminal =>
        /\ run.active = None /\ run.status = Target(run.stop)
        /\ \A l \in Launch : ~Live(l)
        /\ \A g \in Gen : gen[g].phase \in {"none", "sealed", "retired"}
        /\ \A a \in Attempts : Phase(a) \notin {"prepared", "dispatch_claimed"}
        /\ \A c \in DOMAIN Ceiling : run.reserved[c] = 0
        /\ ~(\E h \in handles : Kinds[h[1]] = "model")
=============================================================================
