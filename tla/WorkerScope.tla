----------------------------- MODULE WorkerScope -----------------------------
(* The native side of one worker launch on Linux: the supervisor's launcher,   *)
(* the controller it starts for the launch, the processes that controller      *)
(* makes in its control group, and the controllers later started to find out   *)
(* what became of them (sandbox/linux-worker.ts, native/linux/).  A supervisor *)
(* may die at any time; its controllers see the end of their channel whenever  *)
(* they next look.  Controller 1 makes the worker; the others only inspect.    *)
EXTENDS Naturals, FiniteSets

CONSTANTS
    Inv,        \* the invocations the worker may be asked for
    MaxCtl,     \* bound: controllers
    MaxEpoch,   \* bound: supervisors, one after the other
    MaxFault,   \* bound: controllers killed and appends that fail
    None

Ctl == 1 .. MaxCtl
Scope == {"w"} \cup Inv

VARIABLES
    epoch,     \* the supervisor that runs
    row,       \* the launch as the kernel has committed it
    ctl,       \* the controllers: process, channel and command in progress
    pend,      \* of each controller, the request its supervisor waits for
    js,        \* of each scope, the handle the supervisor holds
    seen,      \* of each controller, what its supervisor has learnt from it
    witness,   \* the reservation file: whole frames, and a torn one after them
    cg,        \* whether the launch's control group exists
    mem,       \* controller 1's table of scopes
    proc,      \* the processes of each scope
    killed,    \* the scopes whose processes have been sent SIGKILL
    receipt,   \* the retirements that have been handed out
    wrote,     \* how often each invocation has changed the generation
    faults

vars == <<epoch, row, ctl, pend, js, seen, witness, cg, mem, proc, killed, receipt, wrote, faults>>
ctlVars == <<witness, cg, mem, proc, killed>>
supVars == <<epoch, row, pend, js, seen, receipt>>

Idle == [st |-> "none", owner |-> 0, chan |-> FALSE, term |-> FALSE, joined |-> FALSE,
         req |-> None, rep |-> None, op |-> None]
NoMem == [created |-> {}, known |-> {}, active |-> {}, released |-> {}, stopped |-> {}]

\* The frames of the reservation file, in the order they are appended.
Binding == 1
Full == 5
FrameOf == [intent |-> 2, cgroup |-> 3, monitor |-> 4, record |-> 5]

Init ==
    /\ epoch = 1 /\ row = "preparing"
    /\ ctl = [c \in Ctl |-> Idle]
    /\ pend = [c \in Ctl |-> None] /\ seen = [c \in Ctl |-> None]
    /\ js = [s \in Scope |-> "none"]
    /\ witness = [n |-> 0, torn |-> FALSE] /\ cg = FALSE /\ mem = NoMem
    /\ proc = [s \in Scope |-> "none"] /\ killed = {}
    /\ receipt = {} /\ wrote = [i \in Inv |-> 0] /\ faults = 0

-----------------------------------------------------------------------------
(* What the operating system knows.                                            *)

\* The processes that are members of a control group: a monitor that waits at
\* its barrier is still in the controller's own.
Member == {"booting", "blocked", "active", "released", "done"}
\* cgroup.events of a scope: the worker's group holds the invocations' groups.
Below(s) == IF s = "w" THEN Scope ELSE {s}
Populated(s) == \E t \in Below(s) : proc[t] \in Member
\* original_process_absent for the processes a scope was born with.
Absent(s) == proc[s] \in {"none", "dead"}
\* cgroup.kill: SIGKILL to every process that is a member now.
Killed(S) == killed \cup {s \in UNION {Below(t) : t \in S} : proc[s] \in Member}
\* A controller's process is absent once it has exited and been reaped.
Gone(c) == ctl[c].st = "gone"

-----------------------------------------------------------------------------
(* The supervisor: linux-worker.ts and the addon it calls.                     *)

\* openController and its HELLO: the subreaper is a child of this supervisor.
Open(c) ==
    /\ ctl[c].st = "none" /\ \A b \in 1 .. c - 1 : ctl[b].st # "none"
    /\ ctl' = [ctl EXCEPT ![c] = [@ EXCEPT !.st = "up", !.owner = epoch, !.chan = TRUE]]
    /\ UNCHANGED <<epoch, row, pend, js, seen, ctlVars, receipt, wrote, faults>>

\* A channel carries one request at a time, and none once it is closed.
Held(c) == ctl[c].owner = epoch /\ ctl[c].chan /\ pend[c] = None
Ask(c, request) ==
    /\ pend' = [pend EXCEPT ![c] = request]
    /\ ctl' = [ctl EXCEPT ![c].req = request]
    /\ UNCHANGED <<epoch, row, seen, ctlVars, receipt, wrote, faults>>

\* bindWorkerReservation: once, before any scope.
Bind == Held(1) /\ seen[1] = None /\ js["w"] = "none" /\ Ask(1, <<"bind", "w">>) /\ UNCHANGED js

\* launchWorker, createInvocation: the addon keeps that a creation was asked for.
CreateWorker ==
    /\ Held(1) /\ seen[1] = "bound" /\ js["w"] = "none"
    /\ js' = [js EXCEPT !["w"] = "asked"] /\ Ask(1, <<"create", "w">>)
CreateInvocation(i) ==
    /\ Held(1) /\ js["w"] = "active" /\ js[i] = "none"
    /\ js' = [js EXCEPT ![i] = "asked"] /\ Ask(1, <<"create", i>>)

\* The launch's containment and then its activation are committed by the kernel
\* (external to this module); activateCommitted needs the committed row.
Commit ==
    /\ js["w"] = "ready" /\ row \in {"preparing", "recorded"}
    /\ row' = IF row = "preparing" THEN "recorded" ELSE "activated"
    /\ UNCHANGED <<epoch, ctl, pend, js, seen, ctlVars, receipt, wrote, faults>>
Activate ==
    /\ Held(1) /\ js["w"] = "ready" /\ row = "activated"
    /\ js' = [js EXCEPT !["w"] = "activating"] /\ Ask(1, <<"activate", "w">>)

\* releaseLinuxInvocation: the claim is consumed before the processes are looked
\* at and before the send, so neither failure leaves a release to try again.
Release(i) ==
    /\ ctl[1].owner = epoch /\ js[i] = "ready"
    /\ js' = [js EXCEPT ![i] = "consumed"]
    /\ IF Held(1) /\ js["w"] = "active" /\ proc["w"] = "active" /\ proc[i] = "blocked"
       THEN Ask(1, <<"release", i>>)
       ELSE UNCHANGED <<epoch, row, pend, ctl, seen, ctlVars, receipt, wrote, faults>>

\* stop of a worker or of an invocation; a stopped scope may be observed again.
Stop(s) ==
    /\ Held(1) /\ js[s] \notin {"none", "asked"}
    /\ Ask(1, <<"stop", s>>) /\ UNCHANGED js

\* inspectPreactivation by a later owner with a controller of its own;
\* terminateRetained by a later owner, or by the same one after the join.
Inspect(c) ==
    /\ c # 1 /\ Held(c) /\ epoch > ctl[1].owner /\ row # "activated"
    /\ Ask(c, <<"inspect", "w">>) /\ UNCHANGED js
Retain(c) ==
    /\ c # 1 /\ Held(c) /\ row = "activated" /\ (epoch > ctl[1].owner \/ ctl[1].joined)
    /\ Ask(c, <<"retain", "w">>) /\ UNCHANGED js

\* revoke_controller and the signal that reap_controller sends.
Closed(c) == [ctl EXCEPT ![c] = [@ EXCEPT !.chan = FALSE, !.term = TRUE, !.rep = None]]

\* What a good answer changes in the supervisor's memory.
AfterReply(c, cmd, s) ==
    /\ seen' = [seen EXCEPT ![c] = CASE cmd = "bind" -> "bound"
                                    [] cmd = "inspect" -> ctl[c].rep
                                    [] cmd = "retain" -> "death"
                                    [] OTHER -> @]
    /\ js' = [t \in Scope |-> CASE cmd = "create" /\ t = s -> "ready"
                                [] cmd = "activate" /\ t = s -> "active"
                                [] cmd = "release" /\ t = s -> "result"
                                [] cmd = "stop" /\ t \in Below(s) /\ js[t] # "none" -> "stopped"
                                [] OTHER -> js[t]]

\* poll_response: an answer with a status other than 0 closes the controller.
Reply(c) ==
    /\ ctl[c].owner = epoch /\ ctl[c].chan /\ ctl[c].rep # None /\ pend[c] # None
    /\ pend' = [pend EXCEPT ![c] = None]
    /\ IF ctl[c].rep = "bad"
       THEN ctl' = Closed(c) /\ UNCHANGED <<js, seen>>
       ELSE ctl' = [ctl EXCEPT ![c].rep = None] /\ AfterReply(c, pend[c][1], pend[c][2])
    /\ UNCHANGED <<epoch, row, ctlVars, receipt, wrote, faults>>

\* close, and awaitNative's timeout while a request is pending.  A result that
\* has already arrived on the channel is kept.
Close(c) ==
    /\ ctl[c].owner = epoch /\ ctl[c].chan
    /\ ctl' = Closed(c) /\ pend' = [pend EXCEPT ![c] = None]
    /\ js' = IF pend[c] # None /\ pend[c][1] = "release" /\ ctl[c].rep = "ok"
             THEN [js EXCEPT ![pend[c][2]] = "result"] ELSE js
    /\ UNCHANGED <<epoch, row, seen, ctlVars, receipt, wrote, faults>>

\* reap_controller: waits for the exact child, and kills it after the wait.
Join(c) ==
    /\ ctl[c].owner = epoch /\ ~ctl[c].chan /\ ctl[c].st # "none" /\ ~ctl[c].joined
    /\ ctl' = [ctl EXCEPT ![c] = [@ EXCEPT !.st = "gone", !.op = None, !.req = None, !.joined = TRUE]]
    /\ ctl[c].st = "gone" \/ faults < MaxFault
    /\ faults' = faults + (IF ctl[c].st = "gone" THEN 0 ELSE 1)
    /\ UNCHANGED <<supVars, ctlVars, wrote>>

\* The supervisor dies: its channels end, its children live on, its memory is
\* lost.  The next owner knows the committed row and the reservation file.
Crash ==
    /\ epoch < MaxEpoch /\ epoch' = epoch + 1
    /\ ctl' = [c \in Ctl |-> [ctl[c] EXCEPT !.chan = FALSE, !.rep = None, !.joined = FALSE]]
    /\ pend' = [c \in Ctl |-> None] /\ seen' = [c \in Ctl |-> None]
    /\ js' = [s \in Scope |-> "none"]
    /\ UNCHANGED <<row, ctlVars, receipt, wrote, faults>>

\* assertPreparationRetired: the original controller was joined and no worker was
\* ever asked of it.
RetirePreparation ==
    /\ ctl[1].owner = epoch /\ ctl[1].joined /\ js["w"] = "none" /\ Gone(1)
    /\ receipt' = receipt \cup {"preparation"}
    /\ UNCHANGED <<epoch, row, ctl, pend, js, seen, ctlVars, wrote, faults>>

\* reservation_read: the file ends with its binding or with its whole birth
\* record; anything between, or a torn frame, is refused.
Readable == ~witness.torn /\ witness.n \in {Binding, Full}

\* assertPreactivationRetired: the file is locked, so its writer is gone, and is
\* read again; the group is absent, or is empty with its first processes absent.
RetirePreactivation(c) ==
    /\ ctl[c].owner = epoch /\ ctl[c].joined /\ seen[c] \in {"no_spawn", "created"}
    /\ Gone(1) /\ Readable
    /\ IF seen[c] = "no_spawn" THEN witness.n = Binding /\ ~cg
       ELSE witness.n = Full /\ cg /\ ~Populated("w") /\ Absent("w")
    /\ receipt' = receipt \cup {seen[c]}
    /\ UNCHANGED <<epoch, row, ctl, pend, js, seen, ctlVars, wrote, faults>>

\* Mutant: the old subreaper's token is not among those that must be absent.
RetireRetained_NoSubreaper(c) ==
    /\ ctl[c].owner = epoch /\ ctl[c].joined /\ seen[c] = "empty" /\ Absent("w")
    /\ receipt' = receipt \cup {"retained"}
    /\ UNCHANGED <<epoch, row, ctl, pend, js, seen, ctlVars, wrote, faults>>

\* assertRetainedRetired: two reads that other processes may come between.  The
\* group is empty; then the worker's first processes and the old subreaper are
\* absent.
SampleRetained(c) ==
    /\ ctl[c].owner = epoch /\ ctl[c].joined /\ seen[c] = "death"
    /\ cg /\ ~Populated("w")
    /\ seen' = [seen EXCEPT ![c] = "empty"]
    /\ UNCHANGED <<epoch, row, ctl, pend, js, ctlVars, receipt, wrote, faults>>
RetireRetained(c) ==
    /\ ctl[c].owner = epoch /\ ctl[c].joined /\ seen[c] = "empty"
    /\ Absent("w") /\ Gone(1)
    /\ receipt' = receipt \cup {"retained"}
    /\ UNCHANGED <<epoch, row, ctl, pend, js, seen, ctlVars, wrote, faults>>

-----------------------------------------------------------------------------
(* A controller: cliq-linux-worker-controller.c.                               *)

\* The loop takes the next request unless a signal has asked it to stop.
Receives(c) == ctl[c].st = "up" /\ ctl[c].op = None /\ ctl[c].req # None /\ ~ctl[c].term
Begin(c, at) ==
    ctl' = [ctl EXCEPT ![c] = [@ EXCEPT !.req = None, 
                                        !.op = [cmd |-> ctl[c].req[1], s |-> ctl[c].req[2], at |-> at]]]
\* The answer; on a channel that has ended it is lost and the loop ends.
Answered(c, rep) ==
    [ctl EXCEPT ![c] = [@ EXCEPT !.op = None, !.req = None, !.rep = IF ctl[c].chan THEN rep ELSE None,
                                 !.term = @ \/ ~ctl[c].chan]]
Refuse(c) == ctl' = Answered(c, "bad") /\ UNCHANGED ctlVars

\* stop_scope of a scope whose processes were never identified stops before the
\* kill; their group is killed when the controller ends.
Abandon(s) ==
    /\ mem' = [mem EXCEPT !.active = @ \ {s}]
    /\ killed' = IF s \in mem.known THEN Killed({s}) ELSE killed

\* bind_worker_reservation: an empty file, under this controller's lock.
DoBind(c) ==
    /\ Receives(c) /\ ctl[c].req[1] = "bind"
    /\ \/ /\ c = 1 /\ witness = [n |-> 0, torn |-> FALSE]
          /\ witness' = [witness EXCEPT !.n = Binding]
          /\ ctl' = Answered(c, "ok") /\ UNCHANGED <<cg, mem, proc, killed, faults>>
       \/ /\ faults < MaxFault /\ faults' = faults + 1
          /\ witness' = [witness EXCEPT !.torn = TRUE]
          /\ ctl' = Answered(c, "bad") /\ UNCHANGED <<cg, mem, proc, killed>>
    /\ UNCHANGED <<supVars, wrote>>

\* spawn_worker's gate: the reservation is bound and unused; an invocation needs
\* an active parent that is not stopped, and no other invocation of it.
MayCreate(s) ==
    IF s = "w" THEN witness = [n |-> Binding, torn |-> FALSE] /\ mem.created = {}
    ELSE /\ "w" \in mem.active \ mem.stopped /\ s \notin mem.created
         /\ mem.created \cap Inv \subseteq mem.stopped
DoCreate(c) ==
    /\ Receives(c) /\ ctl[c].req[1] = "create"
    /\ IF MayCreate(ctl[c].req[2])
       THEN Begin(c, IF ctl[c].req[2] = "w" THEN "intent" ELSE "mkdir") /\ UNCHANGED ctlVars
       ELSE Refuse(c)
    /\ UNCHANGED <<supVars, wrote, faults>>

At(c, cmd, at) == ctl[c].st = "up" /\ ctl[c].op # None /\ ctl[c].op.cmd = cmd /\ ctl[c].op.at = at
Go(c, at) == ctl' = [ctl EXCEPT ![c].op.at = at]

\* A step of the creation fails: the scope that was made is stopped and the
\* answer carries the status.
CreateFails(c) ==
    /\ ctl' = Answered(c, "bad")
    /\ IF ctl[c].op.s \in mem.created THEN Abandon(ctl[c].op.s) ELSE UNCHANGED <<mem, killed>>

\* reservation_append: body, sync, footer, sync; a failure leaves a torn frame.
Append(c, at, next) ==
    /\ At(c, "create", at)
    /\ \/ /\ witness' = [witness EXCEPT !.n = FrameOf[at]]
          /\ IF next = None THEN ctl' = Answered(c, "ok") ELSE Go(c, next)
          /\ UNCHANGED <<cg, mem, proc, killed, faults>>
       \/ /\ faults < MaxFault /\ faults' = faults + 1
          /\ witness' = [witness EXCEPT !.torn = TRUE]
          /\ CreateFails(c) /\ proc' = [proc EXCEPT !["w"] = IF @ = "barrier" THEN "dead" ELSE @]
          /\ UNCHANGED cg
    /\ UNCHANGED <<supVars, wrote>>
MakeGroup(c) ==
    /\ At(c, "create", "mkdir")
    /\ mem' = [mem EXCEPT !.created = @ \cup {ctl[c].op.s}]
    /\ cg' = TRUE /\ Go(c, IF ctl[c].op.s = "w" THEN "cgroup" ELSE "fork")
    /\ UNCHANGED <<supVars, witness, proc, killed, wrote, faults>>

\* The monitor is forked behind a pipe and goes on only when it has been placed in
\* the group; a closed pipe ends it.
Fork(c) ==
    /\ At(c, "create", "fork")
    /\ proc' = [proc EXCEPT ![ctl[c].op.s] = "barrier"]
    /\ Go(c, IF ctl[c].op.s = "w" THEN "monitor" ELSE "place")
    /\ UNCHANGED <<supVars, witness, cg, mem, killed, wrote, faults>>
Place(c) ==
    /\ At(c, "create", "place") /\ proc[ctl[c].op.s] = "barrier"
    /\ proc' = [proc EXCEPT ![ctl[c].op.s] = "booting"]
    /\ Go(c, "ready")
    /\ UNCHANGED <<supVars, witness, cg, mem, killed, wrote, faults>>

\* READY is awaited for five seconds, and interrupted by a signal; then the
\* processes of the new namespace are identified.
AwaitReady(c) ==
    /\ At(c, "create", "ready")
    /\ LET s == ctl[c].op.s IN
       \/ /\ proc[s] = "blocked"
          /\ mem' = [mem EXCEPT !.known = @ \cup {s}]
          /\ IF s = "w" THEN Go(c, "record") ELSE ctl' = Answered(c, "ok")
          /\ UNCHANGED killed
       \/ CreateFails(c)
    /\ UNCHANGED <<supVars, witness, cg, proc, wrote, faults>>

\* The commands that pass a message to the scope's init and wait for its answer.
DoActivate(c) ==
    /\ Receives(c) /\ ctl[c].req[1] = "activate"
    /\ \/ /\ "w" \in mem.known \ (mem.stopped \cup mem.active) /\ proc["w"] = "blocked" /\ "w" \notin killed
          /\ proc' = [proc EXCEPT !["w"] = "active"]
          /\ mem' = [mem EXCEPT !.active = @ \cup {"w"}]
          /\ ctl' = Answered(c, "ok") /\ UNCHANGED killed
       \/ ctl' = Answered(c, "bad") /\ Abandon("w") /\ UNCHANGED proc
    /\ UNCHANGED <<supVars, witness, cg, wrote, faults>>

\* RELEASE_WRITE: once, under a parent that is active and not stopped, with the
\* processes of both the ones that were identified.
MayRelease(i) ==
    /\ i \in mem.known \ (mem.stopped \cup mem.released)
    /\ "w" \in mem.active \ mem.stopped
    /\ proc["w"] = "active" /\ proc[i] \in Member
DoRelease(c) ==
    /\ Receives(c) /\ ctl[c].req[1] = "release"
    /\ LET i == ctl[c].req[2] IN
       IF MayRelease(i)
       THEN /\ mem' = [mem EXCEPT !.released = @ \cup {i}]
            /\ proc' = [proc EXCEPT ![i] = IF @ = "blocked" /\ i \notin killed THEN "released" ELSE @]
            /\ Begin(c, "result") /\ UNCHANGED killed
       ELSE ctl' = Answered(c, "bad") /\ Abandon(i) /\ UNCHANGED proc
    /\ UNCHANGED <<supVars, witness, cg, wrote, faults>>
AwaitResult(c) ==
    /\ At(c, "release", "result")
    /\ \/ proc[ctl[c].op.s] = "done" /\ ctl' = Answered(c, "ok") /\ UNCHANGED <<mem, killed>>
       \/ ctl' = Answered(c, "bad") /\ Abandon(ctl[c].op.s)
    /\ UNCHANGED <<supVars, witness, cg, proc, wrote, faults>>

\* stop_scope: kill the group, then wait until it is empty and the processes it
\* was born with are absent; a scope already stopped is only observed again.
DoStop(c) ==
    /\ Receives(c) /\ ctl[c].req[1] = "stop"
    /\ LET s == ctl[c].req[2] IN
       IF s \notin mem.known THEN Refuse(c)
       ELSE /\ mem' = [mem EXCEPT !.active = @ \ {s}]
            /\ killed' = IF s \in mem.stopped THEN killed ELSE Killed({s})
            /\ Begin(c, "empty") /\ UNCHANGED <<witness, cg, proc>>
    /\ UNCHANGED <<supVars, wrote, faults>>
AwaitStopped(c) ==
    /\ At(c, "stop", "empty")
    /\ LET s == ctl[c].op.s IN
       \/ /\ ~Populated(s) /\ \A t \in Below(s) : Absent(t)
          /\ mem' = [mem EXCEPT !.stopped = @ \cup {s}]
          /\ ctl' = Answered(c, "ok")
       \/ ctl' = Answered(c, "bad") /\ UNCHANGED mem
    /\ UNCHANGED <<supVars, witness, cg, proc, killed, wrote, faults>>

\* inspect_worker_reservation: the binding must be whole; the controller it names
\* is given time to end by itself, and after that a signal and no answer.
DoInspect(c) ==
    /\ Receives(c) /\ ctl[c].req[1] = "inspect"
    /\ IF witness.n >= Binding THEN Begin(c, "wait") ELSE ctl' = Answered(c, "bad")
    /\ UNCHANGED <<supVars, ctlVars, wrote, faults>>
WriterGone(c) ==
    /\ At(c, "inspect", "wait") /\ Gone(1) /\ Go(c, "read")
    /\ UNCHANGED <<supVars, ctlVars, wrote, faults>>
WriterLate(c) ==
    /\ At(c, "inspect", "wait") /\ ~Gone(1)
    /\ ctl' = [Answered(c, "bad") EXCEPT ![1].term = TRUE]
    /\ UNCHANGED <<supVars, ctlVars, wrote, faults>>
ReadWitness(c) ==
    /\ At(c, "inspect", "read")
    /\ CASE Readable /\ witness.n = Binding /\ ~cg ->
              ctl' = Answered(c, "no_spawn") /\ UNCHANGED killed
         [] Readable /\ witness.n = Full -> Go(c, "empty") /\ killed' = Killed({"w"})
         [] OTHER -> ctl' = Answered(c, "bad") /\ UNCHANGED killed
    /\ UNCHANGED <<supVars, witness, cg, mem, proc, wrote, faults>>

\* terminate_retained: the old subreaper is signalled if it still runs, and not
\* waited for.
DoRetain(c) ==
    /\ Receives(c) /\ ctl[c].req[1] = "retain" /\ cg
    /\ killed' = Killed({"w"})
    /\ ctl' = [ctl EXCEPT ![c] = [@ EXCEPT !.req = None, !.op = [cmd |-> "retain", s |-> "w", at |-> "empty"]],
                          ![1].term = @ \/ ~Gone(1)]
    /\ UNCHANGED <<supVars, witness, cg, mem, proc, wrote, faults>>
AwaitEmpty(c) ==
    /\ At(c, "inspect", "empty") \/ At(c, "retain", "empty")
    /\ \/ ~Populated("w") /\ Absent("w") /\ ctl' = Answered(c, "created")
       \/ ctl' = Answered(c, "bad")
    /\ UNCHANGED <<supVars, ctlVars, wrote, faults>>

\* The loop ends at a signal or at the end of the channel: every group is killed
\* first, and then waited for at most so long.
StopEverything(c) ==
    /\ ctl[c].st = "up" /\ ctl[c].op = None /\ (ctl[c].term \/ (~ctl[c].chan /\ ctl[c].req = None))
    /\ ctl' = [ctl EXCEPT ![c] = [@ EXCEPT !.st = "stopping", !.req = None]]
    /\ killed' = IF c = 1 THEN Killed(mem.created) ELSE killed
    /\ UNCHANGED <<supVars, witness, cg, mem, proc, wrote, faults>>
Exit(c) ==
    /\ ctl[c].st = "stopping" /\ ctl' = [ctl EXCEPT ![c].st = "gone"]
    /\ UNCHANGED <<supVars, ctlVars, wrote, faults>>

\* A controller is killed; the frame it was appending is torn.
KillController(c) ==
    /\ ctl[c].st \in {"up", "stopping"} /\ faults < MaxFault /\ faults' = faults + 1
    /\ ctl' = [ctl EXCEPT ![c] = [@ EXCEPT !.st = "gone", !.op = None, !.req = None, !.rep = None]]
    /\ witness' \in IF ctl[c].op # None /\ ctl[c].op.at \in DOMAIN FrameOf
                    THEN {witness, [witness EXCEPT !.torn = TRUE]} ELSE {witness}
    /\ UNCHANGED <<supVars, cg, mem, proc, killed, wrote>>

-----------------------------------------------------------------------------
(* The processes of a scope: cliq-linux-worker.c, cliq-linux-edit.c and the    *)
(* init they run under.                                                        *)
Boot(s) ==
    /\ proc[s] = "booting" /\ s \notin killed
    /\ proc' = [proc EXCEPT ![s] = "blocked"]
    /\ UNCHANGED <<supVars, ctl, witness, cg, mem, killed, wrote, faults>>

\* The edit is refused without effect or changes the generation, in part if a step
\* of it fails; a kill may come too late to prevent it.
Write(i) ==
    /\ proc[i] = "released"
    /\ wrote' \in {wrote, [wrote EXCEPT ![i] = @ + 1]}
    /\ proc' = [proc EXCEPT ![i] = "done"]
    /\ UNCHANGED <<supVars, ctl, witness, cg, mem, killed, faults>>

\* Processes end: killed, by the end of their channel, with their parent, or of
\* themselves.  A monitor at its barrier ends only with its controller.
End(s) ==
    /\ \/ proc[s] \in Member
       \/ proc[s] = "barrier" /\ Gone(1)
    /\ proc' = [proc EXCEPT ![s] = "dead"]
    /\ UNCHANGED <<supVars, ctl, witness, cg, mem, killed, wrote, faults>>

Next ==
    \/ \E c \in Ctl : Open(c) \/ Reply(c) \/ Close(c) \/ Join(c) \/ Inspect(c) \/ Retain(c)
    \/ \E c \in Ctl : RetirePreactivation(c) \/ SampleRetained(c) \/ RetireRetained(c)
    \/ Bind \/ CreateWorker \/ Commit \/ Activate \/ Crash \/ RetirePreparation
    \/ \E i \in Inv : CreateInvocation(i) \/ Release(i) \/ Write(i)
    \/ \E s \in Scope : Stop(s) \/ Boot(s) \/ End(s)
    \/ \E c \in Ctl : DoBind(c) \/ DoCreate(c) \/ MakeGroup(c) \/ Fork(c) \/ Place(c) \/ AwaitReady(c)
    \/ \E c \in Ctl : Append(c, "intent", "mkdir") \/ Append(c, "cgroup", "fork")
    \/ \E c \in Ctl : Append(c, "monitor", "place") \/ Append(c, "record", None)
    \/ \E c \in Ctl : DoActivate(c) \/ DoRelease(c) \/ AwaitResult(c) \/ DoStop(c) \/ AwaitStopped(c)
    \/ \E c \in Ctl : DoInspect(c) \/ WriterGone(c) \/ WriterLate(c) \/ ReadWitness(c)
    \/ \E c \in Ctl : DoRetain(c) \/ AwaitEmpty(c) \/ StopEverything(c) \/ Exit(c) \/ KillController(c)

Spec == Init /\ [][Next]_vars

-----------------------------------------------------------------------------
(* Properties *)

\* A retirement says something about processes that its holder never saw.
\* Preparation and no-spawn: no process was born and none can be.  Created: every
\* process is dead and none can be born.  Retained: the worker is dead and nothing
\* is left that could release an invocation.
ReceiptsAreTrue ==
    /\ receipt \cap {"preparation", "no_spawn"} # {} =>
           Gone(1) /\ \A s \in Scope : proc[s] = "none"
    /\ "created" \in receipt => Gone(1) /\ \A s \in Scope : Absent(s)
    /\ "retained" \in receipt => Gone(1) /\ Absent("w") /\ \A i \in Inv : proc[i] # "released"

\* The supervisor's own stop of the worker: what it holds as stopped is dead.
StoppedIsDead == js["w"] = "stopped" => \A s \in Scope : Absent(s)

\* An invocation changes the generation at most once, after its activation was
\* committed, and not after any retirement was handed out.
WritesAreClaimed ==
    \A i \in Inv : wrote'[i] # wrote[i] =>
        wrote[i] = 0 /\ row = "activated" /\ receipt = {}

\* An invocation is let go only while the worker it belongs to is active.
ReleasedUnderParent ==
    \A i \in Inv : proc[i] = "blocked" /\ proc'[i] = "released" => proc["w"] = "active"
=============================================================================
