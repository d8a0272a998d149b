--------------------------- MODULE InstalledHandle ---------------------------
(***************************************************************************)
(* The handle of a held selection (openSelected of                         *)
(* state/installed-runtime.ts): one queue for everything that reads the    *)
(* selected files, jobs of the credential platform and model transports    *)
(* beside it, and the descriptors of the scope, which close last.          *)
(*                                                                         *)
(* Promises: a step ends where the code awaits; `ok' is what the caller of *)
(* an operation sees.  The native sides of jobs and transports are         *)
(* external.                                                               *)
(***************************************************************************)
EXTENDS Naturals, Sequences, FiniteSets

CONSTANTS
    Op,            \* calls that go through the queue
    Transport,     \* model transports prepared from the handle
    Job,           \* calls of the credential platform
    MaxRev,        \* checks that a borrow's callback starts
    MaxFault

VARIABLES
    h,             \* the handle: flags of openSelected's closure, and its close
    queue,         \* the operations chained on tail
    op, tr, job,
    files,         \* whether a selected file has changed
    faults
vars == <<h, queue, op, tr, job, files, faults>>

Kind == {"check", "borrow", "anchor", "load"}

Init ==
    /\ h = [closed |-> FALSE, poisoned |-> FALSE, sticky |-> FALSE, loaded |-> FALSE,
            scope |-> "open", closing |-> "none", waits |-> {}, seen |-> {}]
    /\ queue = <<>>
    /\ op = [o \in Op |-> [kind |-> "none", st |-> "none", revs |-> 0, bad |-> FALSE]]
    /\ tr = [t \in Transport |-> [st |-> "none", call |-> "none", ret |-> "none", fence |-> FALSE,
                                  guard |-> FALSE, joined |-> FALSE, member |-> FALSE]]
    /\ job = [j \in Job |-> [st |-> "none", join |-> "none"]]
    /\ files = "signed"
    /\ faults = 0

Fault == faults < MaxFault /\ faults' = faults + 1

\* Somebody writes to a selected file.
Change ==
    /\ Fault /\ files = "signed"
    /\ files' = "changed"
    /\ UNCHANGED <<h, queue, op, tr, job>>

\* assertSelection, checkedRevalidate: false from the first failure on.
Passes == ~h.poisoned /\ ~h.sticky /\ files = "signed" /\ h.scope = "open"
Checked == [h EXCEPT !.poisoned = @ \/ ~Passes]

-----------------------------------------------------------------------------
(* The queue *)

MayEnqueue == ~h.closed

Enqueue(o, kind) ==
    /\ op[o].st = "none" /\ MayEnqueue
    /\ queue' = Append(queue, o)
    /\ op' = [op EXCEPT ![o].kind = kind, ![o].st = "queued"]
    /\ UNCHANGED <<h, tr, job, files, faults>>

\* execute consumes the handle at once and joins what is queued.  Only the
\* bootstrap calls it, which has no native module loaded.
Execute(o) ==
    /\ op[o].st = "none" /\ ~h.closed /\ ~h.loaded
    /\ \A x \in Op : op[x].kind # "load"
    /\ h' = [h EXCEPT !.closed = TRUE, !.closing = "exec"]
    /\ queue' = Append(queue, o)
    /\ op' = [op EXCEPT ![o].kind = "exec", ![o].st = "queued"]
    /\ UNCHANGED <<tr, job, files, faults>>

Running(o, st) == queue # <<>> /\ Head(queue) = o /\ op[o].st = st
Leave(o, st) == queue' = Tail(queue) /\ op' = [op EXCEPT ![o].st = st]

\* Every operation begins with a check; assertHeld is nothing else.
FirstCheck(o) ==
    /\ Running(o, "queued")
    /\ h' = Checked
    /\ IF ~Passes
       THEN IF op[o].kind = "exec" THEN op' = [op EXCEPT ![o].st = "join"] /\ UNCHANGED queue
            ELSE Leave(o, "refused")
       ELSE IF op[o].kind = "check" THEN Leave(o, "ok")
            ELSE op' = [op EXCEPT ![o].st = "body"] /\ UNCHANGED queue
    /\ UNCHANGED <<tr, job, files, faults>>

\* The callback of a borrow starts checks it need not await, and ends.
StartRev(o) ==
    /\ Running(o, "body") /\ op[o].kind = "borrow" /\ op[o].revs < MaxRev
    /\ op' = [op EXCEPT ![o].revs = @ + 1]
    /\ UNCHANGED <<h, queue, tr, job, files, faults>>
EndRev(o) ==
    /\ op[o].revs > 0 /\ op[o].kind = "borrow"
    /\ h' = Checked
    /\ op' = [op EXCEPT ![o].revs = @ - 1, ![o].bad = @ \/ ~Passes]
    /\ UNCHANGED <<queue, tr, job, files, faults>>
EndCallback(o) ==
    /\ Running(o, "body") /\ op[o].kind = "borrow"
    /\ op' = [op EXCEPT ![o].st = "revs"]
    /\ UNCHANGED <<h, queue, tr, job, files, faults>>

RevsJoined(o) == op[o].revs = 0
EndBorrow(o) ==
    /\ Running(o, "revs") /\ RevsJoined(o)
    /\ Leave(o, IF op[o].bad THEN "refused" ELSE "ok")
    /\ UNCHANGED <<h, tr, job, files, faults>>

\* acquireAnchor, initializeKeeper, openControlClient, sealWorkerImage and the loads:
\* the native resource, another check, and a resource that fails it is closed again.
Acquire(o) ==
    /\ Running(o, "body") /\ op[o].kind \in {"anchor", "load"}
    /\ \/ op' = [op EXCEPT ![o].st = "last"] /\ UNCHANGED <<queue, faults>>
       \/ Fault /\ Leave(o, "refused")
    /\ UNCHANGED <<h, tr, job, files>>
LastCheck(o) ==
    /\ Running(o, "last")
    /\ \/ /\ Passes
          /\ Leave(o, "ok")
          /\ h' = [h EXCEPT !.loaded = @ \/ op[o].kind = "load"]
          /\ UNCHANGED faults
       \/ ~Passes /\ Leave(o, "refused") /\ h' = Checked /\ UNCHANGED faults
       \/ Fault /\ ~Passes /\ Leave(o, "refused") /\ h' = [Checked EXCEPT !.sticky = TRUE]
    /\ UNCHANGED <<tr, job, files>>

\* The terminal exec: the image leaves the scope, the scope closes, and the process
\* is replaced; a refusal joins both descriptor owners before it is reported.
ExecCheck(o) ==
    /\ Running(o, "body") /\ op[o].kind = "exec"
    /\ h' = IF Passes THEN [h EXCEPT !.scope = "closed"] ELSE Checked
    /\ op' = [op EXCEPT ![o].st = IF Passes THEN "native" ELSE "join"]
    /\ UNCHANGED <<queue, tr, job, files, faults>>
ExecImage(o) ==
    /\ Running(o, "native")
    /\ \/ Leave(o, "gone") /\ UNCHANGED faults
       \/ Fault /\ op' = [op EXCEPT ![o].st = "join"] /\ UNCHANGED queue
    /\ UNCHANGED <<h, tr, job, files>>
ExecRefused(o) ==
    /\ Running(o, "join")
    /\ Leave(o, "refused")
    /\ h' = [h EXCEPT !.scope = "closed"]
    /\ UNCHANGED <<tr, job, files, faults>>

-----------------------------------------------------------------------------
(* Jobs of the credential platform *)

Usable == h.loaded /\ ~h.closed

Invoke(j) ==
    /\ job[j].st = "none" /\ Usable
    /\ h' = Checked
    /\ job' = [job EXCEPT ![j].st = IF Passes THEN "pending" ELSE "refused"]
    /\ UNCHANGED <<queue, op, tr, files, faults>>
JobEnds(j) ==
    /\ job[j].st = "pending"
    /\ \/ job' = [job EXCEPT ![j].st = IF Passes THEN "ok" ELSE "refused"]
          /\ h' = Checked /\ UNCHANGED faults
       \/ Fault /\ job' = [job EXCEPT ![j].st = "stuck"] /\ h' = [h EXCEPT !.sticky = TRUE]
    /\ UNCHANGED <<queue, op, tr, files>>

\* cancelAndJoin of an inspection: at any time, once; its job ends after the result.
CancelAndJoin(j) ==
    /\ job[j].st \notin {"none", "refused"} /\ job[j].join = "none"
    /\ job' = [job EXCEPT ![j].join = "pending"]
    /\ UNCHANGED <<h, queue, op, tr, files, faults>>
JoinEnds(j) ==
    /\ job[j].join = "pending" /\ job[j].st # "pending"
    /\ \/ job' = [job EXCEPT ![j].join = IF job[j].st = "stuck" THEN "stuck" ELSE "done"]
          /\ UNCHANGED <<h, faults>>
       \/ Fault /\ job' = [job EXCEPT ![j].join = "stuck"] /\ h' = [h EXCEPT !.sticky = TRUE]
    /\ UNCHANGED <<queue, op, tr, files>>

-----------------------------------------------------------------------------
(* Model transports *)

\* prepareModelTransport registers its owner in the same turn.
Prepare(t) ==
    /\ tr[t].st = "none" /\ Usable
    /\ h' = Checked
    /\ tr' = [tr EXCEPT ![t].st = IF Passes THEN "preparing" ELSE "refused", ![t].member = Passes]
    /\ UNCHANGED <<queue, op, job, files, faults>>

\* The preparation ends; one that may not be used closes its transport first.
Prepared(t) ==
    /\ tr[t].st = "preparing"
    /\ \E good \in BOOLEAN :
        LET ok == good /\ ~h.closed /\ Passes IN
        /\ h' = IF good /\ ~h.closed THEN Checked ELSE h
        /\ tr' = [tr EXCEPT ![t].st = IF ok THEN "ready" ELSE "unfit",
                            ![t].ret = IF ~ok /\ @ = "none" THEN "pending" ELSE @]
    /\ UNCHANGED <<queue, op, job, files, faults>>
Unfit(t) ==
    /\ tr[t].st = "unfit" /\ tr[t].ret \in {"done", "failed"}
    /\ tr' = [tr EXCEPT ![t].st = IF tr[t].ret = "done" THEN "refused" ELSE "stuck"]
    /\ UNCHANGED <<h, queue, op, job, files, faults>>

\* retainDispatchFence, connect and releaseBody of a prepared transport.
Retain(t) ==
    /\ tr[t].st = "ready" /\ ~tr[t].fence /\ tr[t].ret = "none" /\ ~h.closed
    /\ h' = Checked
    /\ tr' = [tr EXCEPT ![t].fence = Passes]
    /\ UNCHANGED <<queue, op, job, files, faults>>
Call(t) ==
    /\ tr[t].st = "ready" /\ tr[t].call = "none" /\ ~h.closed
    /\ h' = Checked
    /\ tr' = [tr EXCEPT ![t].call = IF Passes THEN "pending" ELSE "refused"]
    /\ UNCHANGED <<queue, op, job, files, faults>>
CallEnds(t) ==
    /\ tr[t].call = "pending"
    /\ \/ /\ tr' = [tr EXCEPT ![t].call = IF Passes /\ tr[t].ret = "none" THEN "ok" ELSE "refused"]
          /\ h' = Checked /\ UNCHANGED faults
       \/ Fault /\ tr' = [tr EXCEPT ![t].call = "stuck"] /\ h' = [h EXCEPT !.sticky = TRUE]
    /\ UNCHANGED <<queue, op, job, files>>

\* close of a transport, once: it needs no selection.
CloseTransport(t) ==
    /\ tr[t].st \in {"preparing", "ready"} /\ tr[t].ret = "none"
    /\ tr' = [tr EXCEPT ![t].ret = "pending"]
    /\ UNCHANGED <<h, queue, op, job, files, faults>>
TransportClosed(t) ==
    /\ tr[t].ret = "pending" /\ tr[t].st # "preparing" /\ tr[t].call # "pending"
    /\ \/ tr' = [tr EXCEPT ![t].ret = "done", ![t].joined = TRUE, ![t].member = tr[t].fence]
          /\ UNCHANGED <<h, faults>>
       \/ Fault /\ tr' = [tr EXCEPT ![t].ret = "failed"] /\ h' = [h EXCEPT !.sticky = TRUE]
    /\ UNCHANGED <<queue, op, job, files>>

\* The no-release fence over a closed transport, and the end of the dispatch fence.
MayGuard(t) == tr[t].fence /\ tr[t].joined
AcquireGuard(t) ==
    /\ MayGuard(t) /\ ~tr[t].guard
    /\ tr' = [tr EXCEPT ![t].guard = TRUE]
    /\ UNCHANGED <<h, queue, op, job, files, faults>>
CloseGuard(t) ==
    /\ tr[t].guard
    /\ tr' = [tr EXCEPT ![t].guard = FALSE]
    /\ UNCHANGED <<h, queue, op, job, files, faults>>
ReleaseFence(t) ==
    /\ tr[t].fence
    /\ IF tr[t].guard
       THEN h' = [h EXCEPT !.sticky = TRUE] /\ UNCHANGED tr
       ELSE /\ tr' = [tr EXCEPT ![t].fence = FALSE, ![t].member = ~tr[t].joined]
            /\ UNCHANGED h
    /\ UNCHANGED <<queue, op, job, files, faults>>

-----------------------------------------------------------------------------
(* Close *)

\* platformJobs, by owner and kind, and the ones that ended without retiring.
Pending ==
    (({"job"} \X {j \in Job : job[j].st = "pending"})
        \cup ({"join"} \X {j \in Job : job[j].join = "pending"}))
    \cup (({"prepare"} \X {t \in Transport : tr[t].st \in {"preparing", "unfit"}})
        \cup ({"call"} \X {t \in Transport : tr[t].call = "pending"})
        \cup ({"close"} \X {t \in Transport : tr[t].ret = "pending"}))
Stuck ==
    (({"job"} \X {j \in Job : job[j].st = "stuck"}) \cup ({"join"} \X {j \in Job : job[j].join = "stuck"}))
    \cup (({"prepare"} \X {t \in Transport : tr[t].st = "stuck"})
        \cup ({"call"} \X {t \in Transport : tr[t].call = "stuck"})
        \cup ({"close"} \X {t \in Transport : tr[t].ret = "failed"}))
Members == {t \in Transport : tr[t].member}

WaitFor(stage, jobs) ==
    h' = [h EXCEPT !.closing = stage, !.waits = jobs, !.seen = @ \cup jobs]

\* close: new work is refused and every transport is asked to close at once, also
\* the ones whose producers are still queued.
CloseBegin ==
    /\ h.closing = "none"
    /\ tr' = [t \in Transport |->
                [tr[t] EXCEPT !.ret = IF t \in Members /\ @ = "none" THEN "pending" ELSE @]]
    /\ h' = [h EXCEPT !.closed = TRUE, !.closing = "cancel", !.waits = {"close"} \X Members,
                      !.seen = {"close"} \X Members]
    /\ UNCHANGED <<queue, op, job, files, faults>>

\* Then the queue, the jobs, and once more the jobs those started.
CloseJoins ==
    /\ h.waits \cap Pending = {}
    /\ \/ h.closing = "cancel" /\ WaitFor("tail", {})
       \/ h.closing = "tail" /\ queue = <<>> /\ WaitFor("first", Pending)
       \/ h.closing = "first" /\ WaitFor("second", Pending)
       \/ h.closing = "second" /\ WaitFor("settle", {})
    /\ UNCHANGED <<queue, op, tr, job, files, faults>>

\* Mutant: transports that did not retire are forgotten.
MayCloseScope_Any == h.seen \cap Stuck = {}
MayCloseScope == h.seen \cap Stuck = {} /\ Members = {}
CloseScope ==
    /\ h.closing = "settle"
    /\ \/ /\ MayCloseScope
          /\ h' = [h EXCEPT !.closing = "done", !.scope = "closed"]
          /\ UNCHANGED faults
       \/ /\ MayCloseScope /\ Fault
          /\ h' = [h EXCEPT !.closing = "failed", !.scope = "closed", !.sticky = TRUE]
       \/ /\ ~MayCloseScope
          /\ h' = [h EXCEPT !.closing = "failed", !.sticky = TRUE]
          /\ UNCHANGED faults
    /\ UNCHANGED <<queue, op, tr, job, files>>

Next ==
    \/ Change \/ CloseBegin \/ CloseJoins \/ CloseScope
    \/ \E o \in Op :
        \/ \E kind \in Kind : Enqueue(o, kind)
        \/ Execute(o) \/ FirstCheck(o) \/ StartRev(o) \/ EndRev(o) \/ EndCallback(o) \/ EndBorrow(o)
        \/ Acquire(o) \/ LastCheck(o) \/ ExecCheck(o) \/ ExecImage(o) \/ ExecRefused(o)
    \/ \E j \in Job : Invoke(j) \/ JobEnds(j) \/ CancelAndJoin(j) \/ JoinEnds(j)
    \/ \E t \in Transport :
        \/ Prepare(t) \/ Prepared(t) \/ Unfit(t) \/ Retain(t) \/ Call(t) \/ CallEnds(t)
        \/ CloseTransport(t) \/ TransportClosed(t) \/ AcquireGuard(t) \/ CloseGuard(t)
        \/ ReleaseFence(t)

Spec == Init /\ [][Next]_vars

-----------------------------------------------------------------------------
(* Properties *)

\* The descriptors of the selection close only when nothing that reads them is
\* left: no queued operation but the exec itself, no check a callback left behind,
\* no job that ends with a check, no transport and no fence over one.
ScopeOutlivesUse ==
    h.scope = "closed" =>
        /\ \A i \in DOMAIN queue : op[queue[i]].kind = "exec"
        /\ \A o \in Op : op[o].revs = 0
        /\ \A j \in Job : job[j].st # "pending"
        /\ \A t \in Transport :
            /\ tr[t].st \notin {"preparing", "unfit"} /\ tr[t].call # "pending"
            /\ tr[t].ret # "pending" /\ ~tr[t].fence /\ ~tr[t].guard

\* A no-release guard is held only over a transport that was joined under its
\* dispatch fence.
GuardsAreJoined == \A t \in Transport : tr[t].guard => tr[t].fence /\ tr[t].joined

\* Nothing succeeds once a selected file changed, a resource did not retire or the
\* scope closed: neither a queued operation nor a job, a call or a preparation.
SuccessIsCurrent ==
    LET became(new, old, v) == new = v /\ old # v IN
    (\/ \E o \in Op : became(op'[o].st, op[o].st, "ok") /\ op[o].kind # "borrow"
     \/ \E j \in Job : became(job'[j].st, job[j].st, "ok")
     \/ \E t \in Transport :
        became(tr'[t].st, tr[t].st, "ready") \/ became(tr'[t].call, tr[t].call, "ok"))
        => files = "signed" /\ ~h.sticky /\ h.scope = "open"
=============================================================================
