---------------------------- MODULE PlatformTask ----------------------------
(***************************************************************************)
(* Calls of the native credential platform                                 *)
(* (native/linux/credential-platform.c): one task at a time, executed by a *)
(* worker under a watchdog thread, with a deadline timer on the main loop, *)
(* a caller that may cancel an inspection and join it, and an environment  *)
(* that may be torn down.  The secret service is shared with others.       *)
(*                                                                         *)
(* Operations on the watchdog's mutex and condition do not fail.           *)
(***************************************************************************)
EXTENDS Naturals

CONSTANTS
    Task,        \* calls, in any order, one of them at a time
    MaxItem      \* matching items the service can hold

VARIABLES
    t,           \* struct task and, for an inspection, its owner
    busy,        \* job_in_flight
    failed,      \* retirement_failed
    env,         \* the environment is being torn down
    late,        \* tasks whose deadline has passed
    store        \* the secret service: matching items, and which instance serves
vars == <<t, busy, failed, env, late, store>>

Operation == {"create", "inspect", "delete", "manager"}

\* struct task as calloc leaves it
NoTask == [op |-> "none", work |-> "none", at |-> "start", dog |-> "none", signalled |-> FALSE,
           timer |-> "none", expired |-> FALSE, cancel |-> FALSE, asked |-> FALSE, caller |-> FALSE,
           error |-> FALSE, unsafe |-> FALSE, bad |-> FALSE, secret |-> FALSE, bus |-> FALSE,
           service |-> 0, result |-> "none", effect |-> "none",
           answer |-> "none", join |-> "none", gone |-> FALSE]

Init ==
    /\ t = [k \in Task |-> NoTask]
    /\ busy = FALSE /\ failed = FALSE /\ env = FALSE /\ late = {}
    /\ store = [items |-> 0, service |-> 1]

CloseTimer(x) == IF x.timer = "armed" THEN "closing" ELSE x.timer

\* finish_task's gate: neither the worker nor the timer can reach the task again.
\* Mutant: the closed timer is enough.
MayFinish_Timer(x) == x.timer \notin {"armed", "closing"}
MayFinish(x) == x.work = "joined" /\ x.timer \notin {"armed", "closing"}

\* finish_task, with the main handles retired or not (clean): the answer, then
\* the slot, then the join.
Finished(k, x, clean) ==
    LET unsafe == x.unsafe \/ x.bad \/ ~clean
        error == x.error \/ x.caller \/ x.expired \/ k \in late \/ unsafe
    IN  [x EXCEPT !.secret = FALSE, !.unsafe = unsafe, !.error = error, !.gone = TRUE,
                  !.answer = IF env THEN @ ELSE IF error THEN "error" ELSE "ok",
                  !.join = IF @ # "pending" \/ env THEN @ ELSE IF unsafe THEN "error" ELSE "ok"]

Finish(k, x) ==
    IF ~MayFinish(x) THEN t' = [t EXCEPT ![k] = x] /\ UNCHANGED busy /\ failed' = (failed \/ x.bad)
    ELSE \E clean \in BOOLEAN :
           /\ t' = [t EXCEPT ![k] = Finished(k, x, clean)]
           /\ busy' = FALSE
           /\ failed' = (failed \/ x.bad \/ ~clean)

\* release_task: of a task that is gone only an inspection's owner remains.
Released(x) ==
    IF ~x.gone THEN x
    ELSE IF x.op # "inspect" THEN [NoTask EXCEPT !.op = "gone"]
    ELSE [NoTask EXCEPT !.op = "inspect", !.work = "joined", !.unsafe = x.unsafe,
                        !.join = x.join, !.gone = TRUE]

-----------------------------------------------------------------------------
(* The main loop *)

\* submit: the slot is taken or the call refused; a setup that fails answers
\* through the same gates.
Submit(k, op) ==
    /\ t[k].op = "none" /\ ~failed /\ ~busy /\ ~env
    /\ LET x == [NoTask EXCEPT !.op = op, !.secret = op = "create"]
           With(y) == [l \in Task |-> IF l = k THEN y ELSE Released(t[l])]
       IN  \/ /\ t' = With([x EXCEPT !.work = "queued", !.timer = "armed"])
              /\ busy' = TRUE
              /\ UNCHANGED failed
           \/ /\ t' = With([x EXCEPT !.work = "joined", !.error = TRUE, !.timer = "closing"])
              /\ busy' = TRUE
              /\ UNCHANGED failed
           \/ \E clean \in BOOLEAN :
                /\ t' = With(Finished(k, [x EXCEPT !.work = "joined", !.error = TRUE], clean))
                /\ failed' = ~clean
                /\ UNCHANGED busy
    /\ late' = {}
    /\ UNCHANGED <<env, store>>

\* cancel_task: queued work is taken back, running work only told; any other
\* answer of the runtime is a retirement that failed.
Cancelled(x) ==
    LET y == [x EXCEPT !.cancel = TRUE, !.timer = CloseTimer(x)]
    IN  IF x.work = "joined" \/ x.asked THEN {y}
        ELSE {[y EXCEPT !.asked = TRUE, !.work = IF @ = "queued" THEN "taken" ELSE @],
              [y EXCEPT !.asked = TRUE, !.bad = TRUE]}

Active(k) == t[k].work # "none" /\ ~t[k].gone

\* deadline_expired
Deadline(k) ==
    /\ Active(k) /\ k \in late /\ t[k].timer = "armed"
    /\ \E x \in Cancelled([t[k] EXCEPT !.expired = TRUE]) :
         t' = [t EXCEPT ![k] = x] /\ failed' = (failed \/ x.bad)
    /\ UNCHANGED <<busy, env, late, store>>

\* timer_closed
TimerClosed(k) ==
    /\ t[k].timer = "closing"
    /\ UNCHANGED <<env, late, store>>
    /\ Finish(k, [t[k] EXCEPT !.timer = "closed"])

\* complete
Complete(k) ==
    /\ t[k].work \in {"returned", "taken"} /\ ~t[k].gone
    /\ UNCHANGED <<env, late, store>>
    /\ Finish(k, [t[k] EXCEPT !.work = "joined", !.error = @ \/ t[k].work = "taken",
                              !.timer = CloseTimer(t[k])])

\* cancel_inspection: the first call makes the promise, later ones return it.
CancelAndJoin(k) ==
    /\ t[k].op = "inspect" /\ t[k].work # "none" /\ t[k].join = "none" /\ ~env
    /\ IF t[k].gone
       THEN /\ t' = [t EXCEPT ![k].join = IF t[k].unsafe THEN "error" ELSE "ok"]
            /\ UNCHANGED failed
       ELSE \E x \in Cancelled([t[k] EXCEPT !.join = "pending", !.caller = TRUE]) :
              t' = [t EXCEPT ![k] = x] /\ failed' = (failed \/ x.bad)
    /\ UNCHANGED <<busy, env, late, store>>

\* cleanup_task, finalize_inspection
Teardown ==
    /\ ~env /\ env' = TRUE
    /\ IF \E k \in Task : Active(k)
       THEN \E k \in Task : Active(k) /\ \E x \in Cancelled(t[k]) :
              t' = [t EXCEPT ![k] = x] /\ failed' = (failed \/ x.bad)
       ELSE UNCHANGED <<t, failed>>
    /\ UNCHANGED <<busy, late, store>>

-----------------------------------------------------------------------------
(* The worker and its watchdog *)

Set(k, x) == t' = [t EXCEPT ![k] = x] /\ UNCHANGED <<busy, failed, env, late>>
Step(k, x) == Set(k, x) /\ UNCHANGED store

\* execute: nothing is begun late or after a failed retirement.
Execute(k) ==
    /\ t[k].work = "queued"
    /\ \/ Step(k, [t[k] EXCEPT !.work = "running", !.error = TRUE, !.at = "done"])
       \/ /\ ~failed /\ k \notin late
          /\ Step(k, [t[k] EXCEPT !.work = "running", !.dog = "waiting", !.at = "connect"])

At(k, at) == t[k].work = "running" /\ t[k].at = at

\* call: every call ends at the deadline or the cancellation, and may fail before.
Answers(k) == k \notin late /\ ~t[k].cancel
Fails(k) ==
    /\ t[k].work = "running" /\ t[k].at \notin {"done", "closed"}
    /\ Step(k, [t[k] EXCEPT !.error = TRUE, !.at = "done"])

\* connect_bus, observe_owner, default_collection
ConnectBus(k) ==
    /\ At(k, "connect") /\ Answers(k)
    /\ Step(k, [t[k] EXCEPT !.bus = TRUE, !.at = "observe"])
Observe(k) ==
    /\ At(k, "observe") /\ Answers(k)
    /\ Step(k, [t[k] EXCEPT !.service = store.service, !.at = "operate"])

\* The service answers only the instance the task has observed.
Served(k, at) == At(k, at) /\ Answers(k) /\ store.service = t[k].service

\* search_item: at most one item, for a creation none.
SearchItem(k) ==
    /\ Served(k, "operate") /\ t[k].op # "manager"
    /\ \/ t[k].op = "create" /\ store.items = 0 /\ Step(k, [t[k] EXCEPT !.at = "create"])
       \/ /\ t[k].op = "inspect" /\ store.items = 1
          /\ Step(k, [t[k] EXCEPT !.result = "present", !.at = "last"])
       \/ t[k].op = "delete" /\ store.items = 1 /\ Step(k, [t[k] EXCEPT !.at = "delete"])
       \/ /\ t[k].op = "delete" /\ store.items = 0
          /\ Step(k, [t[k] EXCEPT !.result = "absent", !.at = "last"])

\* create_compare's CreateItem, secret_operation's Delete: a call that was sent
\* takes effect whether or not its answer comes.
Effect(k, answered, effect) ==
    Set(k, [t[k] EXCEPT !.effect = effect, !.at = IF answered THEN "confirm" ELSE "done",
                        !.error = @ \/ ~answered])
CreateItem(k) ==
    /\ Served(k, "create") /\ store.items < MaxItem
    /\ \E answered \in BOOLEAN : Effect(k, answered, "created")
    /\ store' = [store EXCEPT !.items = @ + 1]
DeleteItem(k) ==
    /\ Served(k, "delete") /\ store.items > 0
    /\ \E answered \in BOOLEAN : Effect(k, answered, "deleted")
    /\ store' = [store EXCEPT !.items = @ - 1]

\* The item is searched again: the only one, with these bytes, or none.
Confirm(k) ==
    /\ Served(k, "confirm")
    /\ store.items = (IF t[k].op = "create" THEN 1 ELSE 0)
    /\ Step(k, [t[k] EXCEPT !.result = IF t[k].op = "create" THEN "stored" ELSE "deleted", !.at = "last"])

\* manager_operation: the unit is started or reloaded, then read.
Manager(k) ==
    /\ Served(k, "operate") /\ t[k].op = "manager"
    /\ \E answered \in BOOLEAN :
         Step(k, [t[k] EXCEPT !.effect = "started", !.error = @ \/ ~answered,
                              !.result = IF answered THEN "started" ELSE "none",
                              !.at = IF answered THEN "last" ELSE "done"])

\* The collection, the owner and the bus are what they were.
Unchanged_(k) == Served(k, "last") /\ Step(k, [t[k] EXCEPT !.at = "done"])

\* execute's end: the secret is wiped and the bus closed; a bus that does not
\* close is kept.
Disconnect(k) ==
    /\ At(k, "done")
    /\ \E kept \in BOOLEAN :
         LET x == [t[k] EXCEPT !.secret = FALSE, !.at = "closed", !.signalled = TRUE]
         IN  IF t[k].bus /\ kept
             THEN /\ t' = [t EXCEPT ![k] = [x EXCEPT !.unsafe = TRUE, !.error = TRUE]]
                  /\ failed' = TRUE
                  /\ UNCHANGED <<busy, env, late, store>>
             ELSE Step(k, [x EXCEPT !.bus = FALSE])

\* watchdog: woken by the end of the work, or by the deadline.
Watchdog(k) ==
    /\ t[k].dog = "waiting" /\ (t[k].signalled \/ k \in late)
    /\ Step(k, [t[k] EXCEPT !.dog = "ended", !.cancel = @ \/ ~t[k].signalled])

\* The watchdog is joined; another task's failed retirement shows here.
Return(k) ==
    /\ At(k, "closed") /\ t[k].dog # "waiting"
    /\ Step(k, [t[k] EXCEPT !.work = "returned", !.unsafe = @ \/ failed, !.error = @ \/ failed])

-----------------------------------------------------------------------------
(* Outside *)

Expire(k) ==
    /\ Active(k) /\ k \notin late
    /\ late' = late \cup {k}
    /\ UNCHANGED <<t, busy, failed, env, store>>

\* Another program adds or removes a matching item, or the service is restarted.
Others ==
    /\ \/ store.items < MaxItem /\ store' = [store EXCEPT !.items = @ + 1]
       \/ store.items > 0 /\ store' = [store EXCEPT !.items = @ - 1]
       \/ store.service = 1 /\ store' = [store EXCEPT !.service = 2]
    /\ UNCHANGED <<t, busy, failed, env, late>>

Next ==
    \/ \E k \in Task :
         \/ \E op \in Operation : Submit(k, op)
         \/ Deadline(k) \/ TimerClosed(k) \/ Complete(k) \/ CancelAndJoin(k)
         \/ Execute(k) \/ Fails(k) \/ ConnectBus(k) \/ Observe(k) \/ SearchItem(k) \/ CreateItem(k)
         \/ DeleteItem(k) \/ Confirm(k) \/ Manager(k) \/ Unchanged_(k) \/ Disconnect(k)
         \/ Watchdog(k) \/ Return(k) \/ Expire(k)
    \/ Teardown \/ Others

Spec == Init /\ [][Next]_vars

-----------------------------------------------------------------------------

\* An answer, a join and the slot are given only when nothing of the task is left
\* to run: the worker has returned, the watchdog is joined, the timer is closed
\* and the secret wiped; a join that is not an error also left no bus behind.
JoinedIsQuiet ==
    \A k \in Task :
        /\ t[k].gone => t[k].work = "joined" /\ t[k].dog # "waiting"
                        /\ t[k].timer \notin {"armed", "closing"} /\ ~t[k].secret
        /\ t[k].answer = "ok" \/ t[k].join = "ok" => t[k].gone /\ ~t[k].bus

\* The slot is taken exactly while a task is under way: two never work at once.
OneTaskAtATime ==
    /\ busy <=> \E k \in Task : Active(k)
    /\ \A k, l \in Task : Active(k) /\ Active(l) => k = l

\* An answer says what the task did: a stored or deleted item is this task's own
\* effect, an absent or present one leaves none, and no cancelled, late or badly
\* retired task succeeds.
AnswerIsTrue ==
    \A k \in Task : t[k].answer = "ok" =>
        /\ ~t[k].caller /\ ~t[k].expired /\ ~t[k].unsafe
        /\ t[k].effect = CASE t[k].result = "stored" -> "created"
                           [] t[k].result \in {"deleted", "started"} -> t[k].result
                           [] OTHER -> "none"
        /\ t[k].result # "none"
=============================================================================
