----------------------------- MODULE ModelBroker -----------------------------
(***************************************************************************)
(* One model transport of the native broker                                *)
(* (native/linux/credential-platform.c, built with                         *)
(* CLIQ_MODEL_BROKER_MODULE): the key is read from the secret service, the *)
(* provider connected, one request released, and everything retired by     *)
(* the same chain of workers; the no-release fence tells the journal that  *)
(* no byte ever left.                                                      *)
(*                                                                         *)
(* The main loop runs calls and callbacks one at a time; the worker of a   *)
(* stage runs beside it.  Operations on the release mutex do not fail.     *)
(***************************************************************************)
EXTENDS Naturals

CONSTANTS
    Binding,     \* dispatches that name this transport's token
    NoBinding

VARIABLES
    b,           \* struct broker, its worker and the promises of its handle
    peer,        \* what the provider has seen: "none", "connected", "request"
    sent,        \* requests it has received
    item,        \* the secret service's item, as observed or "changed"
    expired      \* the deadline has passed
vars == <<b, peer, sent, item, expired>>

Init ==
    /\ b = [made |-> FALSE, work |-> "idle", stage |-> "prepare", at |-> "start",
            error |-> FALSE, unsafe |-> FALSE, failed |-> FALSE, cancelled |-> FALSE,
            prepared |-> FALSE, connected |-> FALSE, exchanged |-> FALSE,
            network |-> FALSE, request |-> FALSE, active |-> FALSE, revoked |-> FALSE,
            closing |-> FALSE, retired |-> FALSE, finished |-> FALSE, env |-> FALSE,
            bound |-> NoBinding, retained |-> FALSE, locked |-> FALSE, guard |-> NoBinding,
            mutex |-> TRUE, hook |-> TRUE, handle |-> "held", final |-> FALSE, timer |-> "armed",
            secret |-> FALSE, bus |-> FALSE, conn |-> FALSE, response |-> "none",
            ready |-> "pending", phase |-> "none", close |-> "none"]
    /\ peer = "none" /\ sent = 0
    /\ item = "observed"
    /\ expired = FALSE

Unseen == UNCHANGED <<peer, sent, item, expired>>

\* broker_live
Live(x) == ~x.cancelled /\ ~x.failed /\ ~expired

\* The strong reference goes, and with it the last reason to keep the handle.
Weak(x) == IF x.handle = "held" /\ ~x.unsafe THEN "weak" ELSE x.handle

Settled(promise, well) ==
    IF promise # "pending" THEN promise ELSE IF well THEN "resolved" ELSE "rejected"

\* broker_finish_close: after the last worker and the timer.  A retained fence
\* keeps the token, the mutex, the cleanup hook and the handle for later.
FinishClose(x) ==
    LET kept == x.retained /\ ~(x.env /\ ~x.locked)
        y == [x EXCEPT !.retained = kept, !.mutex = @ /\ kept, !.hook = @ /\ kept,
                       !.handle = IF kept THEN @ ELSE Weak(x)]
        answered == ~x.error /\ ~x.unsafe /\ x.exchanged /\ x.response # "none"
    IN  IF ~x.retired \/ x.timer # "closed" THEN x
        ELSE IF x.finished THEN y
        ELSE IF x.env THEN [y EXCEPT !.finished = TRUE, !.response = "none"]
        ELSE [y EXCEPT !.finished = TRUE, !.response = "none",
                       !.ready = Settled(@, FALSE),
                       !.phase = IF @ = "pending" /\ answered THEN "answered" ELSE Settled(@, FALSE),
                       !.close = Settled(@, ~x.unsafe)]

CloseTimer(x) == IF x.timer = "armed" THEN "closing" ELSE x.timer

\* broker_queue: a stage's worker is queued.
Queue(x, stage) == [x EXCEPT !.work = "queued", !.stage = stage, !.at = "start"]

\* broker_begin_close: revoke, cancel, and retire once no worker runs.  The
\* outcomes: the retirement queued, or impossible to queue.
BeginClose(x) ==
    LET y == [x EXCEPT !.closing = TRUE, !.cancelled = TRUE, !.revoked = TRUE]
    IN  IF x.retired THEN {x}
        ELSE IF x.work # "idle" THEN {y}
        ELSE {Queue(y, "retire"),
              FinishClose([y EXCEPT !.error = TRUE, !.unsafe = TRUE, !.failed = TRUE, !.retired = TRUE,
                                    !.secret = FALSE, !.timer = CloseTimer(y)])}

-----------------------------------------------------------------------------
(* Calls of the handle *)

\* broker_prepare_call: the handle is published before any credential I/O.  One that
\* cannot be made at all fails the process (OtherFails) and has no state here.
Prepare ==
    /\ ~b.made /\ ~b.failed
    /\ b' \in LET x == [b EXCEPT !.made = TRUE]
              IN  {Queue(x, "prepare")} \cup BeginClose([x EXCEPT !.error = TRUE])
    /\ Unseen

Reachable == b.made /\ ~b.env /\ ~b.final

\* broker_stage_call, up to its test of the deadline.
Callable ==
    /\ Reachable /\ b.work = "idle"
    /\ ~b.closing /\ ~b.retired /\ ~b.error /\ b.prepared

\* broker_stage_call, under the release mutex: what a later failure cannot undo.
\* Mutant: the network counts as started once it is connected.
Started_Late(x, stage, d) ==
    IF stage = "connect" THEN [x EXCEPT !.bound = d, !.active = TRUE, !.phase = "pending"]
    ELSE [x EXCEPT !.network = TRUE, !.request = TRUE, !.exchanged = TRUE, !.phase = "pending"]
Started(x, stage, d) ==
    IF x.revoked \/ (stage = "connect" /\ x.active) THEN [x EXCEPT !.error = TRUE, !.phase = "pending"]
    ELSE IF stage = "connect"
    THEN [x EXCEPT !.bound = d, !.network = TRUE, !.active = TRUE, !.phase = "pending"]
    ELSE [x EXCEPT !.request = TRUE, !.exchanged = TRUE, !.phase = "pending"]

\* broker_connect_call, broker_release_call: the stage is queued, or refused
\* and everything closed.
StageCall(stage, d) ==
    /\ Callable /\ Live(b)
    /\ IF stage = "connect" THEN b.bound = NoBinding /\ ~b.connected
       ELSE b.bound = d /\ b.connected /\ ~b.exchanged
    /\ LET x == Started(b, stage, d)
       IN  \/ ~x.error /\ b' = Queue(x, stage)
           \/ b' \in BeginClose([x EXCEPT !.error = TRUE, !.phase = "rejected"])
    /\ Unseen

\* A call that finds the deadline passed leaves the error behind and closes nothing.
LateCall ==
    /\ Callable /\ ~Live(b)
    /\ b' = [b EXCEPT !.error = TRUE]
    /\ Unseen

\* broker_close_call
Close ==
    /\ Reachable /\ b.close = "none"
    /\ IF b.finished THEN b' = [b EXCEPT !.close = Settled("pending", ~b.unsafe)]
       ELSE b' \in BeginClose([b EXCEPT !.close = "pending"])
    /\ Unseen

\* broker_retain_fence_call: only before anything was released.
RetainFence ==
    /\ Reachable /\ b.prepared /\ b.work = "idle" /\ ~b.closing /\ ~b.retired /\ ~b.unsafe
    /\ ~b.retained /\ ~b.locked /\ Live(b)
    /\ ~b.revoked /\ ~b.active /\ ~b.network /\ ~b.request
    /\ b' = [b EXCEPT !.retained = TRUE]
    /\ Unseen

\* broker_acquire_fence_call, without its lock on the mutex
MayAcquire(d) ==
    /\ Reachable /\ b.retired /\ b.finished /\ b.work = "idle" /\ ~b.unsafe /\ ~b.failed
    /\ b.mutex /\ b.retained /\ ~b.locked
    /\ b.revoked /\ ~b.active /\ ~b.network /\ ~b.request
    /\ b.bound \in {NoBinding, d}

\* The guard is made, or dropped at once: the binding stays.
AcquireFence(d) ==
    /\ MayAcquire(d)
    /\ \/ b' = [b EXCEPT !.locked = TRUE, !.bound = d, !.guard = d]
       \/ b' = [b EXCEPT !.bound = d]
    /\ Unseen

\* broker_fence_live: what assertHeld answers.
FenceLive(x) ==
    /\ x.guard # NoBinding /\ x.guard = x.bound
    /\ ~x.unsafe /\ ~x.env /\ ~x.failed
    /\ x.retired /\ x.finished /\ x.work = "idle" /\ x.mutex /\ x.locked /\ x.retained
    /\ x.revoked /\ ~x.active /\ ~x.network /\ ~x.request

\* broker_free: a transport that did not retire is kept until the process ends.
Freed(x) == IF x.final /\ x.guard = NoBinding /\ x.retired /\ ~x.unsafe THEN "freed" ELSE x.handle

\* broker_fence_drop, by close or by the finalizer of the guard.
DropFence ==
    /\ b.guard # NoBinding
    /\ LET x == [b EXCEPT !.locked = FALSE, !.guard = NoBinding]
       IN  b' = [x EXCEPT !.handle = Freed(x)]
    /\ Unseen

\* broker_release_fence_call
ReleaseFence ==
    /\ Reachable /\ b.retired /\ b.finished /\ ~b.locked
    /\ b' = IF b.unsafe THEN [b EXCEPT !.failed = TRUE]
            ELSE FinishClose([b EXCEPT !.retained = FALSE])
    /\ Unseen

-----------------------------------------------------------------------------
(* The worker of a stage *)

\* broker_worker's end: a failed retirement anywhere in the process shows here.
Returned(x) == [x EXCEPT !.work = "returned", !.unsafe = @ \/ x.failed, !.error = @ \/ x.failed]

WorkerStarts ==
    /\ b.work = "queued"
    /\ b' = IF b.stage # "retire" /\ ~Live(b) THEN [b EXCEPT !.error = TRUE, !.work = "returned"]
            ELSE [b EXCEPT !.work = "running"]
    /\ Unseen

Running(stage, at) == b.work = "running" /\ b.stage = stage /\ b.at = at

\* Any D-Bus call, handshake, write or read can fail where it is.
WorkerFails ==
    /\ b.work = "running" /\ b.stage # "retire"
    /\ b' = Returned([b EXCEPT !.error = TRUE])
    /\ Unseen

\* broker_read_key: the item is compared before and after its secret is copied.
ReadKey ==
    /\ \/ Running("prepare", "start") /\ b' = [b EXCEPT !.bus = TRUE, !.at = "bus"]
       \/ /\ Running("prepare", "bus") /\ item = "observed"
          /\ b' = [b EXCEPT !.secret = TRUE, !.at = "copied"]
       \/ Running("prepare", "copied") /\ item = "observed" /\ Live(b) /\ b' = Returned(b)
    /\ Unseen

\* broker_connect
Connect ==
    /\ \/ /\ Running("connect", "start")
          /\ b' = [b EXCEPT !.conn = TRUE, !.at = "tcp"]
          /\ peer' = "connected"
       \/ /\ Running("connect", "tcp") /\ Live(b)
          /\ b' = [b EXCEPT !.at = "tls"]
          /\ UNCHANGED peer
       \/ /\ Running("connect", "tls") /\ item = "observed" /\ Live(b)
          /\ b' = Returned(b)
          /\ UNCHANGED peer
    /\ UNCHANGED <<sent, item, expired>>

\* broker_exchange: the first byte written is a request for the provider.
SendRequest ==
    /\ Running("exchange", "start") /\ Live(b)
    /\ b' = [b EXCEPT !.at = "sent"]
    /\ peer' = "request" /\ sent' = sent + 1
    /\ UNCHANGED <<item, expired>>

\* broker_response: all of the body or as much as the cap admits; a cut, an
\* echoed key or a malformed head is a failure.
ReadResponse ==
    /\ \/ /\ Running("exchange", "sent") /\ Live(b)
          /\ \E kind \in {"complete", "prefix"} : b' = [b EXCEPT !.response = kind, !.at = "read"]
       \/ Running("exchange", "read") /\ Live(b) /\ b' = Returned(b)
    /\ Unseen

\* broker_retire: what does not close stays, and says so.
Retire ==
    /\ Running("retire", "start")
    /\ \E connKept, busKept \in BOOLEAN :
         LET kept == (b.conn /\ connKept) \/ (b.bus /\ busKept)
         IN  b' = Returned([b EXCEPT !.conn = @ /\ (connKept \/ b.unsafe), !.bus = @ /\ busKept,
                                     !.failed = @ \/ kept, !.unsafe = @ \/ kept, !.secret = FALSE])
    /\ Unseen

-----------------------------------------------------------------------------
(* Callbacks of the main loop *)

\* broker_complete: what a stage that ended well lets the caller see.
Published(x) ==
    CASE x.stage = "prepare" -> [x EXCEPT !.prepared = TRUE, !.ready = "resolved"]
      [] x.stage = "connect" -> [x EXCEPT !.connected = TRUE, !.phase = "resolved"]
      [] OTHER -> x

Complete ==
    /\ b.work = "returned"
    /\ \E deleted \in BOOLEAN :
         LET x == [b EXCEPT !.work = "idle", !.unsafe = @ \/ ~deleted, !.failed = @ \/ ~deleted]
             y == [x EXCEPT !.error = @ \/ ~Live(x) \/ x.closing]
             z == IF y.error THEN y ELSE Published(y)
         IN  IF b.stage = "retire"
             THEN b' = FinishClose([x EXCEPT !.revoked = TRUE, !.active = FALSE, !.retired = TRUE,
                                             !.timer = CloseTimer(x)])
             ELSE IF z.error \/ z.stage = "exchange" THEN b' \in BeginClose(z)
             ELSE b' = z
    /\ Unseen

\* broker_deadline
Deadline ==
    /\ b.made /\ expired /\ b.timer = "armed" /\ ~b.closing
    /\ b' \in BeginClose(b)
    /\ Unseen

\* broker_timer_closed
TimerClosed ==
    /\ b.timer = "closing"
    /\ b' = FinishClose([b EXCEPT !.timer = "closed"])
    /\ Unseen

\* broker_cleanup: the environment goes, no commit can follow.
Cleanup ==
    /\ b.made /\ b.hook /\ ~b.env
    /\ \E x \in BeginClose([b EXCEPT !.env = TRUE, !.locked = FALSE, !.retained = FALSE]) :
         b' = FinishClose(x)
    /\ Unseen

\* broker_finalize: the collector has a handle nobody refers to; an environment
\* finalizes what is left once its hooks are gone.
Finalize ==
    /\ b.made /\ ~b.final /\ (b.handle = "weak" \/ (b.env /\ ~b.hook))
    /\ LET x == [b EXCEPT !.final = TRUE] IN b' = [x EXCEPT !.handle = Freed(x)]
    /\ Unseen

-----------------------------------------------------------------------------
(* Outside *)

Expire == ~expired /\ expired' = TRUE /\ UNCHANGED <<b, peer, sent, item>>

\* The item, its collection, the service or the bus is replaced.
ItemChanges == item = "observed" /\ item' = "changed" /\ UNCHANGED <<b, peer, sent, expired>>

\* Another transport of the process fails to retire.
OtherFails == ~b.failed /\ b' = [b EXCEPT !.failed = TRUE] /\ Unseen

Next ==
    \/ Prepare \/ LateCall \/ Close \/ RetainFence \/ DropFence \/ ReleaseFence
    \/ \E d \in Binding :
         StageCall("connect", d) \/ StageCall("exchange", d) \/ AcquireFence(d)
    \/ WorkerStarts \/ WorkerFails \/ ReadKey \/ Connect \/ SendRequest \/ ReadResponse \/ Retire
    \/ Complete \/ Deadline \/ TimerClosed \/ Cleanup \/ Finalize
    \/ Expire \/ ItemChanges \/ OtherFails

Spec == Init /\ [][Next]_vars

-----------------------------------------------------------------------------

\* A guard that asserts, and a closed answer that says no network or no request
\* was started, are true for good: whatever the worker was doing when the close
\* came, the provider has seen no more than they say.
NoReleaseIsTrue ==
    /\ FenceLive(b) => peer = "none" /\ ~b.secret
    /\ b.close = "resolved" => (peer # "none" => b.network) /\ (peer = "request" => b.request)

\* What is told to have ended has: a response, a refused preparation and a close
\* that resolve are told after the key, the connection and the bus are gone and no
\* worker can touch them.
AnsweredIsRetired ==
    b.close = "resolved" \/ b.phase = "answered" \/ (b.ready = "rejected" /\ ~b.unsafe) =>
        b.work = "idle" /\ b.timer = "closed" /\ ~b.secret /\ ~b.conn /\ ~b.bus

\* The provider sees one request at most, and an answer is the answer to it.
OneRequest == sent <= 1 /\ (b.phase = "answered" => sent = 1)

\* The transport is freed only when no guard, worker or timer can still reach it,
\* and its mutex is destroyed only unlocked.
BorrowsAreAlive ==
    /\ b.locked => b.mutex
    /\ b.handle = "freed" =>
         b.guard = NoBinding /\ b.work = "idle" /\ b.timer = "closed" /\ ~b.secret
=============================================================================
