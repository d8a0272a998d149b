---------------------------- MODULE StateOwner ----------------------------
(* Who owns a state root (state/store.ts openCore, acquireOrBootstrapState-  *)
(* Owner, acquireSuccessorStateOwner; state/state-owner.ts; canonical-       *)
(* time.ts; native/state-owner/state-owner.c): processes open and close the  *)
(* store, die at any step, the wall clock goes back, somebody removes the    *)
(* lock file.  A step is what a process does between two awaits.             *)
EXTENDS Naturals, Sequences, FiniteSets

CONSTANTS
    Proc,      \* processes; one that died never comes back
    MaxTime,   \* the wall clock
    MaxEpoch,  \* owner rows
    MaxFault   \* lock files removed, clocks set back, closes that fail

VARIABLES
    disk,   \* the inode named state-owner.lock (0: none), the next one, the
            \* database file, owner rows, the time fence, who published a
            \* genesis, the date of the latest operation
    proc,   \* process -> pc, the inode it has locked, its open database, its
            \* epoch, what it sampled, the row it read
    wall    \* the time of day and the faults so far

vars == <<disk, proc, wall>>

NoFence == [epoch |-> 0, last |-> 0, state |-> "healthy"]
Fresh == [pc |-> "new", create |-> FALSE, ino |-> 0, db |-> FALSE, epoch |-> 0, at |-> 0, prior |-> 0]

Init ==
    /\ disk = [lock |-> 0, next |-> 1, db |-> FALSE, rows |-> <<>>, fence |-> NoFence, cas |-> {}, stamp |-> 0]
    /\ proc = [p \in Proc |-> Fresh]
    /\ wall = [now |-> 1, faults |-> 0]

At(p, pc) == proc[p].pc = pc
Step(p, new) == proc' = [proc EXCEPT ![p] = new]
Dead(p) == proc[p].pc = "dead"

\* lock_is_held: the descriptor is open and its inode still has the name.
assertHeld(p) == proc[p].ino # 0 /\ proc[p].ino = disk.lock

latest == Len(disk.rows)
activeRow == latest > 0 /\ disk.rows[latest].state = "active"

\* ---- opening ---------------------------------------------------------------

\* databaseExists is looked at before the lock is taken: an existing database
\* never makes a missing lock file again.
openCore(p) ==
    /\ At(p, "new")
    /\ Step(p, [proc[p] EXCEPT !.pc = "lock", !.create = ~disk.db])
    /\ UNCHANGED <<disk, wall>>

\* acquire_lock: exclusive creation or the file that is there, a lock that does
\* not wait, and the name once more.
acquireLock(p) ==
    /\ At(p, "lock")
    /\ LET ino == IF disk.lock = 0 THEN disk.next ELSE disk.lock
           free == \A q \in Proc : proc[q].ino # ino
       IN IF (disk.lock = 0 /\ ~proc[p].create) \/ ~free
          THEN Step(p, [Fresh EXCEPT !.pc = "refused"]) /\ UNCHANGED disk
          ELSE /\ Step(p, [proc[p] EXCEPT !.pc = "database", !.ino = ino])
               /\ disk' = [disk EXCEPT !.lock = ino, !.next = IF disk.lock = 0 THEN @ + 1 ELSE @]
    /\ UNCHANGED wall

\* failStateStoreOpening: the database is closed first; when that fails, the lock
\* is kept until the process dies.
failStateStoreOpening(p, closes) ==
    IF closes THEN [Fresh EXCEPT !.pc = "refused"] ELSE [proc[p] EXCEPT !.pc = "stuck"]

Refuse(p) ==
    /\ \/ Step(p, failStateStoreOpening(p, TRUE)) /\ UNCHANGED wall
       \/ wall.faults < MaxFault /\ Step(p, failStateStoreOpening(p, FALSE)) /\ wall' = [wall EXCEPT !.faults = @ + 1]
    /\ UNCHANGED disk

\* openSqliteDriver and applyKernelSchema.
openSqliteDriver(p) ==
    /\ At(p, "database") /\ assertHeld(p)
    /\ Step(p, [proc[p] EXCEPT !.pc = "acquire", !.db = TRUE]) /\ disk' = [disk EXCEPT !.db = TRUE]
    /\ UNCHANGED wall

\* acquireOrBootstrapStateOwner: a successor of the latest owner, or a genesis
\* over an empty database and an empty namespace.
assertPristine(p) == disk.rows = <<>> /\ disk.cas = {}

acquireOrBootstrapStateOwner(p) ==
    /\ At(p, "acquire")
    /\ latest < MaxEpoch
    /\ CASE latest > 0 /\ (activeRow \/ disk.rows[latest].reason = "graceful_release") ->
              Step(p, [proc[p] EXCEPT !.pc = "successor", !.prior = latest])
         [] assertPristine(p) -> Step(p, [proc[p] EXCEPT !.pc = "genesis", !.at = wall.now])
         [] OTHER -> FALSE
    /\ UNCHANGED <<disk, wall>>

\* The objects of a genesis are published before the row that names them ...
publishGenesis(p) ==
    /\ At(p, "genesis") /\ assertHeld(p)
    /\ disk' = [disk EXCEPT !.cas = @ \cup {p}]
    /\ Step(p, [proc[p] EXCEPT !.pc = "birth"]) /\ UNCHANGED wall

\* The row of an owner: how it acquired, and the identity of the lock file, which
\* a successor takes over from its prior.
ActiveBy(p, kind, lock) == [state |-> "active", by |-> p, reason |-> "none", kind |-> kind, lock |-> lock]

\* ... and the row, the fence and the artifacts commit together.
commitGenesis(p) ==
    /\ At(p, "birth") /\ assertHeld(p) /\ disk.rows = <<>>
    /\ disk' = [disk EXCEPT !.rows = <<ActiveBy(p, "genesis", proc[p].ino)>>, !.fence = [epoch |-> 1, last |-> proc[p].at, state |-> "healthy"],
                            !.stamp = proc[p].at]
    /\ Step(p, [proc[p] EXCEPT !.pc = "context", !.epoch = 1]) /\ UNCHANGED wall

\* assertPriorProcessDead of an owner that left its row active.
\* Mutant: the lock is proof enough that its last holder is gone.
assertPriorProcessDead_Lock(p) == TRUE
assertPriorProcessDead(p) ==
    disk.rows[proc[p].prior].state = "active" => Dead(disk.rows[proc[p].prior].by)

\* stateOwnerFilesystemFromArtifacts: the lock that is held is the recorded file.
stateOwnerFilesystem(p, e) == assertHeld(p) /\ proc[p].ino = disk.rows[e].lock

\* readHistory: the rows up to an epoch, and the successor that witnesses a
\* takeover, are contiguous, over one lock file, and each names how its prior ended.
readHistory(e) ==
    LET over == disk.rows[e].reason = "superseded_after_owner_death"
        through == IF over THEN e + 1 ELSE e
    IN /\ through <= latest
       /\ \A i \in 1 .. through :
            /\ disk.rows[i].lock = disk.rows[1].lock
            /\ disk.rows[i].kind =
                 IF i = 1 THEN "genesis"
                 ELSE CASE disk.rows[i - 1].reason = "graceful_release" -> "acquire_after_graceful_release"
                        [] disk.rows[i - 1].reason = "superseded_after_owner_death" -> "takeover_after_owner_death"
                        [] OTHER -> "none"

\* acquireSuccessorStateOwner: the death is observed and the evidence published
successorEvidence(p) ==
    /\ At(p, "successor") /\ stateOwnerFilesystem(p, proc[p].prior) /\ readHistory(proc[p].prior)
    /\ disk.fence.epoch = proc[p].prior /\ assertPriorProcessDead(p)
    /\ Step(p, [proc[p] EXCEPT !.pc = "commit", !.at = wall.now]) /\ UNCHANGED <<disk, wall>>

\* transferTimeFenceOwner: what was accepted stays accepted.
transferTimeFenceOwner(epoch) ==
    LET bad == wall.now < disk.fence.last \/ disk.fence.state = "clock_regressed"
    IN [epoch |-> epoch, last |-> IF bad THEN disk.fence.last ELSE wall.now,
        state |-> IF bad THEN "clock_regressed" ELSE "healthy"]

\* ... and in one transaction, after everything was looked at again, the prior
\* row ends and the successor's begins.
acquireSuccessorStateOwner(p) ==
    /\ At(p, "commit") /\ assertHeld(p) /\ assertPriorProcessDead(p)
    /\ latest = proc[p].prior /\ disk.fence.epoch = latest
    /\ activeRow => wall.now >= proc[p].at
    /\ LET over == [disk.rows[latest] EXCEPT !.state = "terminal",
                                            !.reason = IF activeRow THEN "superseded_after_owner_death" ELSE @]
           kind == IF activeRow THEN "takeover_after_owner_death" ELSE "acquire_after_graceful_release"
       IN disk' = [disk EXCEPT !.rows = Append([@ EXCEPT ![latest] = over], ActiveBy(p, kind, disk.rows[latest].lock)),
                               !.fence = transferTimeFenceOwner(latest + 1)]
    /\ Step(p, [proc[p] EXCEPT !.pc = "context", !.epoch = latest + 1]) /\ UNCHANGED wall

\* stateOwnerContextFromArtifacts and the retirement of what a predecessor left.
stateOwnerContext(p) ==
    /\ At(p, "context") /\ stateOwnerFilesystem(p, proc[p].epoch)
    /\ Step(p, [proc[p] EXCEPT !.pc = "open"]) /\ UNCHANGED <<disk, wall>>

\* Any step of the opening may throw.
OpeningFails(p) ==
    /\ proc[p].pc \in {"database", "acquire", "genesis", "birth", "successor", "commit", "context"}
    /\ Refuse(p)

\* ---- an open store ---------------------------------------------------------

\* assertActiveStateOwner
assertActiveStateOwner(p) ==
    /\ assertHeld(p) /\ activeRow /\ latest = proc[p].epoch /\ disk.fence.epoch = proc[p].epoch

\* advanceTimeFence
advanceTimeFence(f) ==
    IF wall.now < f.last THEN [f EXCEPT !.state = "clock_regressed"]
    ELSE IF f.state = "clock_regressed" THEN f
    ELSE [f EXCEPT !.last = wall.now]

\* A transaction of an operation: its effects commit when the fence is healthy,
\* the regression of a clock commits by itself.
transaction(p) ==
    /\ At(p, "open") /\ assertActiveStateOwner(p)
    /\ LET f == advanceTimeFence(disk.fence)
       IN disk' = [disk EXCEPT !.fence = f, !.stamp = IF f.state = "healthy" THEN f.last ELSE @]
    /\ UNCHANGED <<proc, wall>>

\* recoverRegressedTimeFence
recoverCanonicalTime(p) ==
    /\ At(p, "open") /\ assertActiveStateOwner(p) /\ disk.fence.state = "clock_regressed" /\ wall.now >= disk.fence.last
    /\ disk' = [disk EXCEPT !.fence.last = wall.now, !.fence.state = "healthy"]
    /\ UNCHANGED <<proc, wall>>

\* gracefullyReleaseStateOwner: the row ends, whatever the state of the fence; its
\* own date, which a regressed fence does not take over, is not an operation's.
gracefullyReleaseStateOwner(p) ==
    /\ At(p, "open") /\ assertActiveStateOwner(p)
    /\ LET f == advanceTimeFence(disk.fence)
       IN disk' = [disk EXCEPT !.fence = f,
                               !.rows[latest].state = "terminal", !.rows[latest].reason = "graceful_release"]
    /\ Step(p, [proc[p] EXCEPT !.pc = "released"]) /\ UNCHANGED wall

\* The database is closed before the lock; a failure leaves both to a retry.
closeResources(p) ==
    /\ At(p, "released")
    /\ Step(p, [Fresh EXCEPT !.pc = "closed"]) /\ UNCHANGED <<disk, wall>>

\* ---- the world -------------------------------------------------------------

Die(p) == /\ ~Dead(p) /\ Step(p, [Fresh EXCEPT !.pc = "dead"]) /\ UNCHANGED <<disk, wall>>

\* Another attempt of a process whose opening was refused or whose store is closed.
Again(p) == /\ proc[p].pc \in {"refused", "closed"} /\ Step(p, Fresh) /\ UNCHANGED <<disk, wall>>

Tick == /\ wall.now < MaxTime /\ wall' = [wall EXCEPT !.now = @ + 1] /\ UNCHANGED <<disk, proc>>

ClockBack ==
    /\ wall.faults < MaxFault /\ wall.now > 1
    /\ wall' = [now |-> wall.now - 1, faults |-> wall.faults + 1] /\ UNCHANGED <<disk, proc>>

RemoveLock ==
    /\ wall.faults < MaxFault /\ disk.lock # 0
    /\ disk' = [disk EXCEPT !.lock = 0]
    /\ wall' = [wall EXCEPT !.faults = @ + 1] /\ UNCHANGED proc

Next ==
    \/ Tick \/ ClockBack \/ RemoveLock
    \/ \E p \in Proc :
          \/ openCore(p) \/ acquireLock(p) \/ openSqliteDriver(p) \/ acquireOrBootstrapStateOwner(p)
          \/ publishGenesis(p) \/ commitGenesis(p) \/ successorEvidence(p) \/ acquireSuccessorStateOwner(p)
          \/ stateOwnerContext(p) \/ OpeningFails(p) \/ transaction(p) \/ recoverCanonicalTime(p)
          \/ gracefullyReleaseStateOwner(p) \/ closeResources(p) \/ Die(p) \/ Again(p)

Spec == Init /\ [][Next]_vars

\* ---- properties ------------------------------------------------------------

\* An owner whose process lives is never superseded, also when its lock file was
\* removed or its opening gave the lock back (assertPriorProcessDead).
OwnerIsAlive ==
    \A e \in 1 .. latest : disk.rows[e].reason = "superseded_after_owner_death" => Dead(disk.rows[e].by)

\* A process that has the database open has a lock, so that without a removed
\* lock file no two of them have it open (failStateStoreOpening, close).
DatabaseIsLocked ==
    /\ \A p \in Proc : proc[p].db => proc[p].ino # 0
    /\ \A p, q \in Proc : p # q /\ proc[p].db /\ proc[q].db => proc[p].ino # proc[q].ino

\* A genesis names only objects it published itself: what another one left behind
\* when it died is never adopted (refusing fresh_empty genesis).
BirthIsClean == latest = 1 /\ disk.rows[1].reason = "none" => disk.cas = {disk.rows[1].by}

\* Whatever openings failed or died on the way, the retained history of every
\* epoch can be read (readRetainedStateOwnerHistory): what refuses a damaged
\* history never refuses one that the code wrote itself.
HistoryIsReadable == \A e \in 1 .. latest : readHistory(e)

\* Authority is dated: what commits is never dated before what has committed,
\* over a clock that goes back, the owner's death and its successor, and nothing
\* commits between a regression and its explicit recovery.
TimeIsMonotone ==
    /\ disk.stamp <= disk.fence.last
    /\ disk.fence.epoch = latest
StampsGrow == disk'.stamp >= disk.stamp /\ disk'.fence.last >= disk.fence.last
RegressionHolds ==
    disk.fence.state = "clock_regressed" /\ disk'.fence.state = "healthy" => disk'.stamp = disk.stamp
DatedInOrder == StampsGrow /\ RegressionHolds
=============================================================================
