------------------------------ MODULE PathLock ------------------------------
(***************************************************************************)
(* withPathLock: the lock directory that serializes the writers of the     *)
(* session file, of a transaction, of plans and of credentials.  The lock  *)
(* is a directory with an owner file in it; mkdir decides who gets it.     *)
(* Every file-system call is one step, because other processes run between *)
(* any two of them.                                                        *)
(*                                                                         *)
(* Time is kept as two facts, "older than LOCK_TIMEOUT_MS", one for the    *)
(* directory's mtime and one for the owner file's.  A directory gets a new *)
(* mtime when it is made and when its owner file is written or removed,    *)
(* the owner file when it is written and at every heartbeat.               *)
(***************************************************************************)
CONSTANTS Call,      \* calls of withPathLock on one target; each is its own token
          NoOwner,   \* the owner file does not exist
          Crashes,   \* whether processes die with the lock directory in place
          LongHolds, \* whether callbacks run for longer than LOCK_TIMEOUT_MS
          Misses     \* whether a live owner can miss its heartbeats for that long

ASSUME OwnerAssumption == NoOwner \notin Call
ASSUME FaultAssumption == Crashes \in BOOLEAN /\ LongHolds \in BOOLEAN /\ Misses \in BOOLEAN

VARIABLES dir,                \* the lock directory exists
          owner,              \* the token in its owner file
          dirOld, ownerOld,   \* the mtimes are older than the timeout
          pc,                 \* the next file-system call of each call
          saw,                \* removeStaleLock read an owner
          after               \* where the removal of the directory leads

files == <<dir, owner, dirOld, ownerOld>>
vars  == <<files, pc, saw, after>>

Over  == {"done", "failed", "crashed"}
After == {"mkdir", "readOwner", "done", "failed"}
PC    == {"idle", "write", "stat", "wait", "hold", "release", "rm", "rmdir"}
           \cup After \cup Over

TypeOK ==
  /\ dir \in BOOLEAN /\ dirOld \in BOOLEAN /\ ownerOld \in BOOLEAN
  /\ owner \in Call \cup {NoOwner}
  /\ pc \in [Call -> PC] /\ saw \in [Call -> BOOLEAN] /\ after \in [Call -> After]

Init ==
  /\ dir = FALSE /\ owner = NoOwner /\ dirOld = FALSE /\ ownerOld = FALSE
  /\ pc = [c \in Call |-> "idle"]
  /\ saw = [c \in Call |-> FALSE] /\ after = [c \in Call |-> "failed"]

Goto(c, l) == pc' = [pc EXCEPT ![c] = l]
\* Local variables end with the function that declares them.
Locals(c, l) == saw' = [saw EXCEPT ![c] = FALSE] /\ after' = [after EXCEPT ![c] = l]
Jump(c, l)   == Goto(c, l) /\ Locals(c, "failed") /\ UNCHANGED files
\* fs.rm(lockPath, { recursive, force }), and what comes after it.
Remove(c, l) == Goto(c, "rm") /\ Locals(c, l) /\ UNCHANGED files

-----------------------------------------------------------------------------
(* Acquisition.                                                            *)

Start(c) == pc[c] = "idle" /\ Jump(c, "mkdir")

Mkdir(c) ==
  /\ pc[c] = "mkdir"
  /\ \/ dir /\ Jump(c, "readOwner")
     \/ /\ ~dir /\ dir' = TRUE /\ dirOld' = FALSE
        /\ Goto(c, "write") /\ UNCHANGED <<owner, ownerOld, saw, after>>

\* Mutant: a failed write leaves the directory that mkdir made.
WriteOwner_Leak(c) ==
  /\ pc[c] = "write"
  /\ \/ /\ dir /\ owner = NoOwner
        /\ owner' = c /\ ownerOld' = FALSE /\ dirOld' = FALSE
        /\ Goto(c, "hold") /\ UNCHANGED <<dir, saw, after>>
     \/ Jump(c, "failed")

\* writeLockOwner with flag wx.  It fails when the directory has gone (ENOENT),
\* when it has an owner file (EEXIST) or on an I/O error.  Each time the
\* directory is removed, whosever it is; EEXIST then takes the waiters' way.
WriteOwner(c) ==
  /\ pc[c] = "write"
  /\ \/ /\ dir /\ owner = NoOwner
        /\ owner' = c /\ ownerOld' = FALSE /\ dirOld' = FALSE
        /\ Goto(c, "hold") /\ UNCHANGED <<dir, saw, after>>
     \/ dir /\ owner # NoOwner /\ Remove(c, "readOwner")
     \/ Remove(c, "failed")

-----------------------------------------------------------------------------
(* removeStaleLock.                                                        *)

ReadOwner(c) ==
  /\ pc[c] = "readOwner"
  /\ saw' = [saw EXCEPT ![c] = owner # NoOwner]
  /\ Goto(c, "stat") /\ UNCHANGED <<files, after>>

\* Mutant: the age of the lock is not looked at.
Stat_Any(c) == pc[c] = "stat" /\ Remove(c, "mkdir")

\* The file it stats is chosen by what was read before.
Stat(c) ==
  LET there == IF saw[c] THEN owner # NoOwner ELSE dir
      stale == IF saw[c] THEN ownerOld ELSE dirOld
  IN  /\ pc[c] = "stat"
      /\ \/ ~there /\ Jump(c, "mkdir")
         \/ there /\ stale /\ Remove(c, "mkdir")
         \/ there /\ ~stale /\ Jump(c, "wait")

Retry(c) == pc[c] = "wait" /\ Jump(c, "mkdir")

\* Mutant: a waiter never gives up.
TimeOut_Never(c) == FALSE /\ Jump(c, "failed")
TimeOut(c) == pc[c] = "wait" /\ Jump(c, "failed")

-----------------------------------------------------------------------------
(* rm -r in its two steps: first the owner file, then the directory.       *)

RmOwner(c) ==
  /\ pc[c] = "rm"
  /\ owner' = NoOwner /\ ownerOld' = FALSE
  /\ dirOld' = (dirOld /\ owner = NoOwner)
  /\ Goto(c, "rmdir") /\ UNCHANGED <<dir, saw, after>>

\* A directory that got an owner in between is not empty: rm throws, and so
\* does the call.
RmDir(c) ==
  /\ pc[c] = "rmdir"
  /\ \/ /\ owner = NoOwner /\ dir' = FALSE /\ dirOld' = FALSE
        /\ Goto(c, after[c]) /\ Locals(c, "failed") /\ UNCHANGED <<owner, ownerOld>>
     \/ owner # NoOwner /\ Jump(c, "failed")

-----------------------------------------------------------------------------
(* The callback and its end.                                               *)

\* refreshLockLease, from the heartbeat or from assertCurrentOwner.
Refresh(c) ==
  /\ pc[c] = "hold" /\ owner = c /\ ownerOld
  /\ ownerOld' = FALSE /\ UNCHANGED <<dir, owner, dirOld, pc, saw, after>>

\* The callback returns, or throws: assertCurrentOwner makes it throw when the
\* lock has another owner.  Either way the lock is released.
Finish(c) == pc[c] = "hold" /\ Jump(c, "release")

Release(c) ==
  /\ pc[c] = "release"
  /\ \/ owner = c /\ Remove(c, "done")
     \/ owner # c /\ Jump(c, "done")

-----------------------------------------------------------------------------
(* Faults and time.                                                        *)

Crash(c) == Crashes /\ pc[c] \notin Over \cup {"idle"} /\ Jump(c, "crashed")

Gone(c) == pc[c] \in Over

\* LOCK_TIMEOUT_MS pass without a heartbeat.
AgeOwner ==
  /\ owner # NoOwner /\ ~ownerOld
  /\ Misses \/ (owner \in Call /\ Gone(owner))
  /\ ownerOld' = TRUE /\ UNCHANGED <<dir, owner, dirOld, pc, saw, after>>

\* LOCK_TIMEOUT_MS pass with no change in the directory.  No heartbeat
\* prevents that while the lock is held; a directory without an owner is left
\* alone for so long only by calls that have ended.
AgeDir ==
  /\ dir /\ ~dirOld
  /\ IF owner = NoOwner
     THEN Misses \/ \A c \in Call : pc[c] \notin {"write", "rm", "rmdir"}
     ELSE LongHolds
  /\ dirOld' = TRUE /\ UNCHANGED <<dir, owner, ownerOld, pc, saw, after>>

Step(c) ==
  \/ Start(c) \/ Mkdir(c) \/ WriteOwner(c) \/ ReadOwner(c) \/ Stat(c)
  \/ Retry(c) \/ TimeOut(c) \/ RmOwner(c) \/ RmDir(c)
  \/ Finish(c) \/ Release(c)

Next == \/ \E c \in Call : Step(c) \/ Refresh(c) \/ Crash(c)
        \/ AgeOwner \/ AgeDir

Spec == Init /\ [][Next]_vars

\* A call that runs goes on, and its clock passes LOCK_TIMEOUT_MS in the end.
FairSpec == Spec /\ \A c \in Call : WF_vars(Step(c)) /\ SF_vars(TimeOut(c))

-----------------------------------------------------------------------------
(* Properties.                                                             *)

\* A call of withPathLock as its caller sees it.
PhaseOf(c) == CASE pc[c] = "idle" -> "before"
                [] pc[c] = "hold" -> "inside"
                [] pc[c] \in Over \cup {"release"} -> "over"
                [] pc[c] \in {"rm", "rmdir"} /\ after[c] = "done" -> "over"
                [] OTHER -> "waiting"
Promise == INSTANCE Exclusion WITH phase <- [c \in Call |-> PhaseOf(c)]

\* withPathLock serializes: as long as no lease runs out, its calls behave as
\* calls of an exclusive lock do, whatever they interleave.
Serializes == Promise!Spec

\* Two callbacks never run at the same time (the serialization that
\* path-lock.test.ts tests), stated of the states.
OneInside == \A c, d \in Call : pc[c] = "hold" /\ pc[d] = "hold" => c = d

\* No call leaves the lock directory behind: when every call has ended, and
\* none by dying, the next one finds the path free.
NoneLeftBehind ==
  (\A c \in Call : pc[c] \in {"idle", "done", "failed"}) => ~dir

\* Every call that has begun gets the lock or gives up, also when the owner
\* has died.
CallEnds == \A c \in Call : pc[c] = "mkdir" ~> Gone(c)
=============================================================================
