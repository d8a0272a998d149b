--------------------------- MODULE PathLockProofs ---------------------------
(***************************************************************************)
(* Proofs about PathLock.  While no lease runs out (no process dies with   *)
(* the lock, no callback outlasts LOCK_TIMEOUT_MS, no owner stops beating) *)
(* the lock directory belongs to exactly one call, from its mkdir to its   *)
(* rmdir, and withPathLock implements the exclusive lock of Exclusion.     *)
(***************************************************************************)
EXTENDS PathLock, TLAPS

\* No lease runs out.
LeasesHold == ~Crashes /\ ~LongHolds /\ ~Misses

\* A call that made the lock directory and has not yet removed it.
Keeps(c) == pc[c] \in {"write", "hold", "release", "rm", "rmdir"}

\* The directory is there exactly while one call keeps it ...
OneKeeper == /\ dir <=> \E c \in Call : Keeps(c)
             /\ \A c, d \in Call : Keeps(c) /\ Keeps(d) => c = d
\* ... its owner file holds that call's token ...
OwnToken == \A c \in Call :
  /\ pc[c] \in {"hold", "release"} => owner = c
  /\ pc[c] \in {"write", "rmdir"} => owner = NoOwner
  /\ owner = c => pc[c] \in {"hold", "release", "rm"}
\* ... nothing is ever old enough to be removed by others ...
Young == ~dirOld /\ ~ownerOld
\* ... so that only the call's own end removes it.
OwnRemoval == \A c \in Call :
  /\ pc[c] # "crashed"
  /\ pc[c] \in {"rm", "rmdir"} => after[c] \in {"done", "failed"}
  /\ pc[c] = "rm" /\ after[c] = "done" => owner = c

Inv == TypeOK /\ OneKeeper /\ OwnToken /\ Young /\ OwnRemoval

\* Initially nothing is held.
LEMMA InvInit == Init => Inv
BY OwnerAssumption
   DEF Init, Inv, TypeOK, OneKeeper, OwnToken, Young, OwnRemoval, Keeps, PC, After, Over

\* A step of the protocol keeps the lock with one call.
LEMMA InvStep == ASSUME LeasesHold PROVE Inv /\ [Next]_vars => Inv'
<1> USE OwnerAssumption
<1> SUFFICES ASSUME Inv, [Next]_vars PROVE Inv'
  OBVIOUS
<1> USE DEF Inv, TypeOK, OneKeeper, OwnToken, Young, OwnRemoval, Keeps, PC, After, Over,
            Goto, Jump, Remove, Locals, files
<1>1. ASSUME NEW c \in Call, Start(c) PROVE Inv'
  <2>1. TypeOK'
    BY <1>1 DEF Start
  <2>2. OneKeeper'
    BY <1>1 DEF Start
  <2>3. OwnToken'
    BY <1>1 DEF Start
  <2>4. Young' /\ OwnRemoval'
    BY <1>1 DEF Start
  <2> QED BY <2>1, <2>2, <2>3, <2>4
<1>2. ASSUME NEW c \in Call, Mkdir(c) PROVE Inv'
  <2>1. TypeOK'
    BY <1>2 DEF Mkdir
  <2>2. OneKeeper'
    BY <1>2 DEF Mkdir
  <2>3. OwnToken'
    BY <1>2 DEF Mkdir
  <2>4. Young' /\ OwnRemoval'
    BY <1>2 DEF Mkdir
  <2> QED BY <2>1, <2>2, <2>3, <2>4
<1>3. ASSUME NEW c \in Call, WriteOwner(c) PROVE Inv'
  <2>1. TypeOK'
    BY <1>3 DEF WriteOwner
  <2>2. OneKeeper'
    BY <1>3 DEF WriteOwner
  <2>3. OwnToken'
    BY <1>3 DEF WriteOwner
  <2>4. Young' /\ OwnRemoval'
    BY <1>3 DEF WriteOwner
  <2> QED BY <2>1, <2>2, <2>3, <2>4
<1>4. ASSUME NEW c \in Call, ReadOwner(c) PROVE Inv'
  <2>1. TypeOK'
    BY <1>4 DEF ReadOwner
  <2>2. OneKeeper'
    BY <1>4 DEF ReadOwner
  <2>3. OwnToken'
    BY <1>4 DEF ReadOwner
  <2>4. Young' /\ OwnRemoval'
    BY <1>4 DEF ReadOwner
  <2> QED BY <2>1, <2>2, <2>3, <2>4
<1>5. ASSUME NEW c \in Call, Stat(c) PROVE Inv'
  <2>1. TypeOK'
    BY <1>5 DEF Stat
  <2>2. OneKeeper'
    BY <1>5 DEF Stat
  <2>3. OwnToken'
    BY <1>5 DEF Stat
  <2>4. Young' /\ OwnRemoval'
    BY <1>5 DEF Stat
  <2> QED BY <2>1, <2>2, <2>3, <2>4
<1>6. ASSUME NEW c \in Call, Retry(c) PROVE Inv'
  <2>1. TypeOK'
    BY <1>6 DEF Retry
  <2>2. OneKeeper'
    BY <1>6 DEF Retry
  <2>3. OwnToken'
    BY <1>6 DEF Retry
  <2>4. Young' /\ OwnRemoval'
    BY <1>6 DEF Retry
  <2> QED BY <2>1, <2>2, <2>3, <2>4
<1>7. ASSUME NEW c \in Call, TimeOut(c) PROVE Inv'
  <2>1. TypeOK'
    BY <1>7 DEF TimeOut
  <2>2. OneKeeper'
    BY <1>7 DEF TimeOut
  <2>3. OwnToken'
    BY <1>7 DEF TimeOut
  <2>4. Young' /\ OwnRemoval'
    BY <1>7 DEF TimeOut
  <2> QED BY <2>1, <2>2, <2>3, <2>4
<1>8. ASSUME NEW c \in Call, RmOwner(c) PROVE Inv'
  <2>1. TypeOK'
    BY <1>8 DEF RmOwner
  <2>2. OneKeeper'
    BY <1>8 DEF RmOwner
  <2>3. OwnToken'
    BY <1>8 DEF RmOwner
  <2>4. Young' /\ OwnRemoval'
    BY <1>8 DEF RmOwner
  <2> QED BY <2>1, <2>2, <2>3, <2>4
<1>9. ASSUME NEW c \in Call, RmDir(c) PROVE Inv'
  <2>1. TypeOK'
    BY <1>9 DEF RmDir
  <2>2. OneKeeper'
    BY <1>9 DEF RmDir
  <2>3. OwnToken'
    BY <1>9 DEF RmDir
  <2>4. Young' /\ OwnRemoval'
    BY <1>9 DEF RmDir
  <2> QED BY <2>1, <2>2, <2>3, <2>4
<1>10. ASSUME NEW c \in Call, Finish(c) PROVE Inv'
  <2>1. TypeOK'
    BY <1>10 DEF Finish
  <2>2. OneKeeper'
    BY <1>10 DEF Finish
  <2>3. OwnToken'
    BY <1>10 DEF Finish
  <2>4. Young' /\ OwnRemoval'
    BY <1>10 DEF Finish
  <2> QED BY <2>1, <2>2, <2>3, <2>4
<1>11. ASSUME NEW c \in Call, Release(c) PROVE Inv'
  <2>1. TypeOK'
    BY <1>11 DEF Release
  <2>2. OneKeeper'
    BY <1>11 DEF Release
  <2>3. OwnToken'
    BY <1>11 DEF Release
  <2>4. Young' /\ OwnRemoval'
    BY <1>11 DEF Release
  <2> QED BY <2>1, <2>2, <2>3, <2>4
<1>12. ASSUME NEW c \in Call, Refresh(c) PROVE Inv'
  <2>1. TypeOK'
    BY <1>12 DEF Refresh
  <2>2. OneKeeper'
    BY <1>12 DEF Refresh
  <2>3. OwnToken'
    BY <1>12 DEF Refresh
  <2>4. Young' /\ OwnRemoval'
    BY <1>12 DEF Refresh
  <2> QED BY <2>1, <2>2, <2>3, <2>4
<1>13. ASSUME NEW c \in Call PROVE ~Crash(c)
  BY DEF Crash, LeasesHold
<1>14. CASE AgeOwner
  BY <1>14 DEF AgeOwner, LeasesHold, Gone
<1>15. CASE AgeDir
  BY <1>15 DEF AgeDir, LeasesHold
<1>16. CASE UNCHANGED vars
  BY <1>16 DEF vars
<1> QED
  BY <1>1, <1>2, <1>3, <1>4, <1>5, <1>6, <1>7, <1>8, <1>9, <1>10, <1>11, <1>12,
     <1>13, <1>14, <1>15, <1>16 DEF Next, Step

\* While no lease runs out, two callbacks of withPathLock on one target never
\* run at the same time, however many calls there are.
THEOREM Excludes == ASSUME LeasesHold PROVE Spec => []OneInside
<1>1. Inv => OneInside
  BY DEF Inv, OneKeeper, Keeps, OneInside
<1> QED
  BY <1>1, InvInit, InvStep, PTL DEF Spec

\* While no lease runs out, withPathLock implements Exclusion: every step of a
\* call is a step of the abstract lock or invisible to its caller.
THEOREM Implements == ASSUME LeasesHold PROVE Spec => Serializes
<1> USE DEF PhaseOf, Over
<1>1. Init => Promise!Init
  BY DEF Init, Promise!Init
<1>2. Inv /\ [Next]_vars => [Promise!Next]_[c \in Call |-> PhaseOf(c)]
  <2> SUFFICES ASSUME Inv, [Next]_vars
               PROVE Promise!Next \/ UNCHANGED [c \in Call |-> PhaseOf(c)]
    OBVIOUS
  <2> USE DEF Promise!Next, Promise!Begin, Promise!Enter, Promise!Leave, Promise!GiveUp,
              Promise!Move, Goto, Jump, Remove, Locals, files, Inv, TypeOK, PC, After
  <2> DEFINE phase == [c \in Call |-> PhaseOf(c)]
  <2>1. ASSUME NEW c \in Call, Start(c) PROVE Promise!Begin(c)
    BY <2>1 DEF Start
  <2>2. ASSUME NEW c \in Call, Mkdir(c) \/ ReadOwner(c) \/ Stat(c) \/ Retry(c)
        PROVE UNCHANGED phase
    BY <2>2 DEF Mkdir, ReadOwner, Stat, Retry
  <2>3. ASSUME NEW c \in Call, WriteOwner(c) PROVE Promise!Enter(c) \/ UNCHANGED phase
    <3>1. CASE pc' = [pc EXCEPT ![c] = "hold"] /\ UNCHANGED after
      <4>1. \A d \in Call : pc[d] # "hold"
        BY <2>3 DEF WriteOwner, OneKeeper, Keeps
      <4> QED
        BY <2>3, <3>1, <4>1 DEF WriteOwner
    <3>2. CASE pc' = [pc EXCEPT ![c] = "rm"] /\ after' # [after EXCEPT ![c] = "done"]
      BY <2>3, <3>2 DEF WriteOwner
    <3> QED
      BY <2>3, <3>1, <3>2 DEF WriteOwner
  <2>4. ASSUME NEW c \in Call, TimeOut(c) PROVE Promise!GiveUp(c)
    BY <2>4 DEF TimeOut
  <2>5. ASSUME NEW c \in Call, RmOwner(c) \/ Release(c) \/ Refresh(c)
        PROVE UNCHANGED phase
    BY <2>5 DEF RmOwner, Release, Refresh
  <2>6. ASSUME NEW c \in Call, RmDir(c) PROVE Promise!GiveUp(c) \/ UNCHANGED phase
    <3>1. pc[c] = "rmdir" /\ after[c] \in {"done", "failed"} /\ Goto(c, after[c])
      BY <2>6 DEF RmDir, OwnToken, OwnRemoval
    <3>2. after' = [after EXCEPT ![c] = "failed"]
      BY <2>6 DEF RmDir
    <3>3. CASE after[c] = "done"
      BY <3>1, <3>2, <3>3
    <3>4. CASE after[c] = "failed"
      BY <3>1, <3>2, <3>4
    <3> QED
      BY <3>1, <3>3, <3>4
  <2>7. ASSUME NEW c \in Call, Finish(c) PROVE Promise!Leave(c)
    BY <2>7 DEF Finish
  <2>8. ASSUME NEW c \in Call PROVE ~Crash(c)
    BY DEF Crash, LeasesHold
  <2>9. CASE AgeOwner \/ AgeDir \/ UNCHANGED vars
    BY <2>9 DEF AgeOwner, AgeDir, vars
  <2> QED
    BY <2>1, <2>2, <2>3, <2>4, <2>5, <2>6, <2>7, <2>8, <2>9 DEF Next, Step
<1> QED
  BY <1>1, <1>2, InvInit, InvStep, PTL DEF Spec, Serializes, Promise!Spec

-----------------------------------------------------------------------------
(* The lock directory is not left behind, whatever leases run out: also    *)
(* when calls remove each other's directories.                             *)

\* A directory with an owner file has that call to remove it, one without has
\* some call that is about to fill or to remove it; unless a call has died.
SomeoneClears ==
  /\ owner \in Call => pc[owner] \in {"hold", "release", "rm", "crashed"}
  /\ dir /\ owner = NoOwner =>
       \E c \in Call : pc[c] \in {"write", "rm", "rmdir", "crashed"}

ClearInv == TypeOK /\ SomeoneClears

LEMMA ClearInit == Init => ClearInv
BY OwnerAssumption DEF Init, ClearInv, SomeoneClears, TypeOK, PC, After, Over

LEMMA ClearStep == ClearInv /\ [Next]_vars => ClearInv'
<1> USE OwnerAssumption
<1> SUFFICES ASSUME ClearInv, [Next]_vars PROVE ClearInv'
  OBVIOUS
<1> USE DEF ClearInv, TypeOK, SomeoneClears, PC, After, Over, Goto, Jump, Remove, Locals, files
<1>1. ASSUME NEW c \in Call, Start(c) \/ Retry(c) \/ TimeOut(c) \/ Finish(c) PROVE ClearInv'
  <2>1. TypeOK'
    BY <1>1 DEF Start, Retry, TimeOut, Finish
  <2>2. SomeoneClears'
    BY <1>1 DEF Start, Retry, TimeOut, Finish
  <2> QED
    BY <2>1, <2>2
<1>2. ASSUME NEW c \in Call, Mkdir(c) PROVE ClearInv'
  BY <1>2 DEF Mkdir
<1>3. ASSUME NEW c \in Call, WriteOwner(c) PROVE ClearInv'
  <2>1. TypeOK'
    BY <1>3 DEF WriteOwner
  <2>2. SomeoneClears'
    BY <1>3 DEF WriteOwner
  <2> QED
    BY <2>1, <2>2
<1>4. ASSUME NEW c \in Call, ReadOwner(c) \/ Stat(c) PROVE ClearInv'
  <2>1. TypeOK'
    BY <1>4 DEF ReadOwner, Stat
  <2>2. SomeoneClears'
    BY <1>4 DEF ReadOwner, Stat
  <2> QED
    BY <2>1, <2>2
<1>5. ASSUME NEW c \in Call, RmOwner(c) PROVE ClearInv'
  BY <1>5 DEF RmOwner
<1>6. ASSUME NEW c \in Call, RmDir(c) PROVE ClearInv'
  <2>1. TypeOK'
    BY <1>6 DEF RmDir
  <2>2. SomeoneClears'
    BY <1>6 DEF RmDir
  <2> QED
    BY <2>1, <2>2
<1>7. ASSUME NEW c \in Call, Release(c) PROVE ClearInv'
  <2>1. TypeOK'
    BY <1>7 DEF Release
  <2>2. SomeoneClears'
    BY <1>7 DEF Release
  <2> QED
    BY <2>1, <2>2
<1>8. ASSUME NEW c \in Call, Refresh(c) \/ Crash(c) PROVE ClearInv'
  <2>1. TypeOK'
    BY <1>8 DEF Refresh, Crash
  <2>2. SomeoneClears'
    BY <1>8 DEF Refresh, Crash
  <2> QED
    BY <2>1, <2>2
<1>9. CASE AgeOwner \/ AgeDir \/ UNCHANGED vars
  <2>1. TypeOK'
    BY <1>9 DEF AgeOwner, AgeDir, vars
  <2>2. SomeoneClears'
    BY <1>9 DEF AgeOwner, AgeDir, vars
  <2> QED
    BY <2>1, <2>2
<1> QED
  BY <1>1, <1>2, <1>3, <1>4, <1>5, <1>6, <1>7, <1>8, <1>9 DEF Next, Step

\* Once every call has ended, and none by dying, the path is free for the next
\* one, also when leases ran out and calls removed each other's lock (the catch
\* of writeLockOwner, removeStaleLock and releaseOwnedLock).
THEOREM PathIsFreed == Spec => []NoneLeftBehind
<1>1. ClearInv => NoneLeftBehind
  BY DEF ClearInv, TypeOK, SomeoneClears, NoneLeftBehind
<1> QED
  BY <1>1, ClearInit, ClearStep, PTL DEF Spec
=============================================================================
