-------------------------- MODULE TxProtocolProofs --------------------------
(***************************************************************************)
(* Theorems about TxProtocol, for any set of processes, any number of      *)
(* files and any set of validators:                                        *)
(*   - TypeCorrect;                                                        *)
(*   - Covered: ApprovedIsCovered is an invariant;                         *)
(*   - AuditFirst, AuditStays: OutcomeIsRecorded is an invariant and no    *)
(*     record is ever removed, as long as turns do not save stale sessions;*)
(*   - OutcomeAlwaysMatches, RecoveryAlwaysSettles: OutcomeMatchesFiles is *)
(*     an invariant and RecoverySettles holds, as long as commands do not  *)
(*     overlap.                                                            *)
(* Covered, AuditFirst and AuditStays rest on an inductive invariant: who  *)
(* holds which lock, which phase and state a step of Stage A, B or C can   *)
(* still find, what a process inside the session lock has read, and which  *)
(* records exist when a progress file or a program counter says so.  The   *)
(* last two add what one process at a time knows of the files: which state *)
(* goes with which phase, what has been written, why an abort was begun.   *)
(***************************************************************************)
EXTENDS TxProtocol, TLAPS

-----------------------------------------------------------------------------
(* The inductive invariant.                                                *)

Post == {"applied", "applied-partial", "aborted"}

\* A process inside a critical section owns the lock of it, ...
LocksHeld ==
  \A p \in Proc : /\ pc[p] \in HoldsTx => txLock = p
                  /\ pc[p] \in HoldsSess => sessLock = p

\* ... and the session it has read there is still the one on disk.
MemFresh == \A p \in Proc : pc[p] \in HoldsSess => loc[p].mem = sess

\* What the stages of applyTx still find on disk, whoever ran in between: the
\* approval under the tx lock, and without it at least no state before it.
StageInv ==
  /\ applyPhase # "none" => txState \in {"approved"} \cup Post
  /\ \A p \in Proc :
       /\ pc[p] = "a4" => txState = "approved" /\ applyPhase = "none"
       /\ pc[p] \in {"b3", "b3b", "b4", "bErr"} => txState = "approved"
       /\ pc[p] \in {"bFail", "rw"} => txState = "applied-partial"
       /\ pc[p] \in {"b3", "b3b", "b4", "bErr", "bFail", "rw"} => applyPhase # "none"
       /\ pc[p] \in {"c0", "c1", "c3"} =>
            \/ txState \in Post
            \/ txState = "approved" /\ applyPhase \notin {"none", "apply-pending"}
       /\ pc[p] = "c5" => applyPhase = "apply-finalized"

\* The overrides cover the failures from the moment approveTx has decided.
CoverInv ==
  /\ applyPhase # "none" => blocking \subseteq overrides
  /\ \A p \in Proc : pc[p] = "appr" =>
       /\ txState \notin {"absent", "staging", "finalized"}
       /\ (txState = "validated") => (blocking \subseteq loc[p].cover)

\* The audit record precedes every other trace of an outcome.
RecordInv ==
  /\ applyPhase = "apply-finalized" => "applied" \in sess.recs
  /\ abortPhase = "aborted" => "aborted" \in sess.recs
  /\ \A p \in Proc :
       /\ pc[p] = "c4" =>
            "applied" \in sess.recs \/ (applyPhase = "none" /\ txState \in Post)
       /\ pc[p] \in {"ab6", "ab7"} => "aborted" \in sess.recs
       /\ loc[p].abort = "aborted-finalize" => "aborted" \in sess.recs

Core  == TypeOK /\ PosInRange /\ LocksHeld /\ MemFresh /\ StageInv
Cover == Core /\ CoverInv /\ ApprovedIsCovered
Audit == Core /\ RecordInv /\ OutcomeIsRecorded

-----------------------------------------------------------------------------
(* Types.                                                                  *)

\* The locals between two operations are well typed.
LEMMA FreshTyped ==
  /\ NoSession \in Session
  /\ \A mode \in {"recovering", "command", "runner"}, m \in Session,
        a \in ApplyPhase, b \in {"none", "aborting", "aborted-finalize"}, f \in Flag :
       Between(mode, m, a, b, f) \in Local
  BY BoundAssumption
  DEF Between, Local, NoSession, NoDiff, Session, Diff, Version, Content,
         File, Flag, Reason, Record

\* The return of an operation keeps pc and the locals well typed, ...
LEMMA ReturnTyped ==
  ASSUME pc \in [Proc -> PC], loc \in [Proc -> Local],
         NEW p \in Proc, NEW m \in Session, NEW l \in PC, Return(p, m, l)
  PROVE  pc' \in [Proc -> PC] /\ loc' \in [Proc -> Local]
<1>1. pc' \in [Proc -> PC]
  BY DEF Return, Goto
<1>2. Between(loc[p].mode, m, loc[p].apply, loc[p].abort, loc[p].resume) \in Local
  BY FreshTyped DEF Local
<1>3. Fresh("command", NoSession) \in Local
  BY FreshTyped DEF Fresh, ApplyPhase, Flag
<1>4. QED
  BY <1>1, <1>2, <1>3 DEF Return

\* ... and so do its normal and its exceptional end.
LEMMA DoneThrowTyped ==
  ASSUME pc \in [Proc -> PC], loc \in [Proc -> Local], NEW p \in Proc,
         Done(p) \/ Throw(p)
  PROVE  pc' \in [Proc -> PC] /\ loc' \in [Proc -> Local]
<1>1. loc[p].mem \in Session
  BY DEF Local
<1>2. {"recover", "ready", "idle"} \subseteq PC
  BY DEF PC
<1>3. QED
  BY <1>1, <1>2, ReturnTyped DEF Done, Throw

\* The types of the locals the actions read, ...
LEMMA LocalFields ==
  ASSUME NEW L \in [Proc -> Local], NEW p \in Proc
  PROVE  /\ L[p].mem \in Session /\ L[p].diff \in Diff /\ L[p].view \in Version
         /\ L[p].failed \in SUBSET Validator /\ L[p].cover \in SUBSET Validator
         /\ L[p].pos \in 0..NFiles /\ L[p].flag \in Flag /\ L[p].resume \in Flag
  BY DEF Local

\* ... and assignments to one local at a time, from which the others follow.
LEMMA LocalUpdates ==
  ASSUME NEW L \in [Proc -> Local], NEW p \in Proc
  PROVE  /\ \A m \in Session : [L EXCEPT ![p].mem = m] \in [Proc -> Local]
         /\ \A d \in Diff : [L EXCEPT ![p].diff = d] \in [Proc -> Local]
         /\ \A v \in Version : [L EXCEPT ![p].view = v] \in [Proc -> Local]
         /\ \A f \in SUBSET Validator : [L EXCEPT ![p].failed = f] \in [Proc -> Local]
         /\ \A c \in SUBSET Validator : [L EXCEPT ![p].cover = c] \in [Proc -> Local]
         /\ \A n \in 0..NFiles : [L EXCEPT ![p].pos = n] \in [Proc -> Local]
         /\ \A f \in Flag : [L EXCEPT ![p].flag = f] \in [Proc -> Local]
         /\ \A f \in Flag : [L EXCEPT ![p].resume = f] \in [Proc -> Local]
         /\ \A a \in ApplyPhase : [L EXCEPT ![p].apply = a] \in [Proc -> Local]
         /\ \A b \in {"none", "aborting", "aborted-finalize"} :
              [L EXCEPT ![p].abort = b] \in [Proc -> Local]
<1>1. \A m \in Session : [L EXCEPT ![p].mem = m] \in [Proc -> Local]
  BY DEF Local
<1>2. \A d \in Diff : [L EXCEPT ![p].diff = d] \in [Proc -> Local]
  BY DEF Local
<1>3. \A v \in Version : [L EXCEPT ![p].view = v] \in [Proc -> Local]
  BY DEF Local
<1>4. \A f \in SUBSET Validator : [L EXCEPT ![p].failed = f] \in [Proc -> Local]
  BY DEF Local
<1>5. \A c \in SUBSET Validator : [L EXCEPT ![p].cover = c] \in [Proc -> Local]
  BY DEF Local
<1>6. \A n \in 0..NFiles : [L EXCEPT ![p].pos = n] \in [Proc -> Local]
  BY DEF Local
<1>7. \A f \in Flag : [L EXCEPT ![p].flag = f] \in [Proc -> Local]
  BY DEF Local
<1>8. \A f \in Flag : [L EXCEPT ![p].resume = f] \in [Proc -> Local]
  BY DEF Local
<1>9. \A a \in ApplyPhase : [L EXCEPT ![p].apply = a] \in [Proc -> Local]
  BY DEF Local
<1>10. \A b \in {"none", "aborting", "aborted-finalize"} :
        [L EXCEPT ![p].abort = b] \in [Proc -> Local]
  BY DEF Local
<1>11. QED
  BY <1>1, <1>2, <1>3, <1>4, <1>5, <1>6, <1>7, <1>8, <1>9, <1>10

\* Every label an action jumps to is a program counter.
LEMMA PCLabels ==
  {"idle", "scan", "recover", "ready", "fin1", "abRestore", "a4", "b3", "b3b",
   "b4", "bErr", "bFail", "c5", "ab7", "rw", "c1", "c3", "ab4", "ab5", "fin2",
   "val", "appr", "b0", "c4", "ab1", "ab6", "open", "c0", "abWrite"} \subseteq PC
  BY DEF PC, HoldsTx, HoldsSess, WaitsTx, WaitsSess

\* Every step of a process keeps all files and locals well typed: one case per
\* action, first what it does to pc and the locals, then to the files.
LEMMA TypeStep ==
  ASSUME TypeOK, PosInRange, NEW p \in Proc,
         ProcStep(p)
  PROVE  TypeOK'
<1> USE DEF TypeOK
<1>0. /\ loc[p].mem \in Session /\ loc[p].diff \in Diff /\ loc[p].view \in Version
      /\ loc[p].failed \in SUBSET Validator /\ loc[p].cover \in SUBSET Validator
      /\ loc[p].pos \in 0..NFiles /\ loc[p].flag \in Flag /\ loc[p].resume \in Flag
  BY LocalFields
<1>1. CASE OpenTx(p)
  <2>1. pc' \in [Proc -> PC] /\ loc' \in [Proc -> Local]
    BY <1>0, <1>1, LocalUpdates, PCLabels DEF OpenTx, Jump, Goto
  <2>2. QED
    BY <1>0, <1>1, <2>1 DEF OpenTx, txVars, applyVars, abortVars, lockVars,
        dataVars, TxState
<1>2. CASE OpenSession(p)
  <2>0. sess' \in Session
    BY <1>2 DEF OpenSession, Session
  <2>1. pc' \in [Proc -> PC] /\ loc' \in [Proc -> Local]
    BY <1>0, <1>2, ReturnTyped, PCLabels, <2>0 DEF OpenSession
  <2>2. QED
    BY <1>0, <1>2, <2>0, <2>1 DEF OpenSession, txVars, applyVars, abortVars,
        lockVars, dataVars
<1>3. CASE StageEdit(p)
  <2>1. pc' \in [Proc -> PC] /\ loc' \in [Proc -> Local]
    BY <1>0, <1>3 DEF StageEdit, procVars
  <2>2. QED
    BY <1>0, <1>3, BoundAssumption, <2>1 DEF StageEdit, txVars, applyVars,
        abortVars, lockVars, dataVars, Version
<1>4. CASE SaveSession(p)
  <2>1. pc' \in [Proc -> PC] /\ loc' \in [Proc -> Local]
    BY <1>0, <1>4 DEF SaveSession, procVars
  <2>2. QED
    BY <1>0, <1>4, <2>1 DEF SaveSession, txVars, applyVars, abortVars, lockVars,
        dataVars
<1>5. CASE FinalizeCompute(p)
  <2>0. [new |-> overlay, old |-> file] \in Diff
    BY DEF Diff
  <2>1. pc' \in [Proc -> PC] /\ loc' \in [Proc -> Local]
    BY <1>0, <1>5, LocalUpdates, PCLabels, <2>0 DEF FinalizeCompute, Goto
  <2>2. QED
    BY <1>0, <1>5, <2>0, <2>1 DEF FinalizeCompute, txVars, applyVars, abortVars,
        lockVars, dataVars
<1>6. CASE FinalizeWriteDiff(p)
  <2>1. pc' \in [Proc -> PC] /\ loc' \in [Proc -> Local]
    BY <1>0, <1>6, LocalUpdates, PCLabels DEF FinalizeWriteDiff, Jump, Goto
  <2>2. QED
    BY <1>0, <1>6, <2>1 DEF FinalizeWriteDiff, txVars, applyVars, abortVars,
        lockVars, dataVars
<1>7. CASE FinalizeCommit(p)
  <2>1. pc' \in [Proc -> PC] /\ loc' \in [Proc -> Local]
    BY <1>0, <1>7, DoneThrowTyped DEF FinalizeCommit
  <2>2. QED
    BY <1>0, <1>7, <2>1 DEF FinalizeCommit, txVars, applyVars, abortVars, lockVars,
        dataVars, TxState, Diff
<1>8. CASE ValidateRun(p)
  <2>0. PICK failed \in SUBSET Validator :
         loc' = [loc EXCEPT ![p].view = overlay, ![p].failed = failed]
    BY <1>8 DEF ValidateRun
  <2>1. pc' \in [Proc -> PC] /\ loc' \in [Proc -> Local]
    BY <1>0, <1>8, LocalUpdates, PCLabels, <2>0 DEF ValidateRun, Goto
  <2>2. QED
    BY <1>0, <1>8, <2>0, <2>1 DEF ValidateRun, txVars, applyVars, abortVars,
        lockVars, dataVars
<1>9. CASE ValidateCommit(p)
  <2>1. pc' \in [Proc -> PC] /\ loc' \in [Proc -> Local]
    BY <1>0, <1>9, DoneThrowTyped DEF ValidateCommit
  <2>2. QED
    BY <1>0, <1>9, <2>1 DEF ValidateCommit, txVars, applyVars, abortVars, lockVars,
        dataVars, TxState
<1>10. CASE ApproveDecide(p)
  <2>0. PICK cover \in SUBSET Validator :
         loc' = [loc EXCEPT ![p].cover = cover \cap blocking]
    BY <1>10 DEF ApproveDecide
  <2>1. pc' \in [Proc -> PC] /\ loc' \in [Proc -> Local]
    BY <1>0, <1>10, LocalUpdates, PCLabels, <2>0 DEF ApproveDecide, Goto
  <2>2. QED
    BY <1>0, <1>10, <2>0, <2>1 DEF ApproveDecide, txVars, applyVars, abortVars,
        lockVars, dataVars
<1>11. CASE ApproveCommit(p)
  <2>1. pc' \in [Proc -> PC] /\ loc' \in [Proc -> Local]
    BY <1>0, <1>11, DoneThrowTyped DEF ApproveCommit
  <2>2. QED
    BY <1>0, <1>11, <2>1 DEF ApproveCommit, txVars, applyVars, abortVars, lockVars,
        dataVars, TxState
<1>12. CASE StageACheck(p)
  <2>1. pc' \in [Proc -> PC] /\ loc' \in [Proc -> Local]
    BY <1>0, <1>12, LocalUpdates, PCLabels DEF StageACheck, Goto
  <2>2. QED
    BY <1>0, <1>12, <2>1 DEF StageACheck, txVars, applyVars, abortVars, lockVars,
        dataVars, AcquireTx
<1>13. CASE StageAPending(p)
  <2>1. pc' \in [Proc -> PC] /\ loc' \in [Proc -> Local]
    BY <1>0, <1>13, LocalUpdates, PCLabels DEF StageAPending, Jump, Goto
  <2>2. QED
    BY <1>0, <1>13, <2>1 DEF StageAPending, txVars, applyVars, abortVars, lockVars,
        dataVars, ReleaseTx, ApplyPhase
<1>14. CASE StageBStart(p)
  <2>0. 0 \in 0..NFiles
    BY BoundAssumption
  <2>1. CASE Throw(p)
    BY <1>14, <2>1, DoneThrowTyped DEF StageBStart, AcquireTx, ApplyPhase, txVars,
        applyVars, abortVars, lockVars, dataVars
  <2>2. CASE Goto(p, "b3") /\ loc' = [loc EXCEPT ![p].pos = 0]
    <3>1. pc' \in [Proc -> PC]
      BY <2>2, PCLabels DEF Goto
    <3>2. loc' \in [Proc -> Local]
      BY <2>0, <2>2, LocalUpdates
    <3>3. QED
      BY <1>14, <3>1, <3>2 DEF StageBStart, AcquireTx, ApplyPhase, txVars,
          applyVars, abortVars, lockVars, dataVars
  <2>3. QED
    BY <1>14, <2>1, <2>2 DEF StageBStart
<1>15. CASE StageBVerify(p)
  <2>1. pc' \in [Proc -> PC] /\ loc' \in [Proc -> Local]
    BY <1>0, <1>15, LocalUpdates, PCLabels DEF StageBVerify, Jump, Goto
  <2>2. QED
    BY <1>0, <1>15, <2>1 DEF StageBVerify, txVars, applyVars, abortVars, lockVars,
        dataVars
<1>16. CASE StageBWrite(p)
  <2>1. pc' \in [Proc -> PC] /\ loc' \in [Proc -> Local]
    BY <1>0, <1>16, LocalUpdates, PCLabels DEF StageBWrite, Jump, Goto
  <2>2. QED
    BY <1>0, <1>16, <2>1 DEF StageBWrite, txVars, applyVars, abortVars, lockVars,
        dataVars, Diff, Content
<1>17. CASE StageBRecord(p)
  <2>0. loc[p].pos + 1 \in 1..NFiles /\ loc[p].pos + 1 \in 0..NFiles
    BY <1>0, <1>17, BoundAssumption DEF StageBRecord, PosInRange, Planned
  <2>1. pc' \in [Proc -> PC] /\ loc' \in [Proc -> Local]
    BY <1>0, <1>17, LocalUpdates, PCLabels, <2>0 DEF StageBRecord, Goto
  <2>2. QED
    BY <1>0, <1>17, <2>0, <2>1 DEF StageBRecord, txVars, applyVars, abortVars,
        lockVars, dataVars, File
<1>18. CASE StageBCommit(p)
  <2>1. pc' \in [Proc -> PC] /\ loc' \in [Proc -> Local]
    BY <1>0, <1>18, LocalUpdates, PCLabels DEF StageBCommit, Jump, Goto
  <2>2. QED
    BY <1>0, <1>18, <2>1 DEF StageBCommit, txVars, applyVars, abortVars, lockVars,
        dataVars, ReleaseTx, ApplyPhase
<1>19. CASE StageBPartialState(p)
  <2>1. pc' \in [Proc -> PC] /\ loc' \in [Proc -> Local]
    BY <1>0, <1>19, LocalUpdates, PCLabels DEF StageBPartialState, Jump, Goto
  <2>2. QED
    BY <1>0, <1>19, <2>1 DEF StageBPartialState, txVars, applyVars, abortVars,
        lockVars, dataVars, TxState
<1>20. CASE StageBPartialProgress(p)
  <2>1. pc' \in [Proc -> PC] /\ loc' \in [Proc -> Local]
    BY <1>0, <1>20, DoneThrowTyped DEF StageBPartialProgress
  <2>2. QED
    BY <1>0, <1>20, <2>1 DEF StageBPartialProgress, txVars, applyVars, abortVars,
        lockVars, dataVars, ReleaseTx, ApplyPhase
<1>21. CASE StageCSession(p)
  <2>1. pc' \in [Proc -> PC] /\ loc' \in [Proc -> Local]
    BY <1>0, <1>21, LocalUpdates, PCLabels DEF StageCSession, Goto
  <2>2. QED
    BY <1>0, <1>21, <2>1 DEF StageCSession, txVars, applyVars, abortVars, lockVars,
        dataVars, AcquireSess
<1>22. CASE StageCDecide(p)
  <2>1. pc' \in [Proc -> PC] /\ loc' \in [Proc -> Local]
    BY <1>0, <1>22, LocalUpdates, PCLabels, DoneThrowTyped DEF StageCDecide, Jump,
        Goto
  <2>2. QED
    BY <1>0, <1>22, <2>1 DEF StageCDecide, txVars, applyVars, abortVars, lockVars,
        dataVars, ReleaseSess
<1>23. CASE StageCSave(p)
  <2>0. sess' \in Session
    BY <1>0, <1>23 DEF StageCSave, Session, Record
  <2>1. pc' \in [Proc -> PC] /\ loc' \in [Proc -> Local]
    BY <1>0, <1>23, LocalUpdates, PCLabels, <2>0 DEF StageCSave, Goto
  <2>2. QED
    BY <1>0, <1>23, <2>0, <2>1 DEF StageCSave, txVars, applyVars, abortVars,
        lockVars, dataVars, ReleaseSess
<1>24. CASE StageCFinalize(p)
  <2>1. pc' \in [Proc -> PC] /\ loc' \in [Proc -> Local]
    BY <1>0, <1>24, LocalUpdates, PCLabels, DoneThrowTyped DEF StageCFinalize, Jump,
        Goto
  <2>2. QED
    BY <1>0, <1>24, <2>1 DEF StageCFinalize, txVars, applyVars, abortVars, lockVars,
        dataVars, AcquireTx, ApplyPhase
<1>25. CASE StageCState(p)
  <2>1. pc' \in [Proc -> PC] /\ loc' \in [Proc -> Local]
    BY <1>0, <1>25, DoneThrowTyped DEF StageCState
  <2>2. QED
    BY <1>0, <1>25, <2>1 DEF StageCState, txVars, applyVars, abortVars, lockVars,
        dataVars, ReleaseTx, TxState
<1>26. CASE AbortFastCheck(p)
  <2>0. PICK flag \in Flag : loc' = [loc EXCEPT ![p].flag = flag]
    BY <1>26 DEF AbortFastCheck
  <2>1. pc' \in [Proc -> PC] /\ loc' \in [Proc -> Local]
    BY <1>0, <1>26, LocalUpdates, PCLabels, <2>0 DEF AbortFastCheck, Goto
  <2>2. QED
    BY <1>0, <1>26, <2>0, <2>1 DEF AbortFastCheck, txVars, applyVars, abortVars,
        lockVars, dataVars
<1>27. CASE AbortDecide(p)
  <2>1. pc' \in [Proc -> PC] /\ loc' \in [Proc -> Local]
    BY <1>0, <1>27, LocalUpdates, PCLabels, DoneThrowTyped DEF AbortDecide, Jump,
        Goto
  <2>2. QED
    BY <1>0, <1>27, <2>1 DEF AbortDecide, txVars, applyVars, abortVars, lockVars,
        dataVars
<1>28. CASE AbortRestore(p)
  <2>1. pc' \in [Proc -> PC] /\ loc' \in [Proc -> Local]
    BY <1>0, <1>28, LocalUpdates, PCLabels, DoneThrowTyped DEF AbortRestore, Jump,
        Goto
  <2>2. QED
    BY <1>0, <1>28, <2>1 DEF AbortRestore, txVars, applyVars, abortVars, lockVars,
        dataVars
<1>29. CASE AbortSession(p)
  <2>1. pc' \in [Proc -> PC] /\ loc' \in [Proc -> Local]
    BY <1>0, <1>29, LocalUpdates, PCLabels DEF AbortSession, Goto
  <2>2. QED
    BY <1>0, <1>29, <2>1 DEF AbortSession, txVars, applyVars, abortVars, lockVars,
        dataVars, AcquireSess
<1>30. CASE AbortMark(p)
  <2>1. pc' \in [Proc -> PC] /\ loc' \in [Proc -> Local]
    BY <1>0, <1>30, LocalUpdates, PCLabels DEF AbortMark, Jump, Goto
  <2>2. QED
    BY <1>0, <1>30, <2>1 DEF AbortMark, txVars, applyVars, abortVars, lockVars,
        dataVars, AbortPhase, ReasonOf, Reason
<1>31. CASE AbortSave(p)
  <2>0. sess' \in Session
    BY <1>0, <1>31 DEF AbortSave, Session, Record, Reason, ReasonOf
  <2>1. pc' \in [Proc -> PC] /\ loc' \in [Proc -> Local]
    BY <1>0, <1>31, LocalUpdates, PCLabels, <2>0 DEF AbortSave, Goto
  <2>2. QED
    BY <1>0, <1>31, <2>0, <2>1 DEF AbortSave, txVars, applyVars, abortVars,
        lockVars, dataVars, ReleaseSess
<1>32. CASE AbortFinishProgress(p)
  <2>1. pc' \in [Proc -> PC] /\ loc' \in [Proc -> Local]
    BY <1>0, <1>32, LocalUpdates, PCLabels DEF AbortFinishProgress, Jump, Goto
  <2>2. QED
    BY <1>0, <1>32, <2>1 DEF AbortFinishProgress, txVars, applyVars, abortVars,
        lockVars, dataVars, AcquireTx, AbortPhase
<1>33. CASE AbortFinishState(p)
  <2>1. pc' \in [Proc -> PC] /\ loc' \in [Proc -> Local]
    BY <1>0, <1>33, DoneThrowTyped DEF AbortFinishState
  <2>2. QED
    BY <1>0, <1>33, <2>1 DEF AbortFinishState, txVars, applyVars, abortVars,
        lockVars, dataVars, ReleaseTx, TxState
<1>34. CASE Scan(p)
  <2>0. ScanApply \in ApplyPhase /\ FlagOf(abortReason) \in Flag
      /\ ScanAbort \in {"none", "aborting", "aborted-finalize"}
    BY DEF ScanApply, ScanAbort, ApplyPhase, FlagOf, Flag
  <2>1. pc' \in [Proc -> PC] /\ loc' \in [Proc -> Local]
    BY <1>0, <1>34, LocalUpdates, PCLabels, <2>0 DEF Scan, Goto
  <2>2. QED
    BY <1>0, <1>34, <2>0, <2>1 DEF Scan, txVars, applyVars, abortVars, lockVars,
        dataVars
<1>35. CASE RecoverCommitted(p)
  <2>0. "none" \in ApplyPhase
    BY DEF ApplyPhase
  <2>1. pc' \in [Proc -> PC] /\ loc' \in [Proc -> Local]
    BY <1>0, <1>35, LocalUpdates, PCLabels, <2>0 DEF RecoverCommitted, Goto
  <2>2. QED
    BY <1>0, <1>35, <2>0, <2>1 DEF RecoverCommitted, txVars, applyVars, abortVars,
        lockVars, dataVars
<1>36. CASE RecoverApply(p)
  <2>0. "none" \in ApplyPhase
    BY DEF ApplyPhase
  <2>1. pc' \in [Proc -> PC]
    BY <1>36, PCLabels DEF RecoverApply, Goto
  <2>2. loc' \in [Proc -> Local]
    BY <1>36, LocalUpdates, <2>0 DEF RecoverApply
  <2>3. QED
    BY <1>36, <2>1, <2>2 DEF RecoverApply, AcquireTx, TxState, ApplyPhase, txVars,
        applyVars, abortVars, lockVars, dataVars
<1>37. CASE RecoverPartial(p)
  <2>1. pc' \in [Proc -> PC] /\ loc' \in [Proc -> Local]
    BY <1>0, <1>37, LocalUpdates, PCLabels DEF RecoverPartial, Jump, Goto
  <2>2. QED
    BY <1>0, <1>37, <2>1 DEF RecoverPartial, txVars, applyVars, abortVars, lockVars,
        dataVars, ReleaseTx, ApplyPhase
<1>38. CASE RecoverAborting(p)
  <2>1. CASE Throw(p)
    BY <1>38, <2>1, DoneThrowTyped DEF RecoverAborting, txVars, applyVars,
        abortVars, lockVars, dataVars
  <2>2. CASE /\ Goto(p, "ab1")
             /\ loc' = [loc EXCEPT ![p].abort = "none", ![p].flag = loc[p].resume]
    <3>1. pc' \in [Proc -> PC]
      BY <2>2, PCLabels DEF Goto
    <3>2. loc' \in [Proc -> Local]
      BY <1>0, <2>2, LocalUpdates
    <3>3. QED
      BY <1>38, <3>1, <3>2 DEF RecoverAborting, txVars, applyVars, abortVars,
          lockVars, dataVars
  <2>3. QED
    BY <1>38, <2>1, <2>2 DEF RecoverAborting
<1>39. CASE RecoverAborted(p)
  <2>1. pc' \in [Proc -> PC] /\ loc' \in [Proc -> Local]
    BY <1>0, <1>39, LocalUpdates, PCLabels, DoneThrowTyped DEF RecoverAborted, Goto
  <2>2. QED
    BY <1>0, <1>39, <2>1 DEF RecoverAborted, txVars, applyVars, abortVars, lockVars,
        dataVars, TxState
<1>40. CASE RecoverDone(p)
  <2>0. "none" \in ApplyPhase /\ "none" \in Flag
    BY DEF ApplyPhase, Flag
  <2>1. pc' \in [Proc -> PC] /\ loc' \in [Proc -> Local]
    BY <1>0, <1>40, FreshTyped, PCLabels, <2>0 DEF RecoverDone, Goto, Fresh
  <2>2. QED
    BY <1>0, <1>40, <2>0, <2>1 DEF RecoverDone, txVars, applyVars, abortVars,
        lockVars, dataVars
<1>41. CASE Start(p)
  <2>0. "none" \in ApplyPhase /\ "none" \in Flag
    BY DEF ApplyPhase, Flag
  <2>1. pc' \in [Proc -> PC] /\ loc' \in [Proc -> Local]
    BY <1>0, <1>41, FreshTyped, PCLabels, <2>0 DEF Start, Goto, Fresh
  <2>2. QED
    BY <1>0, <1>41, <2>0, <2>1 DEF Start, txVars, applyVars, abortVars, lockVars,
        dataVars
<1>42. CASE Exit(p)
  <2>1. pc' \in [Proc -> PC] /\ loc' \in [Proc -> Local]
    BY <1>0, <1>42, ReturnTyped, PCLabels DEF Exit
  <2>2. QED
    BY <1>0, <1>42, <2>1 DEF Exit, txVars, applyVars, abortVars, lockVars, dataVars
<1>43. CASE Crash(p)
  <2>1. pc' \in [Proc -> PC] /\ loc' \in [Proc -> Local]
    BY <1>0, <1>43, ReturnTyped, PCLabels DEF Crash
  <2>2. QED
    BY <1>0, <1>43, <2>1 DEF Crash, txVars, applyVars, abortVars, lockVars, dataVars
<1>44. CASE IoError(p)
  <2>1. pc' \in [Proc -> PC] /\ loc' \in [Proc -> Local]
    BY <1>0, <1>44, DoneThrowTyped DEF IoError, Unwind
  <2>2. QED
    BY <1>0, <1>44, <2>1 DEF IoError, txVars, applyVars, abortVars, lockVars,
        dataVars, Unwind, ReleaseTx, ReleaseSess
<1>45. CASE LockTimeout(p)
  <2>1. pc' \in [Proc -> PC] /\ loc' \in [Proc -> Local]
    BY <1>0, <1>45, DoneThrowTyped DEF LockTimeout, Unwind
  <2>2. QED
    BY <1>0, <1>45, <2>1 DEF LockTimeout, txVars, applyVars, abortVars, lockVars,
        dataVars, Unwind, ReleaseTx, ReleaseSess
<1>46. QED
  BY <1>1, <1>2, <1>3, <1>4, <1>5, <1>6, <1>7, <1>8, <1>9, <1>10, <1>11, <1>12,
      <1>13, <1>14, <1>15, <1>16, <1>17, <1>18, <1>19, <1>20, <1>21, <1>22, <1>23,
      <1>24, <1>25, <1>26, <1>27, <1>28, <1>29, <1>30, <1>31, <1>32, <1>33, <1>34,
      <1>35, <1>36, <1>37, <1>38, <1>39, <1>40, <1>41, <1>42, <1>43, <1>44, <1>45
      DEF ProcStep, Step, Pipeline, Apply, Abort, Recover

-----------------------------------------------------------------------------
(* Who does what.                                                          *)

\* Which actions write which file: whatever a proof says of a file, these are
\* the only actions it has to look at.
LEMMA Writers ==
  ASSUME NEW p \in Proc, ProcStep(p)
  PROVE  /\ \/ UNCHANGED txState \/ OpenTx(p) \/ FinalizeCommit(p)
            \/ ValidateCommit(p) \/ ApproveCommit(p) \/ StageBPartialState(p)
            \/ StageCState(p) \/ AbortFinishState(p) \/ RecoverApply(p) \/ RecoverAborted(p)
         /\ \/ UNCHANGED applyPhase \/ StageAPending(p) \/ StageBStart(p)
            \/ StageBCommit(p) \/ StageBPartialProgress(p) \/ StageCFinalize(p)
            \/ RecoverApply(p) \/ RecoverPartial(p)
         /\ UNCHANGED abortPhase \/ AbortMark(p) \/ AbortFinishProgress(p)
         /\ UNCHANGED sess \/ OpenSession(p) \/ SaveSession(p) \/ StageCSave(p)
            \/ AbortSave(p)
         /\ UNCHANGED blocking \/ ValidateCommit(p)
         /\ UNCHANGED overrides \/ ApproveCommit(p)
<1> USE DEF txVars, applyVars, abortVars
<1>1. CASE Pipeline(p)
  BY <1>1 DEF Pipeline, OpenTx, OpenSession, StageEdit, SaveSession, FinalizeCompute, FinalizeWriteDiff,
     FinalizeCommit, ValidateRun, ValidateCommit, ApproveDecide, ApproveCommit
<1>2. CASE Apply(p)
  BY <1>2 DEF Apply, StageACheck, StageAPending, StageBStart, StageBVerify, StageBWrite,
     StageBRecord, StageBCommit, StageBPartialState, StageBPartialProgress,
     StageCSession, StageCDecide, StageCSave, StageCFinalize, StageCState
<1>3. CASE Abort(p)
  BY <1>3 DEF Abort, AbortFastCheck, AbortDecide, AbortRestore, AbortSession, AbortMark,
     AbortSave, AbortFinishProgress, AbortFinishState
<1>4. CASE Recover(p)
  BY <1>4 DEF Recover, Scan, RecoverCommitted, RecoverApply, RecoverPartial,
     RecoverAborting, RecoverAborted, RecoverDone
<1>5. CASE Start(p) \/ Exit(p) \/ Crash(p) \/ IoError(p) \/ LockTimeout(p)
  BY <1>5 DEF Start, Exit, Crash, IoError, LockTimeout, Unwind
<1>6. QED
  BY <1>1, <1>2, <1>3, <1>4, <1>5 DEF ProcStep, Step

\* A step leaves the program counters and locals of the other processes alone.
LEMMA Frame ==
  ASSUME TypeOK, NEW p \in Proc, ProcStep(p), NEW q \in Proc, q # p
  PROVE  pc'[q] = pc[q] /\ loc'[q] = loc[q]
<1> USE DEF TypeOK, procVars, Jump, Goto, Return, Done, Throw
<1>1. CASE Pipeline(p)
  BY <1>1 DEF Pipeline, OpenTx, OpenSession, StageEdit, SaveSession, FinalizeCompute, FinalizeWriteDiff,
     FinalizeCommit, ValidateRun, ValidateCommit, ApproveDecide, ApproveCommit
<1>2. CASE Apply(p)
  BY <1>2 DEF Apply, StageACheck, StageAPending, StageBStart, StageBVerify, StageBWrite,
     StageBRecord, StageBCommit, StageBPartialState, StageBPartialProgress,
     StageCSession, StageCDecide, StageCSave, StageCFinalize, StageCState
<1>3. CASE Abort(p)
  BY <1>3 DEF Abort, AbortFastCheck, AbortDecide, AbortRestore, AbortSession, AbortMark,
     AbortSave, AbortFinishProgress, AbortFinishState
<1>4. CASE Recover(p)
  BY <1>4 DEF Recover, Scan, RecoverCommitted, RecoverApply, RecoverPartial,
     RecoverAborting, RecoverAborted, RecoverDone
<1>5. CASE Start(p) \/ Exit(p) \/ Crash(p) \/ IoError(p) \/ LockTimeout(p)
  BY <1>5 DEF Start, Exit, Crash, IoError, LockTimeout, Unwind
<1>6. QED
  BY <1>1, <1>2, <1>3, <1>4, <1>5 DEF ProcStep, Step

\* Where each critical label is entered from.
LEMMA Entries ==
  ASSUME TypeOK, NEW p \in Proc, ProcStep(p)
  PROVE  /\ pc'[p] = "appr" => ApproveDecide(p)
         /\ pc'[p] = "a4" => StageACheck(p)
         /\ pc'[p] = "b3" => StageBStart(p) \/ StageBRecord(p)
         /\ pc'[p] = "b3b" => StageBVerify(p)
         /\ pc'[p] = "b4" => StageBWrite(p)
         /\ pc'[p] = "bErr" => StageBVerify(p) \/ StageBWrite(p)
         /\ pc'[p] = "bFail" => StageBPartialState(p)
         /\ pc'[p] = "c0" => StageBCommit(p) \/ RecoverCommitted(p)
         /\ pc'[p] = "c1" => StageCSession(p)
         /\ pc'[p] = "c3" => StageCDecide(p)
         /\ pc'[p] = "c4" => StageCDecide(p) \/ StageCSave(p)
         /\ pc'[p] = "c5" => StageCFinalize(p)
         /\ pc'[p] = "ab4" => AbortSession(p)
         /\ pc'[p] = "ab5" => AbortSession(p) \/ AbortMark(p)
         /\ pc'[p] = "ab6" => AbortSave(p)
         /\ pc'[p] = "ab7" => AbortFinishProgress(p)
         /\ pc'[p] = "rw" => RecoverApply(p)
<1> USE DEF TypeOK, procVars, Jump, Goto, Return, Done, Throw
<1>1. CASE Pipeline(p)
  BY <1>1 DEF Pipeline, OpenTx, OpenSession, StageEdit, SaveSession, FinalizeCompute, FinalizeWriteDiff,
     FinalizeCommit, ValidateRun, ValidateCommit, ApproveDecide, ApproveCommit
<1>2. CASE Apply(p)
  BY <1>2 DEF Apply, StageACheck, StageAPending, StageBStart, StageBVerify, StageBWrite,
     StageBRecord, StageBCommit, StageBPartialState, StageBPartialProgress,
     StageCSession, StageCDecide, StageCSave, StageCFinalize, StageCState
<1>3. CASE Abort(p)
  BY <1>3 DEF Abort, AbortFastCheck, AbortDecide, AbortRestore, AbortSession, AbortMark,
     AbortSave, AbortFinishProgress, AbortFinishState
<1>4. CASE Recover(p)
  BY <1>4 DEF Recover, Scan, RecoverCommitted, RecoverApply, RecoverPartial,
     RecoverAborting, RecoverAborted, RecoverDone
<1>5. CASE Start(p) \/ Exit(p) \/ Crash(p) \/ IoError(p) \/ LockTimeout(p)
  BY <1>5 DEF Start, Exit, Crash, IoError, LockTimeout, Unwind
<1>6. QED
  BY <1>1, <1>2, <1>3, <1>4, <1>5 DEF ProcStep, Step

\* Nobody takes or releases a lock that another process holds.
LEMMA OthersLocks ==
  ASSUME NEW p \in Proc, ProcStep(p), NEW q \in Proc, q # p
  PROVE  (txLock = q => txLock' = q) /\ (sessLock = q => sessLock' = q)
<1> USE LockAssumption DEF lockVars, AcquireTx, ReleaseTx, AcquireSess, ReleaseSess
<1>1. CASE Pipeline(p)
  BY <1>1 DEF Pipeline, OpenTx, OpenSession, StageEdit, SaveSession, FinalizeCompute, FinalizeWriteDiff,
     FinalizeCommit, ValidateRun, ValidateCommit, ApproveDecide, ApproveCommit
<1>2. CASE Apply(p)
  BY <1>2 DEF Apply, StageACheck, StageAPending, StageBStart, StageBVerify, StageBWrite,
     StageBRecord, StageBCommit, StageBPartialState, StageBPartialProgress,
     StageCSession, StageCDecide, StageCSave, StageCFinalize, StageCState
<1>3. CASE Abort(p)
  BY <1>3 DEF Abort, AbortFastCheck, AbortDecide, AbortRestore, AbortSession, AbortMark,
     AbortSave, AbortFinishProgress, AbortFinishState
<1>4. CASE Recover(p)
  BY <1>4 DEF Recover, Scan, RecoverCommitted, RecoverApply, RecoverPartial,
     RecoverAborting, RecoverAborted, RecoverDone
<1>5. CASE Start(p) \/ Exit(p) \/ Crash(p) \/ IoError(p) \/ LockTimeout(p)
  BY <1>5 DEF Start, Exit, Crash, IoError, LockTimeout, Unwind
<1>6. QED
  BY <1>1, <1>2, <1>3, <1>4, <1>5 DEF ProcStep, Step

\* A process that enters or stays in a critical section holds its lock.
LEMMA OwnLocks ==
  ASSUME TypeOK, LocksHeld, NEW p \in Proc, ProcStep(p)
  PROVE  /\ pc'[p] \in HoldsTx => txLock' = p
         /\ pc'[p] \in HoldsSess => sessLock' = p
<1> USE DEF LocksHeld, HoldsTx, HoldsSess, lockVars, AcquireTx, ReleaseTx, AcquireSess, ReleaseSess,
         TypeOK, procVars, Jump, Goto, Return, Done, Throw
<1>1. CASE Pipeline(p)
  BY <1>1 DEF Pipeline, OpenTx, OpenSession, StageEdit, SaveSession, FinalizeCompute, FinalizeWriteDiff,
     FinalizeCommit, ValidateRun, ValidateCommit, ApproveDecide, ApproveCommit
<1>2. CASE Apply(p)
  BY <1>2 DEF Apply, StageACheck, StageAPending, StageBStart, StageBVerify, StageBWrite,
     StageBRecord, StageBCommit, StageBPartialState, StageBPartialProgress,
     StageCSession, StageCDecide, StageCSave, StageCFinalize, StageCState
<1>3. CASE Abort(p)
  BY <1>3 DEF Abort, AbortFastCheck, AbortDecide, AbortRestore, AbortSession, AbortMark,
     AbortSave, AbortFinishProgress, AbortFinishState
<1>4. CASE Recover(p)
  BY <1>4 DEF Recover, Scan, RecoverCommitted, RecoverApply, RecoverPartial,
     RecoverAborting, RecoverAborted, RecoverDone
<1>5. CASE Start(p) \/ Exit(p) \/ Crash(p) \/ IoError(p) \/ LockTimeout(p)
  BY <1>5 DEF Start, Exit, Crash, IoError, LockTimeout, Unwind
<1>6. QED
  BY <1>1, <1>2, <1>3, <1>4, <1>5 DEF ProcStep, Step

\* Mutual exclusion is kept by every step.
LEMMA LocksStep ==
  ASSUME TypeOK, LocksHeld, NEW p \in Proc, ProcStep(p)
  PROVE  LocksHeld'
<1> SUFFICES ASSUME NEW q \in Proc
             PROVE  /\ pc'[q] \in HoldsTx => txLock' = q
                    /\ pc'[q] \in HoldsSess => sessLock' = q
  BY DEF LocksHeld, HoldsTx, HoldsSess
<1>1. CASE q = p
  BY <1>1, OwnLocks
<1>2. CASE q # p
  BY <1>2, Frame, OthersLocks DEF LocksHeld
<1>3. QED
  BY <1>1, <1>2

\* Only the scan schedules the end of an abort.
LEMMA AbortField ==
  ASSUME TypeOK, NEW p \in Proc, ProcStep(p)
  PROVE  loc'[p].abort = "aborted-finalize" => loc[p].abort = "aborted-finalize" \/ Scan(p)
<1> USE DEF TypeOK, Local, procVars, Jump, Goto, Return, Done, Throw, Between, Fresh
<1>1. CASE Pipeline(p)
  BY <1>1 DEF Pipeline, OpenTx, OpenSession, StageEdit, SaveSession, FinalizeCompute, FinalizeWriteDiff,
     FinalizeCommit, ValidateRun, ValidateCommit, ApproveDecide, ApproveCommit
<1>2. CASE Apply(p)
  BY <1>2 DEF Apply, StageACheck, StageAPending, StageBStart, StageBVerify, StageBWrite,
     StageBRecord, StageBCommit, StageBPartialState, StageBPartialProgress,
     StageCSession, StageCDecide, StageCSave, StageCFinalize, StageCState
<1>3. CASE Abort(p)
  BY <1>3 DEF Abort, AbortFastCheck, AbortDecide, AbortRestore, AbortSession, AbortMark,
     AbortSave, AbortFinishProgress, AbortFinishState
<1>4. CASE Recover(p)
  BY <1>4 DEF Recover, Scan, RecoverCommitted, RecoverApply, RecoverPartial,
     RecoverAborting, RecoverAborted, RecoverDone
<1>5. CASE Start(p) \/ Exit(p) \/ Crash(p) \/ IoError(p) \/ LockTimeout(p)
  BY <1>5 DEF Start, Exit, Crash, IoError, LockTimeout, Unwind
<1>6. QED
  BY <1>1, <1>2, <1>3, <1>4, <1>5 DEF ProcStep, Step

-----------------------------------------------------------------------------
(* The core: Stage B's position, the fresh session, the stages.            *)

\* Stage B never moves past the last file of its plan.
LEMMA PosStep ==
  ASSUME TypeOK, PosInRange, NEW p \in Proc, ProcStep(p)
  PROVE  PosInRange'
<1> SUFFICES ASSUME NEW q \in Proc, pc'[q] \in {"b3b", "b4"}
             PROVE  loc'[q].pos < Planned(loc'[q].diff)
  BY DEF PosInRange, Planned
<1>1. CASE q # p
  BY <1>1, Frame DEF PosInRange
<1>2. CASE q = p
  <2>1. StageBVerify(p) \/ StageBWrite(p)
    BY <1>2, Entries
  <2>2. UNCHANGED loc
    BY <2>1 DEF StageBVerify, StageBWrite, Jump
  <2>3. loc[p].pos < Planned(loc[p].diff)
    BY <2>1 DEF StageBVerify, StageBWrite, PosInRange
  <2>4. QED
    BY <1>2, <2>2, <2>3
<1>3. QED
  BY <1>1, <1>2

\* A write of the session file finds its lock free or has it.
LEMMA SessWrite ==
  ASSUME NEW p \in Proc, ProcStep(p)
  PROVE  UNCHANGED sess \/ sessLock = Free \/ pc[p] \in {"c3", "ab5"}
  BY Writers DEF OpenSession, SaveSession, StageCSave, AbortSave

\* The session read inside the session lock stays current until it is saved.
LEMMA MemStep ==
  ASSUME TypeOK, LocksHeld, MemFresh, NEW p \in Proc, ProcStep(p)
  PROVE  MemFresh'
<1> SUFFICES ASSUME NEW q \in Proc, pc'[q] \in HoldsSess
             PROVE  loc'[q].mem = sess'
  BY DEF MemFresh, HoldsSess
<1>1. CASE q = p
  <2>1. StageCSession(p) \/ StageCDecide(p) \/ AbortSession(p) \/ AbortMark(p)
    BY <1>1, Entries DEF HoldsSess
  <2>2. CASE StageCSession(p) \/ AbortSession(p)
    BY <1>1, <2>2 DEF StageCSession, AbortSession, TypeOK, Local
  <2>3. CASE StageCDecide(p)
    <3>1. pc'[p] = "c3"
      BY <1>1, <2>3 DEF StageCDecide, HoldsSess, TypeOK, Jump, Goto, Throw, Return
    <3>2. UNCHANGED <<loc, sess>>
      BY <2>3, <3>1 DEF StageCDecide, TypeOK, Jump, Goto, Throw, Return
    <3>3. QED
      BY <1>1, <2>3, <3>2 DEF StageCDecide, MemFresh, HoldsSess
  <2>4. CASE AbortMark(p)
    BY <1>1, <2>4 DEF AbortMark, Jump, MemFresh, HoldsSess
  <2>5. QED
    BY <2>1, <2>2, <2>3, <2>4
<1>2. CASE q # p
  <2>1. pc[q] \in HoldsSess /\ loc'[q] = loc[q]
    BY <1>2, Frame
  <2>2. sessLock = q
    BY <2>1 DEF LocksHeld
  <2>3. UNCHANGED sess
    BY <1>2, <2>2, SessWrite, LockAssumption DEF LocksHeld, HoldsSess
  <2>4. QED
    BY <2>1, <2>3 DEF MemFresh
<1>3. QED
  BY <1>1, <1>2

TxLocked == {"a4", "b3", "b3b", "b4", "bErr", "bFail", "c5", "rw"}

\* While a process applies under the tx lock, nobody else moves state.json or
\* apply-progress.json.
LEMMA TxFrozen ==
  ASSUME LocksHeld, StageInv, NEW p \in Proc, ProcStep(p),
         NEW q \in Proc, q # p, pc[q] \in TxLocked
  PROVE  UNCHANGED <<txState, applyPhase>>
<1>1. txLock = q /\ q # Free
  BY LockAssumption DEF LocksHeld, HoldsTx, TxLocked
<1>2. pc[p] \notin HoldsTx
  BY <1>1 DEF LocksHeld
<1>3. txState # "absent"
  BY DEF StageInv, TxLocked, Post
<1>4. UNCHANGED txState
  BY <1>1, <1>2, <1>3, Writers DEF OpenTx, FinalizeCommit, ValidateCommit, ApproveCommit,
     StageBPartialState, StageCState, AbortFinishState, RecoverApply, RecoverAborted, HoldsTx
<1>5. UNCHANGED applyPhase
  BY <1>1, <1>2, Writers DEF StageAPending, StageBStart, StageBCommit,
     StageBPartialProgress, StageCFinalize, RecoverApply, RecoverPartial, HoldsTx
<1>6. QED
  BY <1>4, <1>5

\* How the two files move: the state never falls back behind the approval, and
\* a progress file that stands for written files does not vanish before it.
LEMMA Moves ==
  ASSUME TypeOK, StageInv, NEW p \in Proc, ProcStep(p)
  PROVE  /\ txState \in Post => txState' \in Post
         /\ txState = "approved" => txState' \in {"approved"} \cup Post
         /\ txState \notin {"approved"} \cup Post => txState' \notin Post \/ txState' = "aborted"
         /\ applyPhase' = "none" => applyPhase \in {"none", "apply-pending"} \/ txState # "approved"
         /\ applyPhase' = "apply-pending" => (applyPhase = "apply-pending" \/ (applyPhase = "none" /\ txState = "approved"))
         /\ (applyPhase' # "none") => applyPhase # "none" \/ txState \in {"approved"} \cup Post
<1>1. /\ txState \in Post => txState' \in Post
      /\ txState = "approved" => txState' \in {"approved"} \cup Post
      /\ txState \notin {"approved"} \cup Post => txState' \notin Post \/ txState' = "aborted"
  BY Writers DEF OpenTx, FinalizeCommit, ValidateCommit, ApproveCommit, StageInv,
     StageBPartialState, StageCState, AbortFinishState, RecoverApply, RecoverAborted, Post
<1>2. /\ applyPhase' = "none" => applyPhase \in {"none", "apply-pending"} \/ txState # "approved"
      /\ applyPhase' = "apply-pending" => (applyPhase = "apply-pending" \/ (applyPhase = "none" /\ txState = "approved"))
      /\ (applyPhase' # "none") => applyPhase # "none" \/ txState \in {"approved"} \cup Post
  BY Writers DEF StageAPending, StageBStart, StageBCommit, StageInv, Post,
     StageBPartialProgress, StageCFinalize, RecoverApply, RecoverPartial
<1>3. QED
  BY <1>1, <1>2

\* Each stage finds what the stage before it left.
LEMMA StageStep ==
  ASSUME TypeOK, LocksHeld, StageInv, NEW p \in Proc, ProcStep(p)
  PROVE  StageInv'
<1>1. (applyPhase # "none" => txState \in {"approved"} \cup Post)'
  BY Moves DEF StageInv
<1>2. ASSUME NEW q \in Proc, q # p
      PROVE  /\ pc'[q] = "a4" => txState' = "approved" /\ applyPhase' = "none"
             /\ pc'[q] \in {"b3", "b3b", "b4", "bErr"} => txState' = "approved"
             /\ pc'[q] \in {"bFail", "rw"} => txState' = "applied-partial"
             /\ pc'[q] \in {"b3", "b3b", "b4", "bErr", "bFail", "rw"} => applyPhase' # "none"
             /\ pc'[q] \in {"c0", "c1", "c3"} =>
                  \/ txState' \in Post
                  \/ txState' = "approved" /\ applyPhase' \notin {"none", "apply-pending"}
             /\ pc'[q] = "c5" => applyPhase' = "apply-finalized"
  <2>1. pc'[q] = pc[q]
    BY <1>2, Frame
  <2>2. CASE pc[q] \in TxLocked
    BY <1>2, <2>1, <2>2, TxFrozen DEF StageInv, TxLocked
  <2>3. CASE pc[q] \in {"c0", "c1", "c3"}
    BY <1>2, <2>1, <2>3, Moves DEF StageInv, Post
  <2>4. QED
    BY <2>1, <2>2, <2>3 DEF TxLocked
<1>3. /\ pc'[p] = "a4" => txState' = "approved" /\ applyPhase' = "none"
      /\ pc'[p] \in {"b3", "b3b", "b4", "bErr"} => txState' = "approved"
      /\ pc'[p] \in {"bFail", "rw"} => txState' = "applied-partial"
      /\ pc'[p] \in {"b3", "b3b", "b4", "bErr", "bFail", "rw"} => applyPhase' # "none"
      /\ pc'[p] \in {"c0", "c1", "c3"} =>
           \/ txState' \in Post
           \/ txState' = "approved" /\ applyPhase' \notin {"none", "apply-pending"}
      /\ pc'[p] = "c5" => applyPhase' = "apply-finalized"
  <2> USE DEF StageInv, txVars, applyVars
  <2>1. pc'[p] = "a4" => txState' = "approved" /\ applyPhase' = "none"
    BY Entries DEF StageACheck
  <2>2. pc'[p] \in {"b3", "b3b", "b4", "bErr"} => txState' = "approved"
    BY Entries DEF StageBStart, StageBRecord, StageBVerify, StageBWrite, Throw, Return, Goto, TypeOK
  <2>3. pc'[p] \in {"bFail", "rw"} => txState' = "applied-partial"
    BY Entries DEF StageBPartialState, RecoverApply, TypeOK
  <2>4. pc'[p] \in {"b3", "b3b", "b4", "bErr", "bFail", "rw"} => applyPhase' # "none"
    BY Entries DEF StageBStart, StageBRecord, StageBVerify, StageBWrite, Throw, Return, Goto,
       StageBPartialState, RecoverApply, TypeOK
  <2>5. pc'[p] = "c0" => (txState' \in Post
           \/ (txState' = "approved" /\ applyPhase' \notin {"none", "apply-pending"}))
    BY Entries DEF StageBCommit, RecoverCommitted, Goto, TypeOK
  <2>6. pc'[p] \in {"c1", "c3"} => (txState' \in Post
           \/ (txState' = "approved" /\ applyPhase' \notin {"none", "apply-pending"}))
    BY Entries DEF StageCSession, StageCDecide
  <2>7. pc'[p] = "c5" => applyPhase' = "apply-finalized"
    BY Entries DEF StageCFinalize, Done, Return, Goto, TypeOK
  <2>8. QED
    BY <2>1, <2>2, <2>3, <2>4, <2>5, <2>6, <2>7
<1>4. QED
  BY <1>1, <1>2, <1>3 DEF StageInv, Post

\* The core is kept by every step of a process.
LEMMA CoreStep ==
  ASSUME Core, NEW p \in Proc, ProcStep(p)
  PROVE  Core'
  BY TypeStep, PosStep, LocksStep, MemStep, StageStep DEF Core

-----------------------------------------------------------------------------
(* The overrides.                                                          *)

\* Neither the approval nor a progress file outlives its overrides.
LEMMA CoverStep ==
  ASSUME TypeOK, StageInv, CoverInv, ApprovedIsCovered, NEW p \in Proc, ProcStep(p)
  PROVE  CoverInv' /\ ApprovedIsCovered'
<1>1. /\ applyPhase # "none" => UNCHANGED blocking
      /\ txState \in {"approved"} \cup Post => UNCHANGED blocking
      /\ overrides \subseteq overrides'
  BY Writers DEF ValidateCommit, ApproveCommit, StageInv, Post
<1>2. ApprovedIsCovered'
  <2> USE DEF ApprovedIsCovered
  <2>1. CASE UNCHANGED txState
    BY <2>1, <1>1 DEF Post
  <2>2. CASE OpenTx(p) \/ FinalizeCommit(p) \/ ValidateCommit(p)
               \/ AbortFinishState(p) \/ RecoverAborted(p)
    BY <2>2, <1>1 DEF OpenTx, FinalizeCommit, ValidateCommit, AbortFinishState,
       RecoverAborted, Post
  <2>3. CASE ApproveCommit(p)
    BY <2>3, <1>1 DEF ApproveCommit, CoverInv
  <2>4. CASE StageBPartialState(p)
    BY <2>4, <1>1 DEF StageBPartialState, StageInv
  <2>5. CASE StageCState(p)
    BY <2>5, <1>1 DEF StageCState, StageInv, CoverInv
  <2>6. CASE RecoverApply(p)
    BY <2>6, <1>1 DEF RecoverApply, CoverInv, Post
  <2>7. QED
    BY <2>1, <2>2, <2>3, <2>4, <2>5, <2>6, Writers
<1>3. (applyPhase # "none" => blocking \subseteq overrides)'
  <2>1. CASE applyPhase # "none"
    BY <2>1, <1>1 DEF CoverInv
  <2>2. CASE StageAPending(p)
    BY <2>2, <1>1 DEF StageAPending, StageInv, ApprovedIsCovered
  <2>3. CASE applyPhase' = "none"
    BY <2>3
  <2>4. QED
    BY <2>1, <2>2, <2>3, Writers DEF StageBStart, StageBCommit, StageBPartialProgress,
       StageCFinalize, RecoverApply, RecoverPartial, StageInv
<1>4. ASSUME NEW q \in Proc, pc'[q] = "appr"
      PROVE  /\ txState' \notin {"absent", "staging", "finalized"}
             /\ (txState' = "validated") => (blocking' \subseteq loc'[q].cover)
  <2>1. CASE q = p
    <3>1. ApproveDecide(p)
      BY <1>4, <2>1, Entries
    <3>2. loc'[p].cover = blocking
      BY <3>1 DEF ApproveDecide, TypeOK, Local
    <3>3. QED
      BY <2>1, <3>1, <3>2 DEF ApproveDecide, txVars
  <2>2. CASE q # p
    <3>1. pc[q] = "appr" /\ loc'[q] = loc[q]
      BY <1>4, <2>2, Frame
    <3>2. txState \notin {"absent", "staging", "finalized"}
      BY <3>1 DEF CoverInv
    <3>3. UNCHANGED txState \/ txState' \in {"approved"} \cup Post
      BY <3>2, Writers DEF OpenTx, FinalizeCommit, ValidateCommit, ApproveCommit,
         StageBPartialState, StageCState, AbortFinishState, RecoverApply, RecoverAborted, Post
    <3>4. UNCHANGED blocking
      BY <3>2, Writers DEF ValidateCommit
    <3>5. QED
      BY <3>1, <3>2, <3>3, <3>4 DEF CoverInv, Post
  <2>3. QED
    BY <2>1, <2>2
<1>5. QED
  BY <1>2, <1>3, <1>4 DEF CoverInv

-----------------------------------------------------------------------------
(* The audit.                                                              *)

\* Unless a turn saves a stale session, a write of it keeps its records.
LEMMA SessGrows ==
  ASSUME TypeOK, MemFresh, ~StaleSaves, NEW p \in Proc, ProcStep(p)
  PROVE  sess.recs \subseteq sess'.recs
<1>1. CASE UNCHANGED sess
  BY <1>1
<1>2. CASE OpenSession(p) \/ SaveSession(p)
  BY <1>2 DEF OpenSession, SaveSession, TypeOK, Session
<1>3. CASE StageCSave(p)
  <2>1. loc[p].mem = sess
    BY <1>3 DEF StageCSave, MemFresh, HoldsSess
  <2>2. QED
    BY <1>3, <2>1 DEF StageCSave, TypeOK, Session
<1>4. CASE AbortSave(p)
  <2>1. loc[p].mem = sess
    BY <1>4 DEF AbortSave, MemFresh, HoldsSess
  <2>2. QED
    BY <1>4, <2>1 DEF AbortSave, TypeOK, Session
<1>5. QED
  BY <1>1, <1>2, <1>3, <1>4, Writers

\* The record is there before a progress file or a label says so.
LEMMA RecordStep ==
  ASSUME TypeOK, MemFresh, StageInv, RecordInv, ~StaleSaves, NEW p \in Proc, ProcStep(p)
  PROVE  RecordInv'
<1>1. (applyPhase = "apply-finalized" => "applied" \in sess.recs)'
  <2>1. CASE UNCHANGED applyPhase
    BY <2>1, SessGrows DEF RecordInv
  <2>2. CASE StageCFinalize(p)
    BY <2>2, SessGrows DEF StageCFinalize, RecordInv
  <2>3. CASE applyPhase' # "apply-finalized"
    BY <2>3
  <2>4. QED
    BY <2>1, <2>2, <2>3, Writers DEF StageAPending, StageBStart, StageBCommit,
       StageBPartialProgress, RecoverApply, RecoverPartial
<1>2. (abortPhase = "aborted" => "aborted" \in sess.recs)'
  <2>1. CASE UNCHANGED abortPhase
    BY <2>1, SessGrows DEF RecordInv
  <2>2. CASE AbortMark(p)
    BY <2>2, SessGrows DEF AbortMark, RecordInv, abortVars
  <2>3. CASE AbortFinishProgress(p)
    BY <2>3, SessGrows DEF AbortFinishProgress, RecordInv
  <2>4. QED
    BY <2>1, <2>2, <2>3, Writers
<1>3. ASSUME NEW q \in Proc, pc'[q] = "c4"
      PROVE  "applied" \in sess'.recs \/ (applyPhase' = "none" /\ txState' \in Post)
  <2>1. CASE q # p
    <3>1. CASE "applied" \in sess.recs
      BY <3>1, SessGrows
    <3>2. CASE applyPhase = "none" /\ txState \in Post
      <4>1. applyPhase' = "none"
        BY <3>2, Writers DEF StageAPending, StageBStart, StageBCommit, StageInv, Post,
           StageBPartialProgress, StageCFinalize, RecoverApply, RecoverPartial
      <4>2. QED
        BY <3>2, <4>1, Moves
    <3>3. QED
      BY <1>3, <2>1, <3>1, <3>2, Frame DEF RecordInv
  <2>2. CASE q = p /\ StageCSave(p)
    BY <2>2 DEF StageCSave, TypeOK, Local, Session
  <2>3. CASE q = p /\ StageCDecide(p)
    <3>1. loc[p].mem = sess
      BY <2>3 DEF StageCDecide, MemFresh, HoldsSess
    <3>2. QED
      BY <1>3, <2>3, <3>1 DEF StageCDecide, AllApplied, Throw, Return, Jump, Goto,
         TypeOK, StageInv, txVars, applyVars
  <2>4. QED
    BY <1>3, <2>1, <2>2, <2>3, Entries
<1>4. ASSUME NEW q \in Proc
      PROVE  /\ pc'[q] \in {"ab6", "ab7"} => "aborted" \in sess'.recs
             /\ loc'[q].abort = "aborted-finalize" => "aborted" \in sess'.recs
  <2>1. CASE q # p
    BY <2>1, Frame, SessGrows DEF RecordInv
  <2>2. CASE q = p
    <3>1. pc'[p] = "ab6" => "aborted" \in sess'.recs
      BY Entries DEF AbortSave
    <3>2. pc'[p] = "ab7" => "aborted" \in sess'.recs
      BY Entries, SessGrows DEF AbortFinishProgress, RecordInv
    <3>3. CASE Scan(p)
      <4>1. loc'[p].abort = ScanAbort
        BY <3>3 DEF Scan, TypeOK, Local
      <4>2. QED
        BY <2>2, <3>1, <3>2, <3>3, <4>1, SessGrows DEF ScanAbort, RecordInv
    <3>4. QED
      BY <2>2, <3>1, <3>2, <3>3, AbortField, SessGrows DEF RecordInv
  <2>3. QED
    BY <2>1, <2>2
<1>5. QED
  BY <1>1, <1>2, <1>3, <1>4 DEF RecordInv, Post

\* The state file follows the records.
LEMMA RecordedStep ==
  ASSUME TypeOK, MemFresh, StageInv, RecordInv, OutcomeIsRecorded, ~StaleSaves,
         NEW p \in Proc, ProcStep(p)
  PROVE  OutcomeIsRecorded'
<1> USE SessGrows DEF OutcomeIsRecorded
<1>1. CASE UNCHANGED txState
  BY <1>1
<1>2. CASE OpenTx(p) \/ FinalizeCommit(p) \/ ValidateCommit(p) \/ ApproveCommit(p)
             \/ StageBPartialState(p)
  BY <1>2 DEF OpenTx, FinalizeCommit, ValidateCommit, ApproveCommit, StageBPartialState
<1>3. CASE StageCState(p)
  BY <1>3 DEF StageCState, StageInv, RecordInv
<1>4. CASE AbortFinishState(p)
  BY <1>4 DEF AbortFinishState, RecordInv
<1>5. CASE RecoverApply(p)
  BY <1>5 DEF RecoverApply, RecordInv
<1>6. CASE RecoverAborted(p)
  BY <1>6 DEF RecoverAborted, RecordInv
<1>7. QED
  BY <1>1, <1>2, <1>3, <1>4, <1>5, <1>6, Writers

-----------------------------------------------------------------------------
(* Theorems.                                                               *)

\* Expiry of a dead process's lock, and changes made outside cliq, touch
\* nothing the invariants speak of but locks nobody holds and file contents.
LEMMA EnvStep ==
  ASSUME Core, ExpireLock \/ (\E f \in File : ExternalEdit(f)) \/ UNCHANGED vars
  PROVE  /\ Core'
         /\ UNCHANGED <<txVars, applyVars, abortVars, procVars, sess>>
<1> USE DEF Core, TypeOK, PosInRange, LocksHeld, MemFresh, StageInv, txVars, applyVars,
        abortVars, lockVars, procVars, dataVars
<1>1. CASE ExpireLock
  BY <1>1, LockAssumption DEF ExpireLock, Planned, HoldsTx, HoldsSess
<1>2. CASE \E f \in File : ExternalEdit(f)
  <2>1. PICK f \in File : ExternalEdit(f)
    BY <1>2
  <2>2. file' \in [File -> Content]
    BY <2>1 DEF ExternalEdit, Content
  <2>3. QED
    BY <2>1, <2>2 DEF ExternalEdit, Planned, HoldsTx, HoldsSess
<1>3. CASE UNCHANGED vars
  BY <1>3 DEF vars, Planned, HoldsTx, HoldsSess
<1>4. QED
  BY <1>1, <1>2, <1>3

\* The initial state.
LEMMA InitInv == Init => Cover /\ Audit
<1> SUFFICES ASSUME Init PROVE Cover /\ Audit
  OBVIOUS
<1>1. /\ "none" \in ApplyPhase /\ "none" \in Flag
      /\ [f \in File |-> 0] \in [File -> Content] /\ NoDiff \in Diff /\ 0 \in Version
  BY BoundAssumption DEF ApplyPhase, Flag, Content, Version, NoDiff, Diff
<1>2. Fresh("command", NoSession) \in Local /\ NoSession \in Session
  BY <1>1, FreshTyped DEF Fresh
<1>3. TypeOK
  BY <1>1, <1>2, PCLabels DEF Init, TypeOK, TxState, ApplyPhase, AbortPhase, Reason
<1>4. Fresh("command", NoSession).abort = "none"
  BY DEF Fresh, Between
<1>5. QED
  BY <1>3, <1>4 DEF Init, Cover, Audit, Core, PosInRange, LocksHeld, MemFresh, StageInv,
     CoverInv, RecordInv, ApprovedIsCovered, OutcomeIsRecorded, HoldsTx, HoldsSess

\* Every step keeps the core.
LEMMA CoreNext ==
  ASSUME Core, [Next]_vars
  PROVE  Core'
  BY CoreStep, EnvStep DEF Next

\* Every file and every local variable of every process keeps its type.
THEOREM TypeCorrect == Spec => []TypeOK
<1>1. Init => Core
  BY InitInv DEF Cover
<1>2. Core /\ [Next]_vars => Core'
  BY CoreNext
<1>3. Core => TypeOK
  BY DEF Core
<1>4. QED
  BY <1>1, <1>2, <1>3, PTL DEF Spec

\* No transaction is approved, partly applied or applied with a blocking failure
\* that no override covers, however many processes validate, approve, apply,
\* abort and recover it at once (approveTx, coordinator.ts).
THEOREM Covered == Spec => []ApprovedIsCovered
<1>1. Init => Cover
  BY InitInv
<1>2. Cover /\ [Next]_vars => Cover'
  <2> SUFFICES ASSUME Cover, [Next]_vars PROVE Cover'
    OBVIOUS
  <2>1. CASE \E p \in Proc : ProcStep(p)
    BY <2>1, CoreStep, CoverStep DEF Cover, Core
  <2>2. CASE ExpireLock \/ (\E f \in File : ExternalEdit(f)) \/ UNCHANGED vars
    BY <2>2, EnvStep DEF Cover, CoverInv, ApprovedIsCovered, txVars, applyVars, procVars
  <2>3. QED
    BY <2>1, <2>2 DEF Next
<1>3. Cover => ApprovedIsCovered
  BY DEF Cover
<1>4. QED
  BY <1>1, <1>2, <1>3, PTL DEF Spec

\* The invariant of the audit is inductive.
LEMMA AuditNext ==
  ASSUME ~StaleSaves, Audit, [Next]_vars
  PROVE  Audit' /\ sess.recs \subseteq sess'.recs
<1>1. CASE \E p \in Proc : ProcStep(p)
  BY <1>1, CoreStep, RecordStep, RecordedStep, SessGrows DEF Audit, Core
<1>2. CASE ExpireLock \/ (\E f \in File : ExternalEdit(f)) \/ UNCHANGED vars
  BY <1>2, EnvStep DEF Audit, RecordInv, OutcomeIsRecorded, txVars, applyVars,
     abortVars, procVars
<1>3. QED
  BY <1>1, <1>2 DEF Next

\* Stage C and the abort write the session file before state.json: no process,
\* crash or recovery ever shows an outcome that has no record in the session.
THEOREM AuditFirst ==
  ASSUME ~StaleSaves
  PROVE  Spec => []OutcomeIsRecorded
<1>1. Init => Audit
  BY InitInv
<1>2. Audit /\ [Next]_vars => Audit'
  BY AuditNext
<1>3. Audit => OutcomeIsRecorded
  BY DEF Audit
<1>4. QED
  BY <1>1, <1>2, <1>3, PTL DEF Spec

\* mutateSession reads the session again under its lock, so no tx command of
\* any process removes a record that another one has written.
THEOREM AuditStays ==
  ASSUME ~StaleSaves
  PROVE  Spec => RecordsStay
<1>1. Init => Audit
  BY InitInv
<1>2. Audit /\ [Next]_vars => Audit' /\ [sess.recs \subseteq sess'.recs]_vars
  BY AuditNext
<1>3. QED
  BY <1>1, <1>2, PTL DEF Spec, RecordsStay

-----------------------------------------------------------------------------
(* Commands that do not overlap: with one process, every command starts    *)
(* after the one before it has ended or died, as in TxOne.                 *)

Alone == \A p, q \in Proc : p = q

\* Which transaction states go with each phase of the apply, and what the phase
\* says of the files.
PhaseInv ==
  /\ \A f \in File : ghost[f] \in {-1, 0}
  /\ applyPhase = "none" => txState \notin {"applied", "applied-partial"} /\ Clean
  /\ applyPhase = "apply-pending" => txState = "approved" /\ Clean /\ written = {}
  /\ applyPhase = "apply-writing" => txState \in {"approved", "applied-partial"}
  /\ applyPhase = "apply-committed" => txState = "approved"
  /\ applyPhase = "apply-finalized" => txState \in {"approved", "applied", "aborted"}
  /\ applyPhase = "apply-failed-partial" => txState \in {"applied-partial", "aborted"}
  /\ applyPhase \in {"apply-committed", "apply-finalized"} => written = 1..Planned(diff)

\* The records of the session and the progress file of the abort.
TraceInv ==
  /\ "applied" \in sess.recs =>
       ~sess.active /\ applyPhase \in {"apply-committed", "apply-finalized"}
  /\ applyPhase = "apply-finalized" => "applied" \in sess.recs
  /\ abortPhase = "none" <=> abortReason = "none"
  /\ "aborted" \in sess.recs => abortPhase # "none" /\ sess.why = abortReason
  /\ abortPhase = "aborted" => "aborted" \in sess.recs
  /\ txState = "aborted" => abortPhase = "aborted"
  /\ applyPhase \in InFlight => abortPhase = "none"
  /\ abortPhase # "none" /\ "applied" \notin sess.recs
     /\ abortReason # "apply-failed-partial-kept" => Clean

\* What an apply finds at each of its steps, ...
ApplySteps ==
  \A p \in Proc :
    /\ pc[p] \in {"open", "fin1"} => txState = "staging"
    /\ pc[p] \in {"a4", "b0", "b3", "b3b", "b4"} => loc[p].diff = diff
    /\ pc[p] = "a4" => txState = "approved" /\ applyPhase = "none" /\ abortPhase = "none"
    /\ pc[p] = "b0" => applyPhase = "apply-pending"
    /\ pc[p] \in {"b3", "b3b", "b4", "bErr", "bFail", "rw"} => applyPhase = "apply-writing"
    /\ pc[p] \in {"b3", "b3b", "b4"} => txState = "approved" /\ written = 1..loc[p].pos
    /\ pc[p] \in {"c0", "c1", "c3", "c4"} => applyPhase = "apply-committed"
    /\ pc[p] \in {"c4", "c5"} => "applied" \in sess.recs
    /\ pc[p] = "c5" => applyPhase = "apply-finalized"
    /\ pc[p] \in {"bFail", "rw"} => txState = "applied-partial"

AbortLabels == {"ab1", "abRestore", "abWrite", "ab4", "ab5"}

\* ... what an abort does, ...
AbortSteps ==
  \A p \in Proc :
    /\ pc[p] \in AbortLabels =>
         /\ applyPhase \notin InFlight
         /\ (txState = "applied-partial") <=> (loc[p].flag # "none")
         /\ abortPhase = "aborting" => ReasonOf(loc[p].flag) = abortReason
         /\ loc[p].mode = "runner" => loc[p].flag = "none"
         /\ loc[p].mode = "recovering" => abortPhase = "aborting"
    /\ pc[p] \in {"abWrite", "ab4", "ab5"} /\ loc[p].flag = "restore" => Clean
    /\ pc[p] = "ab4" => "aborted" \notin sess.recs
    /\ pc[p] = "ab5" => abortPhase # "none"
    /\ pc[p] \in {"ab6", "ab7"} => "aborted" \in sess.recs
    /\ pc[p] \in {"ab6", "ab7"} => applyPhase \notin InFlight
    /\ pc[p] = "ab7" => abortPhase = "aborted"

CommandLabels == {"ready", "open", "fin1", "fin2", "val", "appr", "a4", "b0", "b3", "b3b", "b4", "bErr", "bFail"}

\* ... and what recovery has read, or left behind for the command after it.
RecoverSteps ==
  \A p \in Proc :
    /\ pc[p] # "idle" => loc[p].mem = sess
    /\ pc[p] \in CommandLabels => loc[p].mode # "recovering"
    /\ pc[p] \in {"scan", "recover", "rw"} => loc[p].mode = "recovering"
    /\ loc[p].apply # "none" => pc[p] = "recover" /\ applyPhase = loc[p].apply
    /\ pc[p] = "recover" /\ loc[p].apply = "none" => applyPhase \notin InFlight
    /\ loc[p].abort # "none" =>
         pc[p] \in {"recover", "rw", "c0", "c1", "c3", "c4", "c5"} /\ loc[p].mode = "recovering"
    /\ loc[p].abort = "aborting" => abortPhase = "aborting" /\ loc[p].resume = FlagOf(abortReason)
    /\ loc[p].abort = "aborted-finalize" => abortPhase = "aborted"
    /\ abortPhase = "aborting" /\ loc[p].mode = "runner" => abortReason = "user-abort"
    /\ abortPhase = "aborting" /\ loc[p].mode = "command" => pc[p] \in {"idle", "ab5", "ab6"}
    /\ abortPhase = "aborting" /\ loc[p].mode = "recovering" =>
         loc[p].abort = "aborting" \/ pc[p] \in AbortLabels \cup {"scan", "ab6"}

Solo == PhaseInv /\ TraceInv /\ ApplySteps /\ AbortSteps /\ RecoverSteps

\* Every file recorded as written has the content of the plan, or what somebody
\* made of it since; the file about to be recorded has it too.
PlantedInv ==
  /\ applyPhase \in {"apply-writing", "apply-committed", "apply-finalized"} =>
       \A f \in written : file[f] \in {-1, diff.new}
  /\ \A p \in Proc : pc[p] = "b4" => file[loc[p].pos + 1] \in {-1, diff.new}

\* A recovery that has dealt with the apply has also written its outcome.
OutcomeWritten ==
  \A p \in Proc : pc[p] = "recover" /\ loc[p].apply = "none" /\ applyPhase = "apply-finalized"
                    => txState \in {"applied", "aborted"}

\* Only a confirmed restore goes to the ghost snapshot.
RestoreInv == \A p \in Proc : pc[p] = "abRestore" => loc[p].flag = "restore"

Ends == PlantedInv /\ OutcomeWritten /\ RestoreInv

\* Which actions write the files that Writers leaves out.
LEMMA DataWriters ==
  ASSUME NEW p \in Proc, ProcStep(p)
  PROVE  /\ UNCHANGED file \/ StageBWrite(p) \/ AbortRestore(p)
         /\ UNCHANGED ghost \/ StageAPending(p)
         /\ UNCHANGED written \/ StageAPending(p) \/ StageBRecord(p)
         /\ UNCHANGED diff \/ FinalizeWriteDiff(p)
         /\ UNCHANGED abortReason \/ AbortMark(p)
<1> USE DEF txVars, applyVars, abortVars, dataVars
<1>1. CASE Pipeline(p)
  BY <1>1 DEF Pipeline, OpenTx, OpenSession, StageEdit, SaveSession, FinalizeCompute, FinalizeWriteDiff,
     FinalizeCommit, ValidateRun, ValidateCommit, ApproveDecide, ApproveCommit
<1>2. CASE Apply(p)
  BY <1>2 DEF Apply, StageACheck, StageAPending, StageBStart, StageBVerify, StageBWrite,
     StageBRecord, StageBCommit, StageBPartialState, StageBPartialProgress,
     StageCSession, StageCDecide, StageCSave, StageCFinalize, StageCState
<1>3. CASE Abort(p)
  BY <1>3 DEF Abort, AbortFastCheck, AbortDecide, AbortRestore, AbortSession, AbortMark,
     AbortSave, AbortFinishProgress, AbortFinishState
<1>4. CASE Recover(p)
  BY <1>4 DEF Recover, Scan, RecoverCommitted, RecoverApply, RecoverPartial,
     RecoverAborting, RecoverAborted, RecoverDone
<1>5. CASE Start(p) \/ Exit(p) \/ Crash(p) \/ IoError(p) \/ LockTimeout(p)
  BY <1>5 DEF Start, Exit, Crash, IoError, LockTimeout, Unwind
<1>6. QED
  BY <1>1, <1>2, <1>3, <1>4, <1>5 DEF ProcStep, Step

\* Where the other labels are entered from.
LEMMA MoreEntries ==
  ASSUME TypeOK, NEW p \in Proc, ProcStep(p)
  PROVE  /\ pc'[p] = "open" => OpenTx(p)
         /\ pc'[p] = "fin1" => FinalizeCompute(p)
         /\ pc'[p] = "b0" => StageAPending(p)
         /\ pc'[p] = "ab1" => AbortFastCheck(p) \/ RecoverAborting(p)
         /\ pc'[p] = "abRestore" => AbortDecide(p)
         /\ pc'[p] = "abWrite" => AbortDecide(p) \/ AbortRestore(p)
         /\ pc'[p] = "scan" => Start(p)
<1> USE DEF TypeOK, procVars, Jump, Goto, Return, Done, Throw
<1>1. CASE Pipeline(p)
  BY <1>1 DEF Pipeline, OpenTx, OpenSession, StageEdit, SaveSession, FinalizeCompute, FinalizeWriteDiff,
     FinalizeCommit, ValidateRun, ValidateCommit, ApproveDecide, ApproveCommit
<1>2. CASE Apply(p)
  BY <1>2 DEF Apply, StageACheck, StageAPending, StageBStart, StageBVerify, StageBWrite,
     StageBRecord, StageBCommit, StageBPartialState, StageBPartialProgress,
     StageCSession, StageCDecide, StageCSave, StageCFinalize, StageCState
<1>3. CASE Abort(p)
  BY <1>3 DEF Abort, AbortFastCheck, AbortDecide, AbortRestore, AbortSession, AbortMark,
     AbortSave, AbortFinishProgress, AbortFinishState
<1>4. CASE Recover(p)
  BY <1>4 DEF Recover, Scan, RecoverCommitted, RecoverApply, RecoverPartial,
     RecoverAborting, RecoverAborted, RecoverDone
<1>5. CASE Start(p) \/ Exit(p) \/ Crash(p) \/ IoError(p) \/ LockTimeout(p)
  BY <1>5 DEF Start, Exit, Crash, IoError, LockTimeout, Unwind
<1>6. QED
  BY <1>1, <1>2, <1>3, <1>4, <1>5 DEF ProcStep, Step

\* Which actions change the locals, as long as the operation does not return.
LEMMA LocalMoves ==
  ASSUME TypeOK, NEW p \in Proc, ProcStep(p), pc'[p] \notin {"idle", "ready", "recover"}
  PROVE  /\ loc'[p].mode = loc[p].mode \/ Start(p)
         /\ loc'[p].diff = loc[p].diff \/ StageACheck(p) \/ FinalizeCompute(p)  \/ Start(p)
         /\ loc'[p].pos = loc[p].pos \/ StageBStart(p) \/ StageBRecord(p) \/ Start(p)
         /\ loc'[p].flag = loc[p].flag \/ AbortFastCheck(p) \/ RecoverAborting(p) \/ Start(p)
<1> USE DEF TypeOK, Local, procVars, Jump, Goto, Return, Done, Throw, Between, Fresh
<1>1. CASE Pipeline(p)
  BY <1>1 DEF Pipeline, OpenTx, OpenSession, StageEdit, SaveSession, FinalizeCompute, FinalizeWriteDiff,
     FinalizeCommit, ValidateRun, ValidateCommit, ApproveDecide, ApproveCommit
<1>2. CASE Apply(p)
  BY <1>2 DEF Apply, StageACheck, StageAPending, StageBStart, StageBVerify, StageBWrite,
     StageBRecord, StageBCommit, StageBPartialState, StageBPartialProgress,
     StageCSession, StageCDecide, StageCSave, StageCFinalize, StageCState
<1>3. CASE Abort(p)
  BY <1>3 DEF Abort, AbortFastCheck, AbortDecide, AbortRestore, AbortSession, AbortMark,
     AbortSave, AbortFinishProgress, AbortFinishState
<1>4. CASE Recover(p)
  BY <1>4 DEF Recover, Scan, RecoverCommitted, RecoverApply, RecoverPartial,
     RecoverAborting, RecoverAborted, RecoverDone
<1>5. CASE Start(p) \/ Exit(p) \/ Crash(p) \/ IoError(p) \/ LockTimeout(p)
  BY <1>5 DEF Start, Exit, Crash, IoError, LockTimeout, Unwind
<1>6. QED
  BY <1>1, <1>2, <1>3, <1>4, <1>5 DEF ProcStep, Step


\* What an operation keeps of the command that runs it, and of the recovery.
LEMMA FieldMoves ==
  ASSUME TypeOK, NEW p \in Proc, ProcStep(p), pc'[p] # "idle", ~Start(p), ~RecoverDone(p)
  PROVE  /\ loc'[p].mode = loc[p].mode
         /\ \/ loc'[p].apply = loc[p].apply \/ Scan(p)
            \/ loc'[p].apply = "none" /\ (RecoverCommitted(p) \/ RecoverApply(p))
         /\ \/ loc'[p].abort = loc[p].abort \/ Scan(p)
            \/ loc'[p].abort = "none" /\ (RecoverAborting(p) \/ RecoverAborted(p))
         /\ loc'[p].resume = loc[p].resume \/ Scan(p)
<1> USE DEF TypeOK, Local, procVars, Jump, Goto, Return, Done, Throw, Between, Fresh
<1>1. CASE Pipeline(p)
  BY <1>1 DEF Pipeline, OpenTx, OpenSession, StageEdit, SaveSession, FinalizeCompute, FinalizeWriteDiff,
     FinalizeCommit, ValidateRun, ValidateCommit, ApproveDecide, ApproveCommit
<1>2. CASE Apply(p)
  BY <1>2 DEF Apply, StageACheck, StageAPending, StageBStart, StageBVerify, StageBWrite,
     StageBRecord, StageBCommit, StageBPartialState, StageBPartialProgress,
     StageCSession, StageCDecide, StageCSave, StageCFinalize, StageCState
<1>3. CASE Abort(p)
  BY <1>3 DEF Abort, AbortFastCheck, AbortDecide, AbortRestore, AbortSession, AbortMark,
     AbortSave, AbortFinishProgress, AbortFinishState
<1>4. CASE Recover(p)
  BY <1>4 DEF Recover, Scan, RecoverCommitted, RecoverApply, RecoverPartial,
     RecoverAborting, RecoverAborted, RecoverDone
<1>5. CASE Start(p) \/ Exit(p) \/ Crash(p) \/ IoError(p) \/ LockTimeout(p)
  BY <1>5 DEF Start, Exit, Crash, IoError, LockTimeout, Unwind
<1>6. QED
  BY <1>1, <1>2, <1>3, <1>4, <1>5 DEF ProcStep, Step


\* Where an operation returns to.
LEMMA Returns ==
  ASSUME TypeOK, NEW p \in Proc, ProcStep(p)
  PROVE  /\ pc'[p] = "ready" => loc[p].mode # "recovering" \/ RecoverDone(p) \/ pc[p] \in {"ready", "open"}
         /\ pc'[p] \in CommandLabels \ {"ready"} => pc[p] \in CommandLabels
         /\ pc'[p] = "recover" =>
              \/ Scan(p) \/ RecoverCommitted(p) \/ RecoverApply(p) \/ RecoverPartial(p) \/ RecoverAborted(p)
              \/ loc[p].mode = "recovering" /\ pc[p] \in {"fin2", "val", "appr", "c4", "c5", "ab1", "ab7"}
<1> USE DEF TypeOK, procVars, Jump, Goto, Return, Done, Throw, CommandLabels
<1>1. CASE Pipeline(p)
  BY <1>1 DEF Pipeline, OpenTx, OpenSession, StageEdit, SaveSession, FinalizeCompute, FinalizeWriteDiff,
     FinalizeCommit, ValidateRun, ValidateCommit, ApproveDecide, ApproveCommit
<1>2. CASE Apply(p)
  BY <1>2 DEF Apply, StageACheck, StageAPending, StageBStart, StageBVerify, StageBWrite,
     StageBRecord, StageBCommit, StageBPartialState, StageBPartialProgress,
     StageCSession, StageCDecide, StageCSave, StageCFinalize, StageCState
<1>3. CASE Abort(p)
  BY <1>3 DEF Abort, AbortFastCheck, AbortDecide, AbortRestore, AbortSession, AbortMark,
     AbortSave, AbortFinishProgress, AbortFinishState
<1>4. CASE Recover(p)
  BY <1>4 DEF Recover, Scan, RecoverCommitted, RecoverApply, RecoverPartial,
     RecoverAborting, RecoverAborted, RecoverDone
<1>5. CASE Start(p) \/ Exit(p) \/ Crash(p) \/ IoError(p) \/ LockTimeout(p)
  BY <1>5 DEF Start, Exit, Crash, IoError, LockTimeout, Unwind
<1>6. QED
  BY <1>1, <1>2, <1>3, <1>4, <1>5 DEF ProcStep, Step


\* Stage B is the only step that puts staged content into the workspace.
LEMMA CleanStep ==
  ASSUME TypeOK, PhaseInv, Clean, NEW p \in Proc, ProcStep(p), ~StageBWrite(p)
  PROVE  Clean'
<1>1. CASE UNCHANGED file
  BY <1>1 DEF Clean
<1>2. CASE AbortRestore(p)
  <2>1. PICK part \in SUBSET File : file' = [f \in File |-> IF f \in part THEN ghost[f] ELSE file[f]]
    <3>1. CASE file' = ghost
      <4>1. file' = [f \in File |-> IF f \in File THEN ghost[f] ELSE file[f]]
        BY <3>1 DEF TypeOK
      <4> QED
        BY <4>1
    <3> QED
      BY <1>2, <3>1 DEF AbortRestore
  <2> QED
    BY <2>1 DEF Clean, PhaseInv
<1> QED
  BY <1>1, <1>2, DataWriters

\* The phase and the state move together.
LEMMA PhaseStep ==
  ASSUME TypeOK, Solo, NEW p \in Proc, ProcStep(p)
  PROVE  PhaseInv'
<1> USE DEF Solo
<1>1. (\A f \in File : ghost[f] \in {-1, 0})'
  <2>1. CASE StageAPending(p)
    BY <2>1 DEF StageAPending, ApplySteps, PhaseInv, Clean
  <2> QED
    BY <2>1, DataWriters DEF PhaseInv
<1>2. (/\ applyPhase = "none" => txState \notin {"applied", "applied-partial"}
       /\ applyPhase = "apply-pending" => txState = "approved"
       /\ applyPhase = "apply-writing" => txState \in {"approved", "applied-partial"}
       /\ applyPhase = "apply-committed" => txState = "approved"
       /\ applyPhase = "apply-finalized" => txState \in {"approved", "applied", "aborted"}
       /\ applyPhase = "apply-failed-partial" => txState \in {"applied-partial", "aborted"})'
  <2> USE DEF PhaseInv, txVars, applyVars
  <2>1. CASE UNCHANGED <<txState, applyPhase>>
    BY <2>1
  <2>2. CASE OpenTx(p) \/ FinalizeCommit(p) \/ ValidateCommit(p) \/ ApproveCommit(p)
    BY <2>2 DEF OpenTx, FinalizeCommit, ValidateCommit, ApproveCommit
  <2>3. CASE StageAPending(p) \/ StageBStart(p) \/ StageBCommit(p)
    BY <2>3 DEF StageAPending, StageBStart, StageBCommit, ApplySteps
  <2>4. CASE StageBPartialState(p) \/ StageBPartialProgress(p)
    BY <2>4 DEF StageBPartialState, StageBPartialProgress, ApplySteps
  <2>5. CASE StageCFinalize(p) \/ StageCState(p)
    BY <2>5 DEF StageCFinalize, StageCState, ApplySteps
  <2>6. CASE AbortFinishState(p)
    BY <2>6 DEF AbortFinishState, AbortSteps, InFlight
  <2>7. CASE RecoverApply(p)
    BY <2>7 DEF RecoverApply
  <2>8. CASE RecoverPartial(p)
    BY <2>8 DEF RecoverPartial, ApplySteps
  <2>9. CASE RecoverAborted(p)
    BY <2>9 DEF RecoverAborted, RecoverSteps, InFlight
  <2> QED
    BY <2>1, <2>2, <2>3, <2>4, <2>5, <2>6, <2>7, <2>8, <2>9, Writers
<1>3. (applyPhase \in {"none", "apply-pending"} => Clean)'
  <2>1. CASE applyPhase \in {"none", "apply-pending"}
    <3>1. ~StageBWrite(p)
      BY <2>1 DEF StageBWrite, ApplySteps
    <3> QED
      BY <2>1, <3>1, CleanStep DEF PhaseInv
  <2> QED
    BY <2>1, Writers DEF StageAPending, StageBStart, StageBCommit, StageBPartialProgress, StageCFinalize,
       RecoverApply, RecoverPartial, ApplySteps
<1>4. (applyPhase = "apply-pending" => written = {})'
  <2>1. CASE UNCHANGED applyPhase
    BY <2>1, DataWriters DEF StageAPending, StageBRecord, ApplySteps, PhaseInv
  <2> QED
    BY <2>1, Writers DEF StageAPending, StageBStart, StageBCommit, StageBPartialProgress, StageCFinalize,
       RecoverApply, RecoverPartial
<1>5. (applyPhase \in {"apply-committed", "apply-finalized"} => written = 1..Planned(diff))'
  <2>1. CASE applyPhase \in {"apply-committed", "apply-finalized"}
    <3>1. UNCHANGED <<written, diff>>
      BY <2>1, DataWriters DEF StageAPending, StageBRecord, FinalizeWriteDiff, ApplySteps, PhaseInv
    <3> QED
      BY <2>1, <3>1 DEF PhaseInv, Planned
  <2>2. CASE StageBCommit(p)
    BY <2>2 DEF StageBCommit, ApplySteps, applyVars, dataVars, Planned
  <2> QED
    BY <2>1, <2>2, Writers DEF StageAPending, StageBStart, StageBPartialProgress, StageCFinalize,
       RecoverApply, RecoverPartial, ApplySteps
<1> QED
  BY <1>1, <1>2, <1>3, <1>4, <1>5 DEF PhaseInv

\* The session keeps its records, and only the two saves add one.
LEMMA SessionMoves ==
  ASSUME TypeOK, Solo, NEW p \in Proc, ProcStep(p)
  PROVE  /\ sess' = sess \/ OpenSession(p) \/ StageCSave(p) \/ AbortSave(p)
         /\ OpenSession(p) => sess' = [sess EXCEPT !.active = TRUE]
         /\ StageCSave(p) => sess' = [sess EXCEPT !.recs = @ \cup {"applied"}, !.active = FALSE]
         /\ AbortSave(p) => sess' = [active |-> FALSE, recs |-> sess.recs \cup {"aborted"},
              why |-> IF "aborted" \in sess.recs THEN sess.why ELSE ReasonOf(loc[p].flag)]
<1>1. pc[p] # "idle" => loc[p].mem = sess
  BY DEF Solo, RecoverSteps
<1>2. SaveSession(p) => sess' = sess
  BY <1>1 DEF SaveSession
<1>3. OpenSession(p) => sess' = [sess EXCEPT !.active = TRUE]
  BY DEF OpenSession
<1>4. StageCSave(p) => sess' = [sess EXCEPT !.recs = @ \cup {"applied"}, !.active = FALSE]
  BY <1>1 DEF StageCSave
<1>5. AbortSave(p) => sess' = [active |-> FALSE, recs |-> sess.recs \cup {"aborted"},
              why |-> IF "aborted" \in sess.recs THEN sess.why ELSE ReasonOf(loc[p].flag)]
  BY <1>1 DEF AbortSave
<1> QED
  BY <1>2, <1>3, <1>4, <1>5, Writers

LEMMA RecsMove ==
  ASSUME TypeOK, Solo, NEW p \in Proc, ProcStep(p)
  PROVE  /\ "applied" \in sess'.recs <=> "applied" \in sess.recs \/ StageCSave(p)
         /\ "aborted" \in sess'.recs <=> "aborted" \in sess.recs \/ AbortSave(p)
         /\ sess'.active => sess.active \/ OpenSession(p)
         /\ sess'.active => ~StageCSave(p)
         /\ sess'.why = IF AbortSave(p) /\ "aborted" \notin sess.recs THEN ReasonOf(loc[p].flag)
                        ELSE sess.why
<1>0. sess \in Session /\ sess = [active |-> sess.active, recs |-> sess.recs, why |-> sess.why]
  BY DEF TypeOK, Session
<1>1. (OpenSession(p) => pc[p] = "open") /\ (StageCSave(p) => pc[p] = "c3") /\ (AbortSave(p) => pc[p] = "ab5")
  BY DEF OpenSession, StageCSave, AbortSave
<1>2. CASE OpenSession(p)
  <2>1. sess' = [active |-> TRUE, recs |-> sess.recs, why |-> sess.why]
    BY <1>0, <1>2, SessionMoves
  <2> QED
    BY <1>1, <1>2, <2>1
<1>3. CASE StageCSave(p)
  <2>1. PICK s : s = [sess EXCEPT !.recs = @ \cup {"applied"}]
    OBVIOUS
  <2>2. s = [active |-> sess.active, recs |-> sess.recs \cup {"applied"}, why |-> sess.why]
    BY <1>0, <2>1
  <2>3. sess' = [s EXCEPT !.active = FALSE]
    BY <1>3, <2>1, SessionMoves
  <2>4. sess' = [active |-> FALSE, recs |-> sess.recs \cup {"applied"}, why |-> sess.why]
    BY <2>2, <2>3
  <2> QED
    BY <1>1, <1>3, <2>4
<1>4. CASE AbortSave(p)
  <2>1. sess' = [active |-> FALSE, recs |-> sess.recs \cup {"aborted"},
              why |-> IF "aborted" \in sess.recs THEN sess.why ELSE ReasonOf(loc[p].flag)]
    BY <1>4, SessionMoves
  <2> QED
    BY <1>1, <1>4, <2>1
<1> QED
  BY <1>2, <1>3, <1>4, SessionMoves

\* The records, the reason and the workspace move together.
LEMMA TraceStep ==
  ASSUME TypeOK, Solo, NEW p \in Proc, ProcStep(p)
  PROVE  TraceInv'
<1> USE DEF Solo
<1>1. ("applied" \in sess.recs => ~sess.active /\ applyPhase \in {"apply-committed", "apply-finalized"})'
  <2>1. CASE StageCSave(p)
    BY <2>1, RecsMove DEF StageCSave, ApplySteps, applyVars
  <2>2. CASE "applied" \in sess.recs
    <3>1. ~OpenSession(p)
      BY <2>2 DEF OpenSession, TraceInv, PhaseInv, ApplySteps
    <3>2. applyPhase' \in {"apply-committed", "apply-finalized"}
      BY <2>2, Writers DEF StageAPending, StageBStart, StageBCommit, StageBPartialProgress, StageCFinalize,
         RecoverApply, RecoverPartial, TraceInv, ApplySteps
    <3> QED
      BY <2>2, <3>1, <3>2, RecsMove DEF TraceInv
  <2> QED
    BY <2>1, <2>2, RecsMove
<1>2. (applyPhase = "apply-finalized" => "applied" \in sess.recs)'
  BY Writers, RecsMove DEF StageAPending, StageBStart, StageBCommit, StageBPartialProgress, StageCFinalize,
     RecoverApply, RecoverPartial, TraceInv, ApplySteps
<1>3. (abortPhase = "none" <=> abortReason = "none")'
  BY Writers, DataWriters DEF AbortMark, AbortFinishProgress, TraceInv, ReasonOf, abortVars
<1>4. ("aborted" \in sess.recs => abortPhase # "none" /\ sess.why = abortReason)'
  <2>1. CASE AbortSave(p)
    <3>1. abortPhase # "none" /\ UNCHANGED abortVars
      BY <2>1 DEF AbortSave, AbortSteps
    <3>2. "aborted" \notin sess.recs => ReasonOf(loc[p].flag) = abortReason
      BY <2>1, <3>1 DEF AbortSave, AbortSteps, AbortLabels, TraceInv, TypeOK, AbortPhase
    <3> QED
      BY <2>1, <3>1, <3>2, RecsMove DEF TraceInv, abortVars
  <2>2. CASE "aborted" \in sess.recs /\ ~AbortSave(p)
    <3>1. ~AbortMark(p)
      BY <2>2 DEF AbortMark, AbortSteps
    <3>2. abortReason' = abortReason /\ abortPhase' # "none"
      BY <2>2, <3>1, Writers, DataWriters DEF AbortFinishProgress, TraceInv
    <3> QED
      BY <2>2, <3>2, RecsMove DEF TraceInv
  <2> QED
    BY <2>1, <2>2, RecsMove
<1>5. (abortPhase = "aborted" => "aborted" \in sess.recs)'
  BY Writers, RecsMove DEF AbortMark, AbortFinishProgress, AbortSteps, TraceInv, abortVars
<1>6. (txState = "aborted" => abortPhase = "aborted")'
  <2>1. abortPhase = "aborted" => abortPhase' = "aborted"
    <3>1. CASE abortPhase = "aborted"
      <4>1. "aborted" \in sess.recs
        BY <3>1 DEF TraceInv
      <4> QED
        BY <3>1, <4>1, Writers DEF AbortMark, AbortFinishProgress, AbortSteps
    <3> QED
      BY <3>1
  <2> QED
    BY <2>1, Writers DEF OpenTx, FinalizeCommit, ValidateCommit, ApproveCommit, StageBPartialState, StageCState,
       AbortFinishState, RecoverApply, RecoverAborted, AbortSteps, RecoverSteps, TraceInv
<1>7. (applyPhase \in InFlight => abortPhase = "none")'
  <2>1. CASE applyPhase \in InFlight
    <3>1. ~AbortMark(p) /\ ~AbortFinishProgress(p)
      BY <2>1 DEF AbortMark, AbortFinishProgress, AbortSteps, AbortLabels
    <3> QED
      BY <2>1, <3>1, Writers DEF TraceInv
  <2>2. CASE applyPhase \notin InFlight /\ applyPhase' \in InFlight
    BY <2>2, Writers DEF StageAPending, StageBStart, StageBCommit, StageBPartialProgress, StageCFinalize,
       RecoverApply, RecoverPartial, ApplySteps, InFlight, abortVars
  <2> QED
    BY <2>1, <2>2 DEF InFlight
<1>8. (abortPhase # "none" /\ "applied" \notin sess.recs /\ abortReason # "apply-failed-partial-kept" => Clean)'
  <2> SUFFICES ASSUME abortPhase' # "none", "applied" \notin sess'.recs, abortReason' # "apply-failed-partial-kept"
               PROVE  Clean'
    BY DEF Clean
  <2>1. "applied" \notin sess.recs
    BY RecsMove
  <2>2. CASE AbortMark(p) /\ UNCHANGED <<abortPhase, abortReason>>
    BY <2>1, <2>2, CleanStep DEF TraceInv, AbortMark, StageBWrite
  <2>3. CASE AbortMark(p) /\ abortReason' = ReasonOf(loc[p].flag)
    <3>1. loc[p].flag \in {"none", "restore"}
      BY <2>3 DEF ReasonOf, TypeOK, Local, Flag
    <3>2. CASE loc[p].flag = "restore"
      BY <2>3, <3>2, CleanStep DEF AbortMark, AbortSteps, StageBWrite
    <3>3. CASE loc[p].flag = "none"
      <4>1. applyPhase \notin InFlight /\ txState # "applied-partial" /\ "aborted" \notin sess.recs
        BY <2>3, <3>3 DEF AbortMark, AbortSteps, AbortLabels
      <4>2. txState # "aborted" /\ applyPhase # "apply-finalized"
        BY <2>1, <4>1 DEF TraceInv
      <4>3. applyPhase = "none"
        BY <4>1, <4>2 DEF PhaseInv, TypeOK, ApplyPhase, InFlight
      <4> QED
        BY <2>3, <4>3, CleanStep DEF PhaseInv, AbortMark, StageBWrite
    <3> QED
      BY <3>1, <3>2, <3>3
  <2>4. CASE ~AbortMark(p)
    <3>1. abortPhase # "none" /\ abortReason' = abortReason
      BY <2>4, Writers, DataWriters DEF AbortFinishProgress
    <3>2. ~StageBWrite(p)
      BY <3>1 DEF StageBWrite, ApplySteps, TraceInv, InFlight
    <3> QED
      BY <2>1, <3>1, <3>2, CleanStep DEF TraceInv
  <2> QED
    BY <2>2, <2>3, <2>4 DEF AbortMark, abortVars
<1> QED
  BY <1>1, <1>2, <1>3, <1>4, <1>5, <1>6, <1>7, <1>8 DEF TraceInv

\* Each step of the apply finds what the step before it left.
LEMMA ApplyStep ==
  ASSUME Alone, TypeOK, StageInv, Solo, NEW p \in Proc, ProcStep(p)
  PROVE  ApplySteps'
<1> USE DEF Solo, txVars, applyVars, abortVars, dataVars
<1> SUFFICES
      /\ pc'[p] \in {"open", "fin1"} => txState' = "staging"
      /\ pc'[p] \in {"a4", "b0", "b3", "b3b", "b4"} => loc'[p].diff = diff'
      /\ pc'[p] = "a4" => txState' = "approved" /\ applyPhase' = "none" /\ abortPhase' = "none"
      /\ pc'[p] = "b0" => applyPhase' = "apply-pending"
      /\ pc'[p] \in {"b3", "b3b", "b4", "bErr", "bFail", "rw"} => applyPhase' = "apply-writing"
      /\ pc'[p] \in {"b3", "b3b", "b4"} => txState' = "approved" /\ written' = 1..loc'[p].pos
      /\ pc'[p] \in {"c0", "c1", "c3", "c4"} => applyPhase' = "apply-committed"
      /\ pc'[p] \in {"c4", "c5"} => "applied" \in sess'.recs
      /\ pc'[p] = "c5" => applyPhase' = "apply-finalized"
      /\ pc'[p] \in {"bFail", "rw"} => txState' = "applied-partial"
  BY DEF ApplySteps, Alone
<1>1. pc'[p] \in {"open", "fin1"} => txState' = "staging"
  BY MoreEntries DEF OpenTx, FinalizeCompute
<1>2. ASSUME pc'[p] \in {"a4", "b0", "b3", "b3b", "b4"} PROVE loc'[p].diff = diff'
  <2>1. \/ StageACheck(p) \/ StageAPending(p) \/ StageBStart(p) \/ StageBRecord(p)
        \/ StageBVerify(p) \/ StageBWrite(p)
    BY <1>2, Entries, MoreEntries
  <2>2. CASE StageACheck(p)
    BY <2>2 DEF StageACheck, TypeOK, Local
  <2>3. CASE StageAPending(p)
    BY <2>3 DEF StageAPending, Jump, ApplySteps
  <2>4. CASE StageBStart(p)
    <3>1. loc'[p].diff = loc[p].diff
      BY <1>2, <2>4, LocalMoves DEF StageBStart, StageACheck, FinalizeCompute, Start
    <3> QED
      BY <2>4, <3>1 DEF StageBStart, ApplySteps
  <2>5. CASE StageBRecord(p)
    <3>1. loc'[p].diff = loc[p].diff
      BY <1>2, <2>5, LocalMoves DEF StageBRecord, StageACheck, FinalizeCompute, Start
    <3> QED
      BY <2>5, <3>1 DEF StageBRecord, ApplySteps
  <2>6. CASE StageBVerify(p) \/ StageBWrite(p)
    BY <2>6 DEF StageBVerify, StageBWrite, Jump, ApplySteps
  <2> QED
    BY <2>1, <2>2, <2>3, <2>4, <2>5, <2>6
<1>3. pc'[p] = "a4" => txState' = "approved" /\ applyPhase' = "none" /\ abortPhase' = "none"
  BY Entries DEF StageACheck
<1>4. pc'[p] = "b0" => applyPhase' = "apply-pending"
  BY MoreEntries DEF StageAPending
<1>5. pc'[p] \in {"b3", "b3b", "b4", "bErr", "bFail", "rw"} => applyPhase' = "apply-writing"
  BY Entries DEF StageBStart, StageBRecord, StageBVerify, StageBWrite, StageBPartialState, RecoverApply,
     ApplySteps, Throw, Return, Goto, TypeOK
<1>6. ASSUME pc'[p] \in {"b3", "b3b", "b4"} PROVE txState' = "approved" /\ written' = 1..loc'[p].pos
  <2>1. StageBStart(p) \/ StageBRecord(p) \/ StageBVerify(p) \/ StageBWrite(p)
    BY <1>6, Entries
  <2>2. CASE StageBStart(p)
    <3>1. loc' = [loc EXCEPT ![p].pos = 0] /\ txState' = "approved" /\ UNCHANGED written
      BY <1>6, <2>2 DEF StageBStart, Throw, Return, Goto, TypeOK
    <3>2. loc'[p].pos = 0
      BY <3>1 DEF TypeOK, Local
    <3>3. written = {}
      BY <2>2 DEF StageBStart, ApplySteps, PhaseInv
    <3> QED
      BY <3>1, <3>2, <3>3
  <2>3. CASE StageBRecord(p)
    <3>1. loc[p].pos \in Nat /\ loc'[p].pos = loc[p].pos + 1
      BY <2>3, BoundAssumption DEF StageBRecord, TypeOK, Local
    <3>2. written = 1..loc[p].pos /\ written' = written \cup {loc[p].pos + 1}
      BY <2>3 DEF StageBRecord, ApplySteps
    <3>3. 1..(loc[p].pos + 1) = (1..loc[p].pos) \cup {loc[p].pos + 1}
      BY <3>1
    <3> QED
      BY <2>3, <3>1, <3>2, <3>3 DEF StageBRecord, ApplySteps
  <2>4. CASE StageBVerify(p) \/ StageBWrite(p)
    BY <2>4 DEF StageBVerify, StageBWrite, Jump, ApplySteps
  <2> QED
    BY <2>1, <2>2, <2>3, <2>4
<1>7. pc'[p] \in {"c0", "c1", "c3", "c4"} => applyPhase' = "apply-committed"
  BY Entries DEF StageBCommit, RecoverCommitted, StageCSession, StageCDecide, StageCSave, ApplySteps,
     Goto, TypeOK
<1>8. pc'[p] \in {"c4", "c5"} => "applied" \in sess'.recs
  <2>1. StageCDecide(p) => pc'[p] # "c4"
    BY DEF StageCDecide, ApplySteps, AllApplied, Throw, Return, Jump, Goto, TypeOK
  <2> QED
    BY <2>1, Entries, RecsMove DEF StageCFinalize, ApplySteps
<1>9. pc'[p] = "c5" => applyPhase' = "apply-finalized"
  BY Entries DEF StageCFinalize, Done, Return, Goto, TypeOK
<1>10. pc'[p] \in {"bFail", "rw"} => txState' = "applied-partial"
  BY Entries DEF StageBPartialState, RecoverApply, TypeOK
<1> QED
  BY <1>1, <1>2, <1>3, <1>4, <1>5, <1>6, <1>7, <1>8, <1>9, <1>10

LEMMA FlagReason ==
  /\ \A r \in Reason : r # "none" => ReasonOf(FlagOf(r)) = r
  /\ \A r \in Reason : (FlagOf(r) = "restore") <=> (r = "apply-failed-partial-restored")
  /\ ReasonOf("none") = "user-abort" /\ FlagOf("user-abort") = "none"
BY DEF FlagOf, ReasonOf, Reason

\* An abort keeps to the flag and the reason it began with.
LEMMA AbortStep ==
  ASSUME Alone, TypeOK, Solo, NEW p \in Proc, ProcStep(p)
  PROVE  AbortSteps'
<1> USE DEF Solo, txVars, applyVars, abortVars, dataVars
<1>0. abortReason \in Reason /\ abortPhase \in AbortPhase
  BY DEF TypeOK
<1>1. ASSUME pc'[p] \in AbortLabels
      PROVE  /\ applyPhase' \notin InFlight
             /\ (txState' = "applied-partial") <=> (loc'[p].flag # "none")
             /\ abortPhase' = "aborting" => ReasonOf(loc'[p].flag) = abortReason'
             /\ loc'[p].mode = "runner" => loc'[p].flag = "none"
             /\ loc'[p].mode = "recovering" => abortPhase' = "aborting"
  <2>1. \/ AbortFastCheck(p) \/ RecoverAborting(p) \/ AbortDecide(p) \/ AbortRestore(p)
        \/ AbortSession(p) \/ AbortMark(p)
    BY <1>1, Entries, MoreEntries DEF AbortLabels
  <2>2. UNCHANGED <<txState, applyPhase>>
    BY <2>1 DEF AbortFastCheck, RecoverAborting, AbortDecide, AbortRestore, AbortSession, AbortMark
  <2>3. CASE AbortFastCheck(p)
    <3>1. PICK flag \in Flag : /\ MayAbort(flag) /\ (flag # "none" => loc[p].mode = "command")
                               /\ loc' = [loc EXCEPT ![p].flag = flag]
      BY <2>3 DEF AbortFastCheck
    <3>2. loc'[p].flag = flag /\ loc'[p].mode = loc[p].mode
      BY <3>1 DEF TypeOK, Local
    <3>3. abortPhase' = abortPhase /\ abortReason' = abortReason /\ pc[p] = "ready"
      BY <2>3 DEF AbortFastCheck
    <3>4. abortPhase = "aborting" => loc[p].mode = "runner" /\ abortReason = "user-abort"
      BY <3>3 DEF RecoverSteps, TypeOK, Local, CommandLabels
    <3> QED
      BY <2>2, <3>1, <3>2, <3>3, <3>4, FlagReason DEF MayAbort, RecoverSteps, CommandLabels
  <2>4. CASE RecoverAborting(p)
    <3>1. MayAbort(loc[p].resume) /\ loc' = [loc EXCEPT ![p].abort = "none", ![p].flag = loc[p].resume]
      BY <1>1, <2>4 DEF RecoverAborting, Throw, Return, Goto, TypeOK, AbortLabels
    <3>2. loc'[p].flag = loc[p].resume /\ loc'[p].mode = loc[p].mode
      BY <3>1 DEF TypeOK, Local
    <3>3. /\ abortPhase' = abortPhase /\ abortReason' = abortReason
          /\ loc[p].abort = "aborting" /\ loc[p].mode = "recovering"
      BY <2>4 DEF RecoverAborting, RecoverSteps
    <3>4. abortPhase = "aborting" /\ loc[p].resume = FlagOf(abortReason) /\ abortReason # "none"
      BY <3>3 DEF RecoverSteps, TraceInv
    <3> QED
      BY <1>0, <2>2, <3>1, <3>2, <3>3, <3>4, FlagReason DEF MayAbort
  <2>5. CASE AbortDecide(p) \/ AbortRestore(p) \/ AbortSession(p) \/ AbortMark(p)
    <3>1. loc'[p].flag = loc[p].flag /\ loc'[p].mode = loc[p].mode
      BY <1>1, <2>5, LocalMoves DEF AbortLabels, AbortDecide, AbortRestore, AbortSession, AbortMark,
         AbortFastCheck, RecoverAborting, Start
    <3>2. pc[p] \in AbortLabels
      BY <2>5 DEF AbortDecide, AbortRestore, AbortSession, AbortMark, AbortLabels
    <3>3. \/ UNCHANGED <<abortPhase, abortReason>>
          \/ abortPhase' = "aborting" /\ abortReason' = ReasonOf(loc[p].flag)
      BY <2>5 DEF AbortDecide, AbortRestore, AbortSession, AbortMark
    <3> QED
      BY <2>2, <3>1, <3>2, <3>3 DEF AbortSteps
  <2> QED
    BY <2>1, <2>3, <2>4, <2>5
<1>2. ASSUME pc'[p] \in {"abWrite", "ab4", "ab5"}, loc'[p].flag = "restore" PROVE Clean'
  <2>1. AbortDecide(p) \/ AbortRestore(p) \/ AbortSession(p) \/ AbortMark(p)
    BY <1>2, Entries, MoreEntries
  <2>2. loc[p].flag = "restore"
    BY <1>2, <2>1, LocalMoves DEF AbortDecide, AbortRestore, AbortSession, AbortMark,
       AbortFastCheck, RecoverAborting, Start
  <2>3. CASE AbortDecide(p)
    <3>1. loc[p].mode = "recovering" /\ pc[p] = "ab1"
      BY <1>2, <2>2, <2>3 DEF AbortDecide, Throw, Done, Return, Jump, Goto, TypeOK
    <3>2. abortPhase = "aborting" => Clean
      <4>1. ASSUME abortPhase = "aborting" PROVE Clean
        <5>1. ReasonOf("restore") = abortReason /\ txState = "applied-partial"
          BY <2>2, <3>1, <4>1 DEF AbortSteps, AbortLabels
        <5>2. "applied" \notin sess.recs
          BY <5>1 DEF TraceInv, PhaseInv
        <5> QED
          BY <4>1, <5>1, <5>2 DEF TraceInv, ReasonOf
      <4> QED
        BY <4>1
    <3>3. abortPhase = "aborting"
      BY <2>2, <3>1 DEF AbortSteps, AbortLabels
    <3> QED
      BY <2>3, <3>2, <3>3, CleanStep DEF AbortDecide, StageBWrite
  <2>4. CASE AbortRestore(p)
    <3>1. file' = ghost
      BY <1>2, <2>4 DEF AbortRestore, Throw, Return, Goto, TypeOK
    <3> QED
      BY <3>1 DEF Clean, PhaseInv
  <2>5. CASE AbortSession(p) \/ AbortMark(p)
    BY <2>2, <2>5, CleanStep DEF AbortSession, AbortMark, AbortSteps, StageBWrite
  <2> QED
    BY <2>1, <2>3, <2>4, <2>5
<1>3. pc'[p] = "ab4" => "aborted" \notin sess'.recs
  BY Entries DEF AbortSession, Goto, TypeOK
<1>4. pc'[p] = "ab5" => abortPhase' # "none"
  BY Entries DEF AbortSession, AbortMark, Goto, TypeOK, TraceInv
<1>5. pc'[p] \in {"ab6", "ab7"} => "aborted" \in sess'.recs /\ applyPhase' \notin InFlight
  BY Entries, RecsMove DEF AbortSave, AbortFinishProgress, AbortSteps, AbortLabels
<1>6. pc'[p] = "ab7" => abortPhase' = "aborted"
  BY Entries DEF AbortFinishProgress, AbortSteps, TraceInv
<1> QED
  BY <1>1, <1>2, <1>3, <1>4, <1>5, <1>6 DEF AbortSteps, Alone, AbortLabels, Clean, InFlight

\* The session in memory is the one on disk.
LEMMA MemCurrent ==
  ASSUME TypeOK, Solo, NEW p \in Proc, ProcStep(p), pc'[p] # "idle"
  PROVE  loc'[p].mem = sess'
<1> USE DEF TypeOK, Local, procVars, Jump, Goto, Return, Done, Throw, Between, Fresh
<1>0. pc[p] # "idle" => loc[p].mem = sess
  BY DEF Solo, RecoverSteps
<1>1. CASE Pipeline(p)
  BY <1>0, <1>1 DEF Pipeline, OpenTx, OpenSession, StageEdit, SaveSession, FinalizeCompute, FinalizeWriteDiff,
     FinalizeCommit, ValidateRun, ValidateCommit, ApproveDecide, ApproveCommit
<1>2. CASE Apply(p)
  BY <1>0, <1>2 DEF Apply, StageACheck, StageAPending, StageBStart, StageBVerify, StageBWrite,
     StageBRecord, StageBCommit, StageBPartialState, StageBPartialProgress,
     StageCSession, StageCDecide, StageCSave, StageCFinalize, StageCState
<1>3. CASE Abort(p)
  BY <1>0, <1>3 DEF Abort, AbortFastCheck, AbortDecide, AbortRestore, AbortSession, AbortMark,
     AbortSave, AbortFinishProgress, AbortFinishState
<1>4. CASE Recover(p)
  BY <1>0, <1>4 DEF Recover, Scan, RecoverCommitted, RecoverApply, RecoverPartial,
     RecoverAborting, RecoverAborted, RecoverDone
<1>5. CASE Start(p) \/ Exit(p) \/ Crash(p) \/ IoError(p) \/ LockTimeout(p)
  <2>1. CASE Start(p)
    BY <2>1 DEF Start
  <2>2. CASE Exit(p) \/ Crash(p)
    BY <2>2 DEF Exit, Crash
  <2>3. CASE IoError(p) \/ LockTimeout(p)
    <3>1. Throw(p) /\ sess' = sess
      BY <2>3 DEF IoError, LockTimeout, Unwind
    <3>2. pc[p] # "idle"
      BY <2>3 DEF IoError, LockTimeout, WaitsTx, WaitsSess
    <3> QED
      BY <1>0, <3>1, <3>2
  <2> QED
    BY <1>5, <2>1, <2>2, <2>3
<1>6. QED
  BY <1>1, <1>2, <1>3, <1>4, <1>5 DEF ProcStep, Step

\* An abort is marked only by an abort, and its mark is the reason of its flag.
LEMMA AbortMoves ==
  ASSUME NEW p \in Proc, ProcStep(p)
  PROVE  /\ abortPhase' = abortPhase /\ abortReason' = abortReason
         \/ AbortMark(p) \/ AbortFinishProgress(p)
BY Writers, DataWriters

\* What follows each label, unless the process dies of an error: of a turn
\* that lives on nothing is said.
LEMMA Successors ==
  ASSUME TypeOK, NEW p \in Proc, ProcStep(p), pc'[p] # "idle", loc[p].mode # "runner"
  PROVE  /\ pc[p] = "idle" => Start(p)
         /\ pc[p] = "scan" => Scan(p)
         /\ pc[p] = "recover" => \/ RecoverCommitted(p) \/ RecoverApply(p) \/ RecoverAborting(p)
                                \/ RecoverAborted(p) \/ RecoverDone(p)
         /\ pc[p] = "rw" => RecoverPartial(p)
         /\ pc[p] = "c0" => StageCSession(p)
         /\ pc[p] = "c1" => StageCDecide(p)
         /\ pc[p] = "c3" => StageCSave(p)
         /\ pc[p] = "c4" => StageCFinalize(p)
         /\ pc[p] = "c5" => StageCState(p)
         /\ pc[p] = "ab1" => AbortDecide(p)
         /\ pc[p] = "abRestore" => AbortRestore(p)
         /\ pc[p] = "abWrite" => AbortSession(p)
         /\ pc[p] = "ab4" => AbortMark(p)
         /\ pc[p] = "ab5" => AbortSave(p)
         /\ pc[p] = "ab6" => AbortFinishProgress(p)
<1> USE DEF TypeOK, Goto, Return, Throw
<1>1. CASE Pipeline(p)
  BY <1>1 DEF Pipeline, OpenTx, OpenSession, StageEdit, SaveSession, FinalizeCompute, FinalizeWriteDiff,
     FinalizeCommit, ValidateRun, ValidateCommit, ApproveDecide, ApproveCommit
<1>2. CASE Apply(p)
  BY <1>2 DEF Apply, StageACheck, StageAPending, StageBStart, StageBVerify, StageBWrite,
     StageBRecord, StageBCommit, StageBPartialState, StageBPartialProgress,
     StageCSession, StageCDecide, StageCSave, StageCFinalize, StageCState
<1>3. CASE Abort(p)
  BY <1>3 DEF Abort, AbortFastCheck, AbortDecide, AbortRestore, AbortSession, AbortMark,
     AbortSave, AbortFinishProgress, AbortFinishState
<1>4. CASE Recover(p)
  BY <1>4 DEF Recover, Scan, RecoverCommitted, RecoverApply, RecoverPartial,
     RecoverAborting, RecoverAborted, RecoverDone
<1>5. CASE Start(p) \/ Exit(p) \/ Crash(p) \/ IoError(p) \/ LockTimeout(p)
  BY <1>5 DEF Start, Exit, Crash, IoError, LockTimeout, Unwind
<1>6. QED
  BY <1>1, <1>2, <1>3, <1>4, <1>5 DEF ProcStep, Step


\* A process that has ended has no locals.
LEMMA Ended ==
  ASSUME TypeOK, NEW p \in Proc, ProcStep(p), pc'[p] = "idle"
  PROVE  loc'[p].mode = "command" /\ loc'[p].apply = "none" /\ loc'[p].abort = "none"
<1> USE DEF TypeOK, procVars, Jump, Goto, Return, Done, Throw, Between, Fresh
<1>1. CASE Pipeline(p)
  BY <1>1 DEF Pipeline, OpenTx, OpenSession, StageEdit, SaveSession, FinalizeCompute, FinalizeWriteDiff,
     FinalizeCommit, ValidateRun, ValidateCommit, ApproveDecide, ApproveCommit
<1>2. CASE Apply(p)
  BY <1>2 DEF Apply, StageACheck, StageAPending, StageBStart, StageBVerify, StageBWrite,
     StageBRecord, StageBCommit, StageBPartialState, StageBPartialProgress,
     StageCSession, StageCDecide, StageCSave, StageCFinalize, StageCState
<1>3. CASE Abort(p)
  BY <1>3 DEF Abort, AbortFastCheck, AbortDecide, AbortRestore, AbortSession, AbortMark,
     AbortSave, AbortFinishProgress, AbortFinishState
<1>4. CASE Recover(p)
  BY <1>4 DEF Recover, Scan, RecoverCommitted, RecoverApply, RecoverPartial,
     RecoverAborting, RecoverAborted, RecoverDone
<1>5. CASE Start(p) \/ Exit(p) \/ Crash(p) \/ IoError(p) \/ LockTimeout(p)
  BY <1>5 DEF Start, Exit, Crash, IoError, LockTimeout, Unwind
<1>6. QED
  BY <1>1, <1>2, <1>3, <1>4, <1>5 DEF ProcStep, Step


\* What recovery has read is still so when it acts, and it leaves no abort half
\* done to a command.
LEMMA RecoverStep ==
  ASSUME Alone, TypeOK, Solo, NEW p \in Proc, ProcStep(p)
  PROVE  RecoverSteps'
<1> USE DEF Solo, txVars, applyVars, abortVars, dataVars
<1> DEFINE kept ==
      /\ pc'[p] \in CommandLabels => loc'[p].mode # "recovering"
      /\ pc'[p] \in {"scan", "recover", "rw"} => loc'[p].mode = "recovering"
      /\ loc'[p].apply # "none" => pc'[p] = "recover" /\ applyPhase' = loc'[p].apply
      /\ pc'[p] = "recover" /\ loc'[p].apply = "none" => applyPhase' \notin InFlight
      /\ loc'[p].abort # "none" =>
           pc'[p] \in {"recover", "rw", "c0", "c1", "c3", "c4", "c5"} /\ loc'[p].mode = "recovering"
      /\ loc'[p].abort = "aborting" => abortPhase' = "aborting" /\ loc'[p].resume = FlagOf(abortReason')
      /\ loc'[p].abort = "aborted-finalize" => abortPhase' = "aborted"
      /\ abortPhase' = "aborting" /\ loc'[p].mode = "runner" => abortReason' = "user-abort"
      /\ abortPhase' = "aborting" /\ loc'[p].mode = "command" => pc'[p] \in {"idle", "ab5", "ab6"}
      /\ abortPhase' = "aborting" /\ loc'[p].mode = "recovering" =>
           loc'[p].abort = "aborting" \/ pc'[p] \in AbortLabels \cup {"scan", "ab6"}
<1> SUFFICES kept
  <2>1. pc'[p] # "idle" => loc'[p].mem = sess'
    BY MemCurrent
  <2> QED
    BY <2>1 DEF RecoverSteps, Alone, CommandLabels, InFlight, AbortLabels
<1>0. /\ loc[p].mode \in {"recovering", "command", "runner"} /\ pc[p] \in PC
      /\ loc[p].abort \in {"none", "aborting", "aborted-finalize"}
  BY DEF TypeOK, Local
<1>1. CASE pc'[p] = "idle"
  BY <1>1, Ended DEF CommandLabels
<1>2. CASE Start(p)
  BY <1>2 DEF Start, Fresh, Between, Goto, TypeOK, CommandLabels
<1>3. CASE RecoverDone(p)
  <2>1. /\ pc'[p] = "ready" /\ loc'[p].mode \in {"command", "runner"}
        /\ loc'[p].apply = "none" /\ loc'[p].abort = "none"
    BY <1>3 DEF RecoverDone, Fresh, Between, Goto, TypeOK
  <2>2. abortPhase' # "aborting"
    BY <1>0, <1>3 DEF RecoverDone, RecoverSteps, AbortLabels
  <2> QED
    BY <2>1, <2>2
<1>4. CASE Scan(p)
  <2>1. /\ pc[p] = "scan" /\ pc'[p] = "recover" /\ loc'[p].mode = loc[p].mode
        /\ loc'[p].apply = ScanApply /\ loc'[p].abort = ScanAbort /\ loc'[p].resume = FlagOf(abortReason)
    BY <1>4 DEF Scan, Goto, TypeOK, Local
  <2>2. UNCHANGED <<applyPhase, abortPhase, abortReason>>
    BY <1>4 DEF Scan
  <2>3. ScanAbort = "aborting" <=> abortPhase = "aborting"
    BY DEF ScanAbort
  <2>4. loc[p].mode = "recovering"
    BY <2>1 DEF RecoverSteps
  <2> QED
    BY <2>1, <2>2, <2>3, <2>4 DEF ScanApply, ScanAbort, InFlight, CommandLabels
<1>5. CASE pc'[p] # "idle" /\ ~Start(p) /\ ~RecoverDone(p) /\ ~Scan(p)
  <2>0. loc'[p].mode = loc[p].mode
    BY <1>5, FieldMoves
  <2>1. pc'[p] \in CommandLabels => loc'[p].mode # "recovering"
    BY <1>5, <2>0, Returns DEF RecoverSteps, CommandLabels
  <2>2. pc'[p] \in {"scan", "recover", "rw"} => loc'[p].mode = "recovering"
    BY <1>5, <2>0, MoreEntries, Entries, Returns DEF RecoverSteps, RecoverCommitted, RecoverApply, RecoverPartial,
       RecoverAborted
  <2>3. ASSUME loc'[p].apply # "none" PROVE FALSE
    <3>1. loc[p].apply # "none" /\ ~RecoverCommitted(p) /\ ~RecoverApply(p)
      <4>1. RecoverCommitted(p) \/ RecoverApply(p) => loc'[p].apply = "none"
        BY DEF RecoverCommitted, RecoverApply, TypeOK, Local
      <4> QED
        BY <1>5, <2>3, <4>1, FieldMoves
    <3>2. pc[p] = "recover" /\ loc[p].mode = "recovering"
      BY <3>1 DEF RecoverSteps
    <3> QED
      BY <1>5, <3>1, <3>2, Successors DEF RecoverAborting, RecoverAborted
  <2>4. ASSUME pc'[p] = "recover", loc'[p].apply = "none" PROVE applyPhase' \notin InFlight
    <3>1. CASE RecoverCommitted(p) \/ RecoverApply(p)
      <4>1. applyPhase = loc[p].apply /\ loc[p].apply # "none"
        BY <3>1 DEF RecoverCommitted, RecoverApply, RecoverSteps
      <4> QED
        BY <2>4, <3>1, <4>1 DEF RecoverCommitted, RecoverApply, Goto, TypeOK, InFlight
    <3>2. CASE RecoverPartial(p)
      BY <3>2 DEF RecoverPartial, InFlight
    <3>3. CASE RecoverAborted(p)
      BY <3>3 DEF RecoverAborted, RecoverSteps
    <3>4. CASE loc[p].mode = "recovering" /\ pc[p] \in {"c4", "c5", "ab1", "ab7"}
      <4>1. pc[p] # "c4"
        BY <2>4, <3>4, Successors DEF StageCFinalize, ApplySteps, Jump, Goto, TypeOK
      <4>2. UNCHANGED applyPhase
        BY <3>4, <4>1, Writers DEF StageAPending, StageBStart, StageBCommit, StageBPartialProgress,
           StageCFinalize, RecoverApply, RecoverPartial
      <4> QED
        BY <3>4, <4>1, <4>2 DEF ApplySteps, AbortSteps, AbortLabels, InFlight
    <3> QED
      BY <1>5, <2>4, <3>1, <3>2, <3>3, <3>4, Returns DEF RecoverSteps, CommandLabels
  <2>5. ASSUME loc'[p].abort # "none"
        PROVE  /\ pc'[p] \in {"recover", "rw", "c0", "c1", "c3", "c4", "c5"} /\ loc'[p].mode = "recovering"
               /\ loc'[p].abort = "aborting" => abortPhase' = "aborting" /\ loc'[p].resume = FlagOf(abortReason')
               /\ loc'[p].abort = "aborted-finalize" => abortPhase' = "aborted"
    <3>1. loc'[p].abort = loc[p].abort /\ loc'[p].resume = loc[p].resume
      BY <1>5, <2>5, FieldMoves
    <3>2. pc[p] \in {"recover", "rw", "c0", "c1", "c3", "c4", "c5"} /\ loc[p].mode = "recovering"
      BY <2>5, <3>1 DEF RecoverSteps
    <3>3. ~RecoverAborting(p)
      <4>1. RecoverAborting(p) => loc'[p].abort = "none"
        BY <1>5, <3>2 DEF RecoverAborting, Throw, Return, Goto, TypeOK, Local
      <4> QED
        BY <2>5, <4>1
    <3>4. pc'[p] \in {"recover", "rw", "c0", "c1", "c3", "c4", "c5"}
      BY <1>5, <3>2, <3>3, Successors DEF RecoverCommitted, RecoverApply, RecoverAborted, RecoverPartial,
         StageCSession, StageCDecide, StageCSave, StageCFinalize, StageCState, Jump, Goto, Done, Throw, Return, TypeOK
    <3>5. UNCHANGED <<abortPhase, abortReason>>
      BY <3>2, AbortMoves DEF AbortMark, AbortFinishProgress
    <3> QED
      BY <2>0, <2>5, <3>1, <3>2, <3>4, <3>5 DEF RecoverSteps
  <2>6. ASSUME abortPhase' = "aborting", loc'[p].mode = "runner" PROVE abortReason' = "user-abort"
    <3>1. CASE UNCHANGED <<abortPhase, abortReason>>
      BY <2>0, <2>6, <3>1 DEF RecoverSteps
    <3>2. CASE AbortMark(p) /\ abortReason' = ReasonOf(loc[p].flag)
      BY <2>0, <2>6, <3>2, FlagReason DEF AbortMark, AbortSteps, AbortLabels
    <3> QED
      BY <2>6, <3>1, <3>2, AbortMoves DEF AbortMark, AbortFinishProgress
  <2>7. ASSUME abortPhase' = "aborting", loc'[p].mode \in {"command", "recovering"}, pc'[p] # "ab5"
        PROVE  abortPhase = "aborting" /\ pc[p] # "ab6"
    <3>1. ~AbortMark(p)
      BY <2>7 DEF AbortMark, Jump, Goto, TypeOK
    <3>2. abortPhase = "aborting"
      BY <2>7, <3>1, AbortMoves DEF AbortFinishProgress
    <3>3. ~AbortFinishProgress(p)
      BY <2>7, <3>2 DEF AbortFinishProgress
    <3> QED
      BY <1>5, <2>0, <2>7, <3>2, <3>3, Successors
  <2>8. ASSUME abortPhase' = "aborting", loc'[p].mode = "command" PROVE pc'[p] \in {"idle", "ab5", "ab6"}
    <3>1. pc'[p] # "ab5" => pc[p] = "ab5"
      BY <1>5, <2>0, <2>7, <2>8, Successors DEF RecoverSteps
    <3> QED
      BY <1>5, <2>0, <2>8, <3>1, Successors DEF AbortSave, Goto, TypeOK
  <2>9. ASSUME abortPhase' = "aborting", loc'[p].mode = "recovering"
        PROVE  loc'[p].abort = "aborting" \/ pc'[p] \in AbortLabels \cup {"scan", "ab6"}
    <3>1. CASE pc'[p] = "ab5"
      BY <3>1 DEF AbortLabels
    <3>2. CASE pc'[p] # "ab5" /\ loc[p].abort = "aborting"
      <4>1. RecoverAborting(p) => pc'[p] = "ab1"
        BY <1>5, <2>0, <2>9 DEF RecoverAborting, Throw, Return, Goto, TypeOK
      <4> QED
        BY <1>5, <3>2, <4>1, FieldMoves DEF RecoverAborted, AbortLabels
    <3>3. CASE pc'[p] # "ab5" /\ loc[p].abort # "aborting"
      <4>1. abortPhase = "aborting" /\ pc[p] \in AbortLabels
        BY <1>5, <2>0, <2>7, <2>9, <3>3, Successors DEF RecoverSteps
      <4>2. \/ AbortDecide(p) \/ AbortRestore(p) \/ AbortSession(p) \/ AbortMark(p) \/ AbortSave(p)
        BY <1>5, <2>0, <2>9, <4>1, Successors DEF AbortLabels
      <4>3. AbortDecide(p) => pc'[p] \in {"abRestore", "abWrite"}
        BY <1>5, <2>0, <2>9, <4>1 DEF AbortDecide, AllAborted, Throw, Return, Jump, Goto, TypeOK
      <4>4. AbortRestore(p) => pc'[p] = "abWrite"
        BY <1>5, <2>0, <2>9 DEF AbortRestore, Throw, Return, Jump, Goto, TypeOK
      <4> QED
        BY <4>2, <4>3, <4>4 DEF AbortSession, AbortMark, AbortSave, Jump, Goto, TypeOK, AbortLabels
    <3> QED
      BY <3>1, <3>2, <3>3
  <2> QED
    BY <2>1, <2>2, <2>3, <2>4, <2>5, <2>6, <2>8, <2>9
<1> QED
  BY <1>1, <1>2, <1>3, <1>4, <1>5

\* The initial state, and the steps of the world outside.
LEMMA SoloInit == Init => Solo
<1> SUFFICES ASSUME Init PROVE Solo
  OBVIOUS
<1>1. Clean /\ PhaseInv /\ TraceInv
  BY DEF Init, Clean, PhaseInv, TraceInv, NoSession, InFlight
<1>2. ApplySteps /\ AbortSteps
  BY DEF Init, ApplySteps, AbortSteps, AbortLabels
<1>3. RecoverSteps
  BY DEF Init, RecoverSteps, Fresh, Between, CommandLabels
<1> QED
  BY <1>1, <1>2, <1>3 DEF Solo

LEMMA SoloEnv ==
  ASSUME Core, Solo, ExpireLock \/ (\E f \in File : ExternalEdit(f)) \/ UNCHANGED vars
  PROVE  Solo'
<1>1. UNCHANGED <<txState, applyPhase, ghost, written, diff, abortPhase, abortReason, sess, pc, loc>>
  BY EnvStep DEF txVars, applyVars, abortVars, procVars, dataVars, vars, ExpireLock, ExternalEdit
<1>2. Clean => Clean'
  <2>1. CASE \E f \in File : ExternalEdit(f)
    BY <2>1 DEF ExternalEdit, Clean, Core, TypeOK
  <2>2. CASE UNCHANGED file
    BY <2>2 DEF Clean
  <2> QED
    BY <2>1, <2>2 DEF ExpireLock, dataVars, vars
<1>3. PhaseInv'
  BY <1>1, <1>2 DEF Solo, PhaseInv, Planned
<1>4. TraceInv'
  BY <1>1, <1>2 DEF Solo, TraceInv, InFlight
<1>5. ApplySteps' /\ RecoverSteps'
  BY <1>1 DEF Solo, ApplySteps, RecoverSteps, AbortLabels, CommandLabels, InFlight
<1>6. AbortSteps'
  BY <1>1, <1>2 DEF Solo, AbortSteps, AbortLabels, InFlight
<1> QED
  BY <1>3, <1>4, <1>5, <1>6 DEF Solo

\* Only Stage B adds to what is written and only a restore takes it back, after
\* the apply has stopped half-way.
LEMMA PlantedStep ==
  ASSUME Alone, Core, Solo, Ends, NEW p \in Proc, ProcStep(p)
  PROVE  PlantedInv'
<1> USE DEF Solo, txVars, applyVars, abortVars, dataVars
<1>0. TypeOK /\ PosInRange /\ StageInv /\ PlantedInv
  BY DEF Core, Ends
<1> DEFINE stage == {"apply-writing", "apply-committed", "apply-finalized"}
<1>1. ASSUME applyPhase' \in stage, NEW f \in written' PROVE file'[f] \in {-1, diff'.new}
  <2>1. CASE applyPhase \notin stage
    <3>1. StageBStart(p)
      BY <1>1, <2>1, Writers DEF StageAPending, StageBCommit, StageBPartialProgress, StageCFinalize,
         RecoverApply, RecoverPartial, ApplySteps
    <3>2. applyPhase \in InFlight /\ UNCHANGED written
      BY <1>0, <1>1, <2>1, <3>1 DEF StageBStart, TypeOK, ApplyPhase, ApplySteps, InFlight
    <3>3. written = {}
      BY <2>1, <3>2 DEF PhaseInv, InFlight
    <3> QED
      BY <1>1, <3>2, <3>3
  <2>2. CASE applyPhase \in stage
    <3>1. UNCHANGED diff
      BY <1>0, <2>2, DataWriters DEF FinalizeWriteDiff, ApplySteps, StageInv, Post
    <3>2. ~AbortRestore(p) \/ applyPhase = "apply-finalized"
      BY <2>2 DEF AbortRestore, AbortSteps, AbortLabels, InFlight
    <3>3. ~AbortRestore(p)
      <4>1. AbortRestore(p) => pc[p] = "abRestore"
        BY DEF AbortRestore
      <4>2. AbortRestore(p) => loc[p].flag = "restore"
        BY <1>0, <4>1 DEF RestoreInv, Ends
      <4> QED
        BY <3>2, <4>1, <4>2 DEF AbortSteps, AbortLabels, PhaseInv
    <3>4. CASE StageBWrite(p)
      <4>1. loc[p].diff = diff /\ UNCHANGED written
        BY <3>4 DEF StageBWrite, ApplySteps
      <4>2. file[f] \in {-1, diff.new}
        BY <1>0, <1>1, <2>2, <4>1 DEF PlantedInv
      <4> QED
        BY <1>0, <1>1, <3>1, <3>4, <4>1, <4>2 DEF StageBWrite, TypeOK
    <3>5. CASE StageBRecord(p)
      BY <1>0, <1>1, <2>2, <3>5 DEF StageBRecord, PlantedInv
    <3>6. CASE ~StageBWrite(p) /\ ~StageBRecord(p)
      <4>1. UNCHANGED file
        BY <3>3, <3>6, DataWriters
      <4>2. UNCHANGED written
        BY <2>2, <3>6, DataWriters DEF StageAPending, ApplySteps
      <4> QED
        BY <1>0, <1>1, <2>2, <3>1, <4>1, <4>2 DEF PlantedInv
    <3> QED
      BY <3>4, <3>5, <3>6
  <2> QED
    BY <2>1, <2>2
<1>2. ASSUME pc'[p] = "b4" PROVE file'[loc'[p].pos + 1] \in {-1, diff'.new}
  <2>1. StageBWrite(p)
    BY <1>0, <1>2, Entries
  <2>2. loc' = loc /\ diff' = diff /\ loc[p].diff = diff
    BY <2>1 DEF StageBWrite, Jump, ApplySteps
  <2>3. file' = [file EXCEPT ![loc[p].pos + 1] = loc[p].diff.new]
    BY <1>0, <1>2, <2>1 DEF StageBWrite, Jump, Goto, TypeOK
  <2>4. loc[p].pos + 1 \in File
    BY <1>0, <2>1, BoundAssumption DEF StageBWrite, PosInRange, Planned, File, TypeOK, Local
  <2> QED
    BY <1>0, <2>2, <2>3, <2>4 DEF TypeOK
<1> QED
  BY <1>1, <1>2 DEF PlantedInv, Alone

\* A restore is begun with its flag.
LEMMA RestoreStep ==
  ASSUME Alone, Core, NEW p \in Proc, ProcStep(p)
  PROVE  RestoreInv'
<1> SUFFICES ASSUME pc'[p] = "abRestore" PROVE loc'[p].flag = "restore"
  BY DEF RestoreInv, Alone
<1>1. TypeOK /\ AbortDecide(p)
  BY MoreEntries DEF Core
<1> QED
  BY <1>1 DEF AbortDecide, Throw, Done, Return, Jump, Goto, TypeOK

\* The last step of an abort.
LEMMA FinishNext ==
  ASSUME TypeOK, NEW p \in Proc, ProcStep(p), pc'[p] # "idle", loc[p].mode # "runner", pc[p] = "ab7"
  PROVE  AbortFinishState(p)
<1> USE DEF TypeOK, Goto, Return, Throw
<1>1. CASE Pipeline(p)
  BY <1>1 DEF Pipeline, OpenTx, OpenSession, StageEdit, SaveSession, FinalizeCompute, FinalizeWriteDiff,
     FinalizeCommit, ValidateRun, ValidateCommit, ApproveDecide, ApproveCommit
<1>2. CASE Apply(p)
  BY <1>2 DEF Apply, StageACheck, StageAPending, StageBStart, StageBVerify, StageBWrite,
     StageBRecord, StageBCommit, StageBPartialState, StageBPartialProgress,
     StageCSession, StageCDecide, StageCSave, StageCFinalize, StageCState
<1>3. CASE Abort(p)
  BY <1>3 DEF Abort, AbortFastCheck, AbortDecide, AbortRestore, AbortSession, AbortMark,
     AbortSave, AbortFinishProgress, AbortFinishState
<1>4. CASE Recover(p)
  BY <1>4 DEF Recover, Scan, RecoverCommitted, RecoverApply, RecoverPartial,
     RecoverAborting, RecoverAborted, RecoverDone
<1>5. CASE Start(p) \/ Exit(p) \/ Crash(p) \/ IoError(p) \/ LockTimeout(p)
  BY <1>5 DEF Start, Exit, Crash, IoError, LockTimeout, Unwind
<1> QED
  BY <1>1, <1>2, <1>3, <1>4, <1>5 DEF ProcStep, Step

\* Scan looks for a finished apply without its outcome, and every way back to the
\* recovery loop has written one.
LEMMA OutcomeStep ==
  ASSUME Alone, Core, Solo, Ends, NEW p \in Proc, ProcStep(p)
  PROVE  OutcomeWritten'
<1> USE DEF Solo, txVars, applyVars, abortVars, dataVars
<1>0. TypeOK /\ OutcomeWritten
  BY DEF Core, Ends
<1> SUFFICES ASSUME pc'[p] = "recover", loc'[p].apply = "none", applyPhase' = "apply-finalized"
             PROVE  txState' \in {"applied", "aborted"}
  BY DEF OutcomeWritten, Alone
<1>1. CASE Scan(p)
  <2>1. ScanApply = "none" /\ UNCHANGED <<txState, applyPhase>>
    BY <1>0, <1>1 DEF Scan, TypeOK, Local
  <2> QED
    BY <2>1 DEF ScanApply
<1>2. CASE RecoverCommitted(p)
  BY <1>0, <1>2 DEF RecoverCommitted, RecoverSteps
<1>3. CASE RecoverApply(p)
  BY <1>0, <1>3 DEF RecoverApply, Goto, TypeOK
<1>4. CASE RecoverPartial(p) \/ RecoverAborted(p)
  BY <1>4 DEF RecoverPartial, RecoverAborted
<1>5. CASE loc[p].mode = "recovering" /\ pc[p] \in {"fin2", "val", "appr", "c4", "c5", "ab1", "ab7"}
  <2>1. pc[p] \in {"c4", "c5", "ab1", "ab7"}
    BY <1>5 DEF RecoverSteps, CommandLabels
  <2>2. CASE pc[p] = "c4"
    BY <1>0, <1>5, <2>2, Successors DEF StageCFinalize, Jump, Goto, TypeOK, ApplySteps
  <2>3. CASE pc[p] = "c5"
    BY <1>0, <1>5, <2>3, Successors DEF StageCState
  <2>4. CASE pc[p] = "ab1"
    <3>1. AbortDecide(p)
      BY <1>0, <1>5, <2>4, Successors
    <3>2. AllAborted(loc[p].mem) /\ UNCHANGED txState
      BY <1>0, <1>5, <3>1 DEF AbortDecide, Throw, Return, Jump, Goto, TypeOK
    <3> QED
      BY <3>2 DEF AllAborted
  <2>5. CASE pc[p] = "ab7"
    <3>1. AbortFinishState(p)
      BY <1>0, <1>5, <2>5, FinishNext
    <3> QED
      BY <3>1 DEF AbortFinishState
  <2> QED
    BY <2>1, <2>2, <2>3, <2>4, <2>5
<1> QED
  BY <1>0, <1>1, <1>2, <1>3, <1>4, <1>5, Returns

LEMMA SoloNext ==
  ASSUME Alone, Core, Solo, Ends, [Next]_vars
  PROVE  Core' /\ Solo' /\ Ends'
<1>1. CASE \E p \in Proc : ProcStep(p)
  <2>1. PICK p \in Proc : ProcStep(p)
    BY <1>1
  <2>2. TypeOK /\ StageInv
    BY DEF Core
  <2>3. Ends'
    BY <2>1, RestoreStep, PlantedStep, OutcomeStep DEF Ends
  <2> QED
    BY <2>1, <2>2, <2>3, CoreStep, PhaseStep, TraceStep, ApplyStep, AbortStep, RecoverStep DEF Solo
<1>2. CASE ExpireLock \/ (\E f \in File : ExternalEdit(f)) \/ UNCHANGED vars
  <2>1. /\ UNCHANGED <<txState, applyPhase, written, diff, pc, loc>>
        /\ file' = file \/ \E f \in File : file' = [file EXCEPT ![f] = -1]
    BY <1>2, EnvStep DEF txVars, applyVars, procVars, dataVars, vars, ExpireLock, ExternalEdit
  <2>2. Ends'
    <3>1. \A f \in File : file[f] \in {-1, diff.new} => file'[f] \in {-1, diff'.new}
      BY <2>1 DEF Core, TypeOK
    <3>2. written \subseteq File /\ \A p \in Proc : pc[p] = "b4" => loc[p].pos + 1 \in File
      BY BoundAssumption DEF Core, TypeOK, PosInRange, Planned, File, Local
    <3>3. PlantedInv'
      BY <2>1, <3>1, <3>2 DEF Ends, PlantedInv
    <3> QED
      BY <2>1, <3>3 DEF Ends, OutcomeWritten, RestoreInv
  <2> QED
    BY <1>2, <2>2, SoloEnv, EnvStep
<1> QED
  BY <1>1, <1>2 DEF Next

LEMMA SoloBegins == Init => Core /\ Solo /\ Ends
<1>1. Init => Core /\ Solo
  BY InitInv, SoloInit DEF Cover
<1>2. Init => Ends
  BY DEF Init, Ends, PlantedInv, OutcomeWritten, RestoreInv
<1> QED
  BY <1>1, <1>2

\* With commands that do not overlap, state.json, the progress files, the session
\* and the workspace tell the same story after any sequence of crashes, I/O
\* errors, outside edits and recoveries, for any number of files (apply.ts,
\* abort.ts, recovery.ts).
THEOREM OutcomeAlwaysMatches ==
  ASSUME Alone
  PROVE  Spec => []OutcomeMatchesFiles
<1>1. Init => Core /\ Solo /\ Ends
  BY SoloBegins
<1>2. Core /\ Solo /\ Ends /\ [Next]_vars => (Core /\ Solo /\ Ends)'
  BY SoloNext
<1>3. Core /\ Solo /\ Ends => OutcomeMatchesFiles
  <2> SUFFICES ASSUME Core, Solo, Ends PROVE OutcomeMatchesFiles
    OBVIOUS
  <2>1. AppliedIsComplete
    <3>1. txState = "applied" => applyPhase = "apply-finalized"
      BY DEF Solo, PhaseInv, Core, TypeOK, ApplyPhase
    <3> QED
      BY <3>1 DEF Solo, PhaseInv, TraceInv, Ends, PlantedInv, Planted, AppliedIsComplete
  <2>2. AbortedIsClean
    BY DEF Solo, TraceInv, AbortedIsClean, Clean
  <2>3. PartialKeepsSnapshot /\ ReasonsAgree
    BY DEF Solo, PhaseInv, TraceInv, PartialKeepsSnapshot, ReasonsAgree
  <2> QED
    BY <2>1, <2>2, <2>3 DEF OutcomeMatchesFiles
<1>4. QED
  BY <1>1, <1>2, <1>3, PTL DEF Spec

\* recoverAtStart lets a command begin only when no abort is half done and the
\* apply left the workspace alone, or put all of its plan there and said so, or
\* stopped half-way with a snapshot to go back to: what the scan read is still so
\* when each of its actions runs (recovery.ts).
THEOREM RecoveryAlwaysSettles ==
  ASSUME Alone
  PROVE  Spec => RecoverySettles
<1> DEFINE settles == \A p \in Proc : pc[p] = "recover" /\ pc'[p] = "ready"
                        => ApplySettled /\ abortPhase # "aborting"
<1>1. Init => Core /\ Solo /\ Ends
  BY SoloBegins
<1>2. Core /\ Solo /\ Ends /\ [Next]_vars => (Core /\ Solo /\ Ends)' /\ [settles]_vars
  <2> SUFFICES ASSUME Core, Solo, Ends, [Next]_vars PROVE (Core /\ Solo /\ Ends)' /\ [settles]_vars
    OBVIOUS
  <2>1. ASSUME NEW p \in Proc, pc[p] = "recover", pc'[p] = "ready"
        PROVE  ApplySettled /\ abortPhase # "aborting"
    <3>1. pc'[p] # pc[p] /\ TypeOK /\ loc[p].mode = "recovering"
      BY <2>1 DEF Core, Solo, RecoverSteps
    <3>2. ~(ExpireLock \/ (\E f \in File : ExternalEdit(f)) \/ UNCHANGED vars)
      BY <3>1, EnvStep DEF procVars
    <3>3. PICK q \in Proc : ProcStep(q)
      BY <3>2 DEF Next
    <3>4. q = p
      BY <3>1, <3>3, Frame
    <3>5. RecoverDone(p)
      BY <2>1, <3>1, <3>3, <3>4, Successors DEF RecoverCommitted, RecoverApply, RecoverAborting, RecoverAborted,
         Goto, Throw, Return, TypeOK
    <3>6. loc[p].apply = "none" /\ loc[p].abort = "none"
      BY <3>5 DEF RecoverDone
    <3>7. abortPhase # "aborting" /\ applyPhase \in {"none", "apply-finalized", "apply-failed-partial"}
      BY <2>1, <3>1, <3>6 DEF Solo, RecoverSteps, AbortLabels, TypeOK, ApplyPhase, InFlight
    <3>8. applyPhase = "apply-finalized" => Planted /\ txState \in {"applied", "aborted"}
      BY <2>1, <3>6 DEF Solo, PhaseInv, Ends, PlantedInv, OutcomeWritten, Planted
    <3> QED
      BY <3>7, <3>8 DEF Solo, PhaseInv, ApplySettled
  <2> QED
    BY <2>1, SoloNext
<1>3. QED
  BY <1>1, <1>2, PTL DEF Spec, RecoverySettles
=============================================================================
