----------------------------- MODULE TxProtocol -----------------------------
(***************************************************************************)
(* The transactional workspace: one transaction, the session file that     *)
(* audits it, and any number of cliq processes that drive it, crash in the *)
(* middle of a step and recover it at their next start.                    *)
(*                                                                         *)
(* On disk:  state.json (txState, blocking, overrides, summary), diff.json *)
(* (diff), apply-progress.json (applyPhase, written, ghost),               *)
(* abort-progress.json (abortPhase, abortReason), the overlay directory    *)
(* (overlay, a version), the session file (sess), the files of the real    *)
(* workspace (file), the two lock directories (txLock, sessLock).          *)
(* In a process:  pc, and loc: its in-memory session (mem), the recovery   *)
(* actions it scanned (apply, abort) and the locals of the operation.      *)
(*                                                                         *)
(* Every write of a file is a step of its own, so that a crash can fall    *)
(* between any two of them; what is read under a lock is read in the step  *)
(* that takes the lock or in the step that first writes.                   *)
(***************************************************************************)
EXTENDS Integers, FiniteSets

CONSTANTS Proc,       \* cliq processes that work on the transaction
          StaleSaves, \* whether a turn may overlap other processes' tx commands
          NFiles,     \* files the diff modifies, written in the order 1..NFiles
          MaxEdits,   \* bound on the edits staged in the overlay
          Validator,  \* blocking validators
          Free, Dead  \* lock values: nobody; a process that crashed

ASSUME LockAssumption == Free \notin Proc /\ Dead \notin Proc /\ Free # Dead
ASSUME TurnsAssumption == StaleSaves \in BOOLEAN
ASSUME BoundAssumption == NFiles \in Nat /\ MaxEdits \in Nat

VARIABLES txState, blocking, overrides, summary, diff, overlay, checked,
          applyPhase, written, ghost, abortPhase, abortReason,
          sess, file, txLock, sessLock, pc, loc

txVars    == <<txState, blocking, overrides, summary, checked>>
applyVars == <<applyPhase, written, ghost>>
abortVars == <<abortPhase, abortReason>>
lockVars  == <<txLock, sessLock>>
procVars  == <<pc, loc>>
dataVars  == <<diff, overlay, file>>
vars == <<txVars, applyVars, abortVars, lockVars, procVars, dataVars, sess>>

-----------------------------------------------------------------------------
(* Data.  A content is the base version (0), the overlay version that was  *)
(* staged (1..MaxEdits), or a change made outside cliq (-1).               *)

File    == 1..NFiles
Version == 0..MaxEdits
Content == {-1} \cup Version
NoSummary == -1

TxState == {"absent", "staging", "finalized", "validated", "approved",
            "applied", "applied-partial", "aborted"}
ApplyPhase == {"none", "apply-pending", "apply-writing", "apply-committed",
               "apply-finalized", "apply-failed-partial"}
InFlight   == {"apply-pending", "apply-writing", "apply-committed"}
AbortPhase == {"none", "aborting", "aborted"}
Reason     == {"none", "user-abort", "apply-failed-partial-restored",
               "apply-failed-partial-kept"}
Flag       == {"none", "restore", "keep"}
Record     == {"applied", "aborted"}
Session    == [active : BOOLEAN, recs : SUBSET Record, why : Reason]
Diff       == [new : Version, old : [File -> Content]]

\* Program counters.  The holder sets say which lock a process holds there.
HoldsTx   == {"a4", "b3", "b3b", "b4", "bErr", "bFail", "c5", "ab7", "rw"}
HoldsSess == {"c1", "c3", "ab4", "ab5"}
WaitsTx   == {"fin2", "val", "appr", "b0", "c1", "c4", "ab1", "ab4", "ab6"}
WaitsSess == {"open", "c0", "abWrite"}
PC == {"idle", "scan", "recover", "ready", "fin1", "abRestore"}
        \cup HoldsTx \cup HoldsSess \cup WaitsTx \cup WaitsSess

Local == [mode : {"recovering", "command", "runner"}, mem : Session,
          apply : ApplyPhase, abort : {"none", "aborting", "aborted-finalize"},
          resume : Flag, flag : Flag, diff : Diff, view : Version, failed : SUBSET Validator,
          cover : SUBSET Validator, pos : 0..NFiles]

\* The number of files a diff lists: an overlay without edits has none.
Planned(d) == IF d.new = 0 THEN 0 ELSE NFiles

\* Mutant: the persisted reason is passed on as if it were the flag.
FlagOf_Raw(reason) == reason

FlagOf(reason) == CASE reason = "apply-failed-partial-restored" -> "restore"
                    [] reason = "apply-failed-partial-kept" -> "keep"
                    [] OTHER -> "none"
ReasonOf(flag) == CASE flag = "restore" -> "apply-failed-partial-restored"
                    [] flag = "keep" -> "apply-failed-partial-kept"
                    [] OTHER -> "user-abort"

-----------------------------------------------------------------------------
(* Control.                                                                *)

Goto(p, l) == pc' = [pc EXCEPT ![p] = l]
Jump(p, l) == Goto(p, l) /\ UNCHANGED loc

\* The locals of a process between two operations.
NoSession == [active |-> FALSE, recs |-> {}, why |-> "none"]
NoDiff    == [new |-> 0, old |-> [f \in File |-> 0]]
Between(mode, mem, apply, abort, resume) ==
  [mode |-> mode, mem |-> mem, apply |-> apply, abort |-> abort, resume |-> resume,
   flag |-> "none", diff |-> NoDiff, view |-> 0, failed |-> {}, cover |-> {}, pos |-> 0]
Fresh(mode, mem) == Between(mode, mem, "none", "none", "none")

\* An operation returns to label l with m as the in-memory session: its locals
\* go out of scope, and everything does when the process ends.
Return(p, m, l) ==
  /\ Goto(p, l)
  /\ loc' = [loc EXCEPT ![p] =
       IF l = "idle" THEN Fresh("command", NoSession)
       ELSE Between(loc[p].mode, m, loc[p].apply, loc[p].abort, loc[p].resume)]

\* Where that is: the recovery loop that started the operation, or its caller.
\* An exception ends recoverAtStart and a tx command with their process; the
\* turn runner reports it and lives on.
Done(p)  == Return(p, loc[p].mem,
                   IF loc[p].mode = "recovering" THEN "recover" ELSE "ready")
Throw(p) == Return(p, loc[p].mem,
                   IF loc[p].mode = "runner" THEN "ready" ELSE "idle")

\* withTxLock and withPathLock on the session file.
AcquireTx(p) == txLock = Free /\ txLock' = p
ReleaseTx(p) == txLock' = IF txLock = p THEN Free ELSE txLock
AcquireSess(p) == sessLock = Free /\ sessLock' = p
ReleaseSess(p) == sessLock' = IF sessLock = p THEN Free ELSE sessLock

Init ==
  /\ txState = "absent" /\ blocking = {} /\ overrides = {}
  /\ summary = NoSummary /\ checked = 0
  /\ diff = NoDiff /\ overlay = 0
  /\ file = [f \in File |-> 0]
  /\ applyPhase = "none" /\ written = {} /\ ghost = [f \in File |-> 0]
  /\ abortPhase = "none" /\ abortReason = "none"
  /\ sess = NoSession
  /\ txLock = Free /\ sessLock = Free
  /\ pc = [p \in Proc |-> "idle"]
  /\ loc = [p \in Proc |-> Fresh("command", NoSession)]

-----------------------------------------------------------------------------
(* openTx, the staged edits of a turn, and the pipeline to "approved".     *)

\* createTx writes the row; the session learns of it in a second step.
OpenTx(p) ==
  /\ pc[p] = "ready" /\ txState = "absent"
  /\ txState' = "staging" /\ Jump(p, "open")
  /\ UNCHANGED <<blocking, overrides, summary, checked, applyVars, abortVars,
                 lockVars, dataVars, sess>>

OpenSession(p) ==
  /\ pc[p] = "open" /\ sessLock = Free
  /\ sess' = [sess EXCEPT !.active = TRUE]
  /\ Return(p, sess', "ready")
  /\ UNCHANGED <<txVars, applyVars, abortVars, lockVars, dataVars>>

\* A turn reuses the active transaction whatever its state (getActiveTx), and
\* its edit tool writes into the overlay.
StageEdit(p) ==
  /\ pc[p] = "ready" /\ loc[p].mode = "runner"
  /\ loc[p].mem.active /\ txState # "absent"
  /\ overlay < MaxEdits /\ overlay' = overlay + 1
  /\ UNCHANGED <<txVars, applyVars, abortVars, lockVars, procVars, diff, file, sess>>

\* A turn appends its messages to the session it holds in memory and saves all
\* of that: saveSession takes the session lock and does not read the file again.
\* Without StaleSaves nobody else has changed the session since it was loaded.
SaveSession(p) ==
  /\ pc[p] = "ready" /\ loc[p].mode = "runner"
  /\ sessLock = Free /\ (StaleSaves \/ loc[p].mem = sess)
  /\ sess' = loc[p].mem
  /\ UNCHANGED <<txVars, applyVars, abortVars, lockVars, procVars, dataVars>>

\* finalizeTx: the state is read and the diff computed without the lock, ...
FinalizeCompute(p) ==
  /\ pc[p] = "ready" /\ txState = "staging"
  /\ loc' = [loc EXCEPT ![p].diff = [new |-> overlay, old |-> file]]
  /\ Goto(p, "fin1")
  /\ UNCHANGED <<txVars, applyVars, abortVars, lockVars, dataVars, sess>>

\* ... diff.json is written without the lock, ...
FinalizeWriteDiff(p) ==
  /\ pc[p] = "fin1"
  /\ diff' = loc[p].diff /\ Jump(p, "fin2")
  /\ UNCHANGED <<txVars, applyVars, abortVars, lockVars, overlay, file, sess>>

\* ... and the state is checked again and advanced under it.
FinalizeCommit(p) ==
  /\ pc[p] = "fin2" /\ txLock = Free
  /\ \/ /\ txState = "staging"
        /\ txState' = "finalized" /\ summary' = loc[p].diff.new
        /\ Done(p)
     \/ /\ txState # "staging" /\ Throw(p) /\ UNCHANGED <<txState, summary>>
  /\ UNCHANGED <<blocking, overrides, checked, applyVars, abortVars, lockVars,
                 dataVars, sess>>

\* validateTx materialises the staged view from the overlay and runs the
\* validators on it; which of them fail is their choice.
ValidateRun(p) ==
  /\ pc[p] = "ready" /\ txState = "finalized"
  /\ \E failed \in SUBSET Validator :
       loc' = [loc EXCEPT ![p].view = overlay, ![p].failed = failed]
  /\ Goto(p, "val")
  /\ UNCHANGED <<txVars, applyVars, abortVars, lockVars, dataVars, sess>>

\* Mutant: the state is not checked again under the lock.
ValidateCommit_Stale(p) ==
  /\ pc[p] = "val" /\ txLock = Free
  /\ txState' = "validated" /\ blocking' = loc[p].failed
  /\ checked' = loc[p].view /\ Done(p)
  /\ UNCHANGED <<overrides, summary, applyVars, abortVars, lockVars, dataVars, sess>>

ValidateCommit(p) ==
  /\ pc[p] = "val" /\ txLock = Free
  /\ \/ /\ txState = "finalized" /\ txState' = "validated"
        /\ blocking' = loc[p].failed /\ checked' = loc[p].view /\ Done(p)
     \/ /\ txState # "finalized" /\ Throw(p)
        /\ UNCHANGED <<txState, blocking, checked>>
  /\ UNCHANGED <<overrides, summary, applyVars, abortVars, lockVars, dataVars, sess>>

\* approveTx: the failures are read, and the overrides compared with them,
\* before the lock; under it only the state is checked again.
ApproveDecide(p) ==
  /\ pc[p] = "ready" /\ txState = "validated"
  /\ \E cover \in SUBSET Validator :
       /\ blocking \subseteq cover
       /\ loc' = [loc EXCEPT ![p].cover = cover \cap blocking]
  /\ Goto(p, "appr")
  /\ UNCHANGED <<txVars, applyVars, abortVars, lockVars, dataVars, sess>>

ApproveCommit(p) ==
  /\ pc[p] = "appr" /\ txLock = Free
  /\ \/ /\ txState = "validated" /\ txState' = "approved"
        /\ overrides' = overrides \cup loc[p].cover /\ Done(p)
     \/ /\ txState # "validated" /\ Throw(p) /\ UNCHANGED <<txState, overrides>>
  /\ UNCHANGED <<blocking, summary, checked, applyVars, abortVars, lockVars, dataVars, sess>>

-----------------------------------------------------------------------------
(* applyTx = Stage A; Stage B; Stage C.                                    *)

\* Stage A, A1a..A3: a rejection or a conflict leaves everything as it was.
StageACheck(p) ==
  /\ pc[p] = "ready"
  /\ AcquireTx(p)
  /\ txState = "approved" /\ abortPhase = "none" /\ applyPhase = "none"
  /\ \A f \in 1..Planned(diff) : file[f] = diff.old[f]
  /\ loc' = [loc EXCEPT ![p].diff = diff]
  /\ Goto(p, "a4")
  /\ UNCHANGED <<txVars, applyVars, abortVars, sessLock, dataVars, sess>>

\* A4..A6: the ghost snapshot, then apply-progress, then the lock is released.
StageAPending(p) ==
  /\ pc[p] = "a4"
  /\ ghost' = file /\ applyPhase' = "apply-pending" /\ written' = {}
  /\ ReleaseTx(p) /\ Jump(p, "b0")
  /\ UNCHANGED <<txVars, abortVars, sessLock, dataVars, sess>>

\* Stage B, B1a and B2.
StageBStart(p) ==
  /\ pc[p] = "b0" /\ txLock = Free
  /\ \/ /\ txState # "approved"
        /\ applyPhase' = "none" /\ Throw(p) /\ UNCHANGED txLock
     \/ /\ txState = "approved" /\ applyPhase = "none"
        /\ Throw(p) /\ UNCHANGED <<applyPhase, txLock>>
     \/ /\ txState = "approved" /\ applyPhase # "none"
        /\ applyPhase' = "apply-writing" /\ AcquireTx(p)
        /\ loc' = [loc EXCEPT ![p].pos = 0] /\ Goto(p, "b3")
  /\ UNCHANGED <<txVars, written, ghost, abortVars, sessLock, dataVars, sess>>

\* B3a: the file is compared with its Stage A fingerprint once more; a
\* mismatch and a read error take the same path.
StageBVerify(p) ==
  /\ pc[p] = "b3" /\ loc[p].pos < Planned(loc[p].diff)
  /\ \/ /\ file[loc[p].pos + 1] = loc[p].diff.old[loc[p].pos + 1]
        /\ Jump(p, "b3b")
     \/ Jump(p, "bErr")
  /\ UNCHANGED <<txVars, applyVars, abortVars, lockVars, dataVars, sess>>

\* B3b..B3d: a disk error may come before or after the rename.
StageBWrite(p) ==
  /\ pc[p] = "b3b"
  /\ \/ /\ file' = [file EXCEPT ![loc[p].pos + 1] = loc[p].diff.new]
        /\ \E l \in {"b4", "bErr"} : Jump(p, l)
     \/ /\ Jump(p, "bErr") /\ UNCHANGED file
  /\ UNCHANGED <<txVars, applyVars, abortVars, lockVars, diff,
                 overlay, sess>>

StageBRecord(p) ==
  /\ pc[p] = "b4"
  /\ written' = written \cup {loc[p].pos + 1}
  /\ loc' = [loc EXCEPT ![p].pos = @ + 1] /\ Goto(p, "b3")
  /\ UNCHANGED <<txVars, applyPhase, ghost, abortVars, lockVars, dataVars, sess>>

\* Mutant: the loop over the plan may end before its last file.
StageBCommit_Early(p) ==
  /\ pc[p] = "b3"
  /\ applyPhase' = "apply-committed" /\ ReleaseTx(p) /\ Jump(p, "c0")
  /\ UNCHANGED <<txVars, written, ghost, abortVars, sessLock, dataVars, sess>>

StageBCommit(p) ==
  /\ pc[p] = "b3" /\ loc[p].pos = Planned(loc[p].diff)
  /\ applyPhase' = "apply-committed" /\ ReleaseTx(p) /\ Jump(p, "c0")
  /\ UNCHANGED <<txVars, written, ghost, abortVars, sessLock, dataVars, sess>>

\* The failure path: state.json first, apply-progress second, then ApplyPartial.
StageBPartialState(p) ==
  /\ pc[p] = "bErr"
  /\ txState' = "applied-partial" /\ Jump(p, "bFail")
  /\ UNCHANGED <<blocking, overrides, summary, checked, applyVars, abortVars,
                 lockVars, dataVars, sess>>

StageBPartialProgress(p) ==
  /\ pc[p] = "bFail"
  /\ applyPhase' = "apply-failed-partial" /\ ReleaseTx(p) /\ Throw(p)
  /\ UNCHANGED <<txVars, written, ghost, abortVars, sessLock, dataVars, sess>>

\* Stage C: mutateSession takes the session lock and reads the session again, ...
StageCSession(p) ==
  /\ pc[p] = "c0" /\ AcquireSess(p) /\ Goto(p, "c1")
  /\ loc' = [loc EXCEPT ![p].mem = sess]
  /\ UNCHANGED <<txVars, applyVars, abortVars, txLock, dataVars, sess>>

AllApplied(s) == /\ applyPhase = "apply-finalized" /\ txState = "applied"
                 /\ ~s.active /\ "applied" \in s.recs

\* ... decides under the tx lock whether a record is needed, ...
StageCDecide(p) ==
  /\ pc[p] = "c1" /\ txLock = Free
  /\ \/ /\ applyPhase = "none" \/ AllApplied(loc[p].mem)
        /\ ReleaseSess(p) /\ Jump(p, "c4")
     \/ /\ applyPhase # "none" /\ ~AllApplied(loc[p].mem) /\ summary = NoSummary
        /\ ReleaseSess(p) /\ Throw(p)
     \/ /\ applyPhase # "none" /\ ~AllApplied(loc[p].mem) /\ summary # NoSummary
        /\ Jump(p, "c3") /\ UNCHANGED sessLock
  /\ UNCHANGED <<txVars, applyVars, abortVars, txLock, dataVars, sess>>

\* ... and saves the record and the cleared pointer before it unlocks.
StageCSave(p) ==
  /\ pc[p] = "c3"
  /\ sess' = [loc[p].mem EXCEPT !.recs = @ \cup {"applied"}, !.active = FALSE]
  /\ loc' = [loc EXCEPT ![p].mem = sess'] /\ ReleaseSess(p) /\ Goto(p, "c4")
  /\ UNCHANGED <<txVars, applyVars, abortVars, txLock, dataVars>>

StageCFinalize(p) ==
  /\ pc[p] = "c4" /\ txLock = Free
  /\ \/ /\ applyPhase = "none" /\ Done(p) /\ UNCHANGED <<applyPhase, txLock>>
     \/ /\ applyPhase # "none" /\ applyPhase' = "apply-finalized"
        /\ AcquireTx(p) /\ Jump(p, "c5")
  /\ UNCHANGED <<txVars, written, ghost, abortVars, sessLock, dataVars, sess>>

StageCState(p) ==
  /\ pc[p] = "c5"
  /\ txState' = "applied" /\ ReleaseTx(p) /\ Done(p)
  /\ UNCHANGED <<blocking, overrides, summary, checked, applyVars, abortVars,
                 sessLock, dataVars, sess>>

-----------------------------------------------------------------------------
(* abortTx = decideAbort; the optional restore; runAbortWritePhase.        *)

\* The rules of AB0 / AB3a and of AB0a / AB3a.5: no abort of an apply in
\* flight, and exactly one flag when the transaction is applied-partial.
MayAbort(flag) ==
  /\ applyPhase \notin InFlight
  /\ (txState = "applied-partial") <=> (flag # "none")

AllAborted(s) == /\ txState = "aborted" /\ abortPhase = "aborted"
                 /\ ~s.active /\ "aborted" \in s.recs

\* The unlocked fast-fail checks.  Only the tx command passes the two flags.
AbortFastCheck(p) ==
  /\ pc[p] = "ready" /\ txState # "absent"
  /\ \E flag \in Flag :
       /\ MayAbort(flag) /\ (flag # "none" => loc[p].mode = "command")
       /\ loc' = [loc EXCEPT ![p].flag = flag]
  /\ Goto(p, "ab1")
  /\ UNCHANGED <<txVars, applyVars, abortVars, lockVars, dataVars, sess>>

\* The same checks under the lock, and AB3b against the session in memory.
\* The partial reasons need the snapshot id that apply-progress holds.
AbortDecide(p) ==
  /\ pc[p] = "ab1" /\ txLock = Free
  /\ \/ ~MayAbort(loc[p].flag) /\ Throw(p)
     \/ MayAbort(loc[p].flag) /\ AllAborted(loc[p].mem) /\ Done(p)
     \/ /\ MayAbort(loc[p].flag) /\ ~AllAborted(loc[p].mem)
        /\ loc[p].flag # "none" /\ applyPhase = "none" /\ Throw(p)
     \/ /\ MayAbort(loc[p].flag) /\ ~AllAborted(loc[p].mem)
        /\ loc[p].flag # "none" => applyPhase # "none"
        /\ Jump(p, IF loc[p].flag = "restore" /\ loc[p].mode # "recovering"
                   THEN "abRestore" ELSE "abWrite")
  /\ UNCHANGED <<txVars, applyVars, abortVars, lockVars, dataVars, sess>>

\* restoreWorkspaceCheckpoint: all files, or an error after some of them.
AbortRestore(p) ==
  /\ pc[p] = "abRestore"
  /\ \/ file' = ghost /\ Jump(p, "abWrite")
     \/ /\ \E part \in SUBSET File :
             file' = [f \in File |-> IF f \in part THEN ghost[f] ELSE file[f]]
        /\ Throw(p)
  /\ UNCHANGED <<txVars, applyVars, abortVars, lockVars, diff,
                 overlay, sess>>

\* Mutant: the session is locked and not read again.
AbortSession_Stale(p) ==
  /\ pc[p] = "abWrite" /\ AcquireSess(p) /\ UNCHANGED loc
  /\ Goto(p, IF "aborted" \in loc[p].mem.recs THEN "ab5" ELSE "ab4")
  /\ UNCHANGED <<txVars, applyVars, abortVars, txLock, dataVars, sess>>

\* mutateSession; AB4 is skipped when the record is there.
AbortSession(p) ==
  /\ pc[p] = "abWrite" /\ AcquireSess(p)
  /\ loc' = [loc EXCEPT ![p].mem = sess]
  /\ Goto(p, IF "aborted" \in sess.recs THEN "ab5" ELSE "ab4")
  /\ UNCHANGED <<txVars, applyVars, abortVars, txLock, dataVars, sess>>

AbortMark(p) ==
  /\ pc[p] = "ab4" /\ txLock = Free
  /\ \/ /\ abortPhase # "aborting"
        /\ abortPhase' = "aborting" /\ abortReason' = ReasonOf(loc[p].flag)
     \/ /\ abortPhase = "aborting" /\ UNCHANGED abortVars
  /\ Jump(p, "ab5")
  /\ UNCHANGED <<txVars, applyVars, lockVars, dataVars, sess>>

AbortSave(p) ==
  /\ pc[p] = "ab5"
  /\ sess' = [active |-> FALSE, recs |-> loc[p].mem.recs \cup {"aborted"},
              why |-> IF "aborted" \in loc[p].mem.recs THEN loc[p].mem.why
                      ELSE ReasonOf(loc[p].flag)]
  /\ loc' = [loc EXCEPT ![p].mem = sess'] /\ ReleaseSess(p) /\ Goto(p, "ab6")
  /\ UNCHANGED <<txVars, applyVars, abortVars, txLock, dataVars>>

AbortFinishProgress(p) ==
  /\ pc[p] = "ab6" /\ AcquireTx(p) /\ Jump(p, "ab7")
  /\ abortPhase' = IF abortPhase = "none" THEN "none" ELSE "aborted"
  /\ UNCHANGED <<txVars, applyVars, abortReason, sessLock, dataVars, sess>>

AbortFinishState(p) ==
  /\ pc[p] = "ab7"
  /\ txState' = "aborted" /\ ReleaseTx(p) /\ Done(p)
  /\ UNCHANGED <<blocking, overrides, summary, checked, applyVars, abortVars,
                 sessLock, dataVars, sess>>

-----------------------------------------------------------------------------
(* recoverAtStart: every command runs it before anything else.             *)

\* The actions scanForRecovery pushes for the transaction.
ScanApply == IF \/ applyPhase \in InFlight
                \/ applyPhase = "apply-finalized" /\ txState # "applied"
             THEN applyPhase ELSE "none"
\* Mutants: an interrupted abort is skipped, or only its state is finished.
ScanAbort_Skip == IF abortPhase = "aborted" /\ txState # "aborted"
                  THEN "aborted-finalize" ELSE "none"
ScanAbort_StateOnly == IF abortPhase # "none" /\ txState # "aborted"
                       THEN "aborted-finalize" ELSE "none"

ScanAbort == IF abortPhase = "aborting" THEN "aborting"
             ELSE IF abortPhase = "aborted" /\ txState # "aborted"
             THEN "aborted-finalize" ELSE "none"

Start(p) ==
  /\ pc[p] = "idle"
  /\ loc' = [loc EXCEPT ![p] = Fresh("recovering", sess)]
  /\ Goto(p, "scan")
  /\ UNCHANGED <<txVars, applyVars, abortVars, lockVars, dataVars, sess>>

Scan(p) ==
  /\ pc[p] = "scan"
  /\ loc' = [loc EXCEPT ![p].apply = ScanApply, ![p].abort = ScanAbort,
                        ![p].resume = FlagOf(abortReason)]
  /\ Goto(p, "recover")
  /\ UNCHANGED <<txVars, applyVars, abortVars, lockVars, dataVars, sess>>

\* recoverApply on apply-committed: Stage C again, if the phase still is that.
RecoverCommitted(p) ==
  /\ pc[p] = "recover" /\ loc[p].apply = "apply-committed"
  /\ loc' = [loc EXCEPT ![p].apply = "none"]
  /\ Goto(p, IF applyPhase = "apply-committed" THEN "c0" ELSE "recover")
  /\ UNCHANGED <<txVars, applyVars, abortVars, lockVars, dataVars, sess>>

\* The other phases: what happens depends on the phase found under the lock.
RecoverApply(p) ==
  /\ pc[p] = "recover" /\ loc[p].apply \notin {"none", "apply-committed"}
  /\ txLock = Free
  /\ loc' = [loc EXCEPT ![p].apply = "none"]
  /\ \/ /\ applyPhase = "apply-pending" /\ applyPhase' = "none"
        /\ UNCHANGED <<txState, txLock, pc>>
     \/ /\ applyPhase = "apply-writing" /\ txState' = "applied-partial"
        /\ AcquireTx(p) /\ Goto(p, "rw") /\ UNCHANGED applyPhase
     \/ /\ applyPhase = "apply-finalized" /\ txState' = "applied"
        /\ UNCHANGED <<applyPhase, txLock, pc>>
     \/ /\ applyPhase \in {"none", "apply-committed", "apply-failed-partial"}
        /\ UNCHANGED <<txState, applyPhase, txLock, pc>>
  /\ UNCHANGED <<blocking, overrides, summary, checked, written, ghost, abortVars,
                 sessLock, dataVars, sess>>

RecoverPartial(p) ==
  /\ pc[p] = "rw"
  /\ applyPhase' = "apply-failed-partial" /\ ReleaseTx(p) /\ Jump(p, "recover")
  /\ UNCHANGED <<txVars, written, ghost, abortVars, sessLock, dataVars, sess>>

\* recoverAbort on "aborting": decideAbort with the flag the reason implies;
\* its rejection propagates out of recoverAtStart.
RecoverAborting(p) ==
  /\ pc[p] = "recover" /\ loc[p].apply = "none" /\ loc[p].abort = "aborting"
  /\ \/ /\ MayAbort(loc[p].resume) /\ Goto(p, "ab1")
        /\ loc' = [loc EXCEPT ![p].abort = "none", ![p].flag = loc[p].resume]
     \/ ~MayAbort(loc[p].resume) /\ Throw(p)
  /\ UNCHANGED <<txVars, applyVars, abortVars, lockVars, dataVars, sess>>

RecoverAborted(p) ==
  /\ pc[p] = "recover" /\ loc[p].apply = "none"
  /\ loc[p].abort = "aborted-finalize" /\ txLock = Free
  /\ loc' = [loc EXCEPT ![p].abort = "none"]
  /\ txState' = "aborted"
  /\ UNCHANGED <<blocking, overrides, summary, checked, applyVars, abortVars,
                 lockVars, pc, dataVars, sess>>

\* The command line continues with one tx command, or with the turn runner.
RecoverDone(p) ==
  /\ pc[p] = "recover" /\ loc[p].apply = "none" /\ loc[p].abort = "none"
  /\ \E mode \in {"command", "runner"} :
       loc' = [loc EXCEPT ![p] = Fresh(mode, loc[p].mem)]
  /\ Goto(p, "ready")
  /\ UNCHANGED <<txVars, applyVars, abortVars, lockVars, dataVars, sess>>

-----------------------------------------------------------------------------
(* Failures, the end of a command, and the world outside cliq.             *)

Exit(p) ==
  /\ pc[p] = "ready" /\ Return(p, loc[p].mem, "idle")
  /\ UNCHANGED <<txVars, applyVars, abortVars, lockVars, dataVars, sess>>

\* A killed process leaves its lock directories behind ...
Crash(p) ==
  /\ pc[p] # "idle" /\ Return(p, loc[p].mem, "idle")
  /\ txLock' = IF txLock = p THEN Dead ELSE txLock
  /\ sessLock' = IF sessLock = p THEN Dead ELSE sessLock
  /\ UNCHANGED <<txVars, applyVars, abortVars, dataVars, sess>>

\* ... until a waiter finds their lease stale (removeStaleLock).
ExpireLock ==
  /\ txLock = Dead \/ sessLock = Dead
  /\ txLock' = IF txLock = Dead THEN Free ELSE txLock
  /\ sessLock' = IF sessLock = Dead THEN Free ELSE sessLock
  /\ UNCHANGED <<txVars, applyVars, abortVars, procVars, dataVars, sess>>

\* An exception unwinds the operation; withPathLock releases in its finally.
Unwind(p) ==
  /\ ReleaseTx(p) /\ ReleaseSess(p)
  /\ Throw(p)
  /\ UNCHANGED <<txVars, applyVars, abortVars, dataVars, sess>>

\* A read or write of one of the transaction's own files fails.
IoError(p) == pc[p] \notin {"idle", "ready"} /\ Unwind(p)

\* Mutant: only the session lock has a timeout.
LockTimeout_SessionOnly(p) ==
  /\ pc[p] \in WaitsSess /\ sessLock # Free
  /\ Unwind(p)

\* A waiter gives up after LOCK_TIMEOUT_MS.
LockTimeout(p) ==
  /\ \/ pc[p] \in WaitsTx /\ txLock # Free
     \/ pc[p] \in WaitsSess /\ sessLock # Free
     \/ /\ pc[p] = "recover" /\ txLock # Free
        /\ \/ loc[p].apply \notin {"none", "apply-committed"}
           \/ loc[p].apply = "none" /\ loc[p].abort = "aborted-finalize"
  /\ Unwind(p)

\* An editor or a git command changes a workspace file.
ExternalEdit(f) ==
  /\ file' = [file EXCEPT ![f] = -1]
  /\ UNCHANGED <<txVars, applyVars, abortVars, lockVars, procVars, diff, overlay, sess>>

-----------------------------------------------------------------------------
Pipeline(p) == \/ OpenTx(p) \/ OpenSession(p) \/ StageEdit(p) \/ SaveSession(p)
               \/ FinalizeCompute(p) \/ FinalizeWriteDiff(p) \/ FinalizeCommit(p)
               \/ ValidateRun(p) \/ ValidateCommit(p)
               \/ ApproveDecide(p) \/ ApproveCommit(p)
Apply(p) == \/ StageACheck(p) \/ StageAPending(p) \/ StageBStart(p)
            \/ StageBVerify(p) \/ StageBWrite(p) \/ StageBRecord(p)
            \/ StageBCommit(p) \/ StageBPartialState(p) \/ StageBPartialProgress(p)
            \/ StageCSession(p) \/ StageCDecide(p) \/ StageCSave(p)
            \/ StageCFinalize(p) \/ StageCState(p)
Abort(p) == \/ AbortFastCheck(p) \/ AbortDecide(p) \/ AbortRestore(p)
            \/ AbortSession(p) \/ AbortMark(p) \/ AbortSave(p)
            \/ AbortFinishProgress(p) \/ AbortFinishState(p)
Recover(p) == \/ Scan(p) \/ RecoverCommitted(p) \/ RecoverApply(p)
              \/ RecoverPartial(p) \/ RecoverAborting(p) \/ RecoverAborted(p)
              \/ RecoverDone(p)
Step(p) == Pipeline(p) \/ Apply(p) \/ Abort(p) \/ Recover(p)
ProcStep(p) == \/ Step(p) \/ Start(p) \/ Exit(p) \/ Crash(p)
               \/ IoError(p) \/ LockTimeout(p)

Next == \/ \E p \in Proc : ProcStep(p)
        \/ ExpireLock
        \/ \E f \in File : ExternalEdit(f)

Spec == Init /\ [][Next]_vars

\* A running operation keeps going: it takes its next step, or its wait for a
\* lock times out.  Starting a command or a new operation is the user's choice.
Advance(p) == pc[p] # "ready" /\ (Step(p) \/ LockTimeout(p))
Fairness == \A p \in Proc : WF_vars(Advance(p))
FairSpec == Spec /\ Fairness

-----------------------------------------------------------------------------
(* Properties.                                                             *)

TypeOK ==
  /\ txState \in TxState /\ blocking \in SUBSET Validator
  /\ overrides \in SUBSET Validator /\ summary \in {NoSummary} \cup Version
  /\ checked \in Version /\ diff \in Diff /\ overlay \in Version
  /\ applyPhase \in ApplyPhase /\ written \in SUBSET File
  /\ ghost \in [File -> Content]
  /\ abortPhase \in AbortPhase /\ abortReason \in Reason
  /\ sess \in Session /\ file \in [File -> Content]
  /\ txLock \in Proc \cup {Free, Dead} /\ sessLock \in Proc \cup {Free, Dead}
  /\ pc \in [Proc -> PC] /\ loc \in [Proc -> Local]

\* Stage B stays inside its plan: the file it verified, wrote and is about to
\* record exists.
PosInRange ==
  \A p \in Proc : pc[p] \in {"b3b", "b4"} => loc[p].pos < Planned(loc[p].diff)

\* A blocking validator failure reaches neither the approval nor the workspace
\* without an override: approveTx compares the failures it read before it took
\* the tx lock, while other processes validate, approve and abort.
ApprovedIsCovered ==
  txState \in {"approved", "applied", "applied-partial"} => blocking \subseteq overrides

\* What the workspace may hold of the transaction, whatever was edited outside:
\* all that its plan gives the files, recorded as written; or nothing.
Planted == written = 1..Planned(diff) /\ \A f \in written : file[f] \in {-1, diff.new}
Clean   == \A f \in File : file[f] \in {-1, 0}

\* Stage C writes state.json last: a transaction that says "applied" has its
\* whole plan in the workspace, its tx-applied record in the session, the active
\* pointer cleared and its progress finalized, whatever crashed.
AppliedIsComplete ==
  txState = "applied" =>
    /\ applyPhase = "apply-finalized" /\ Planted
    /\ "applied" \in sess.recs /\ ~sess.active

\* An aborted transaction leaves none of its content in the workspace, unless
\* the operator kept a partial apply or the apply had been completed before.
AbortedIsClean ==
  /\ txState = "aborted" /\ "applied" \notin sess.recs
  /\ sess.why # "apply-failed-partial-kept"
  => Clean

\* A partial apply keeps the progress file that names its ghost snapshot, so
\* that abort --restore-confirmed and --keep-partial remain possible.
PartialKeepsSnapshot == txState = "applied-partial" => applyPhase # "none"

\* The audit record and abort-progress.json give the same reason.
ReasonsAgree == "aborted" \in sess.recs /\ abortPhase # "none" => sess.why = abortReason

\* state.json, the progress files, the session and the workspace tell the same
\* story of a transaction after any sequence of crashes, failures and recoveries.
OutcomeMatchesFiles ==
  AppliedIsComplete /\ AbortedIsClean /\ PartialKeepsSnapshot /\ ReasonsAgree

\* Where an apply may have ended: it left the workspace alone; all of its plan is
\* there, and state.json says so (or that it was aborted later); or it stopped
\* half-way, and the snapshot that a restore goes back to has none of it.
ApplySettled ==
  \/ /\ applyPhase = "none" /\ Clean
     /\ txState \notin {"applied", "applied-partial"}
  \/ /\ applyPhase = "apply-finalized" /\ Planted
     /\ txState \in {"applied", "aborted"}
  \/ /\ applyPhase = "apply-failed-partial" /\ \A f \in File : ghost[f] \in {-1, 0}
     /\ txState \in {"applied-partial", "aborted"}

\* Recovery closes every interrupted apply and abort: once a process leaves
\* recoverAtStart for its command, no abort is half done, and the apply is
\* settled in the progress file, in state.json and in the workspace alike.
RecoverySettles ==
  [][\A p \in Proc : pc[p] = "recover" /\ pc'[p] = "ready"
       => ApplySettled /\ abortPhase # "aborting"]_vars

\* The session file is an append-only audit: a record that is in it stays, as
\* long as turns do not overlap, although every tx command saves a whole session.
RecordsStay == [][sess.recs \subseteq sess'.recs]_vars

\* Write-ahead audit: state.json shows an outcome only after the session file
\* has its record, whichever processes apply, abort and recover at once.
OutcomeIsRecorded ==
  /\ txState = "applied" => "applied" \in sess.recs
  /\ txState = "aborted" => "aborted" \in sess.recs

\* Every operation ends: session lock before tx lock, and a wait that times
\* out, leave no process stuck behind another one or behind a dead one.
OperationEnds ==
  \A p \in Proc : pc[p] \notin {"idle", "ready"} ~> pc[p] \in {"idle", "ready"}
=============================================================================
