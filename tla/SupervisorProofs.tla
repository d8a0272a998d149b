-------------------------- MODULE SupervisorProofs --------------------------
(* What the installed scheduler keeps for any number of Runs, turns, faults  *)
(* and owners.  The effects follow from where the lane is: a step of the     *)
(* lane relies on what an earlier one checked, so the invariant says, for    *)
(* each place of the lane, what it has left of the Run it drives.            *)
EXTENDS Supervisor, FiniteSetTheorems, SequenceTheorems, TLAPS

\* ---- the inductive invariant -------------------------------------------------

Status == {"absent", "queued", "running", "waiting", "ended"}
Phases == {"none", "prepared", "claimed", "failed", "refunded", "unknown", "candidate", "unusable"}
Lanes == {"idle", "drive", "toolFinish", "settleClosure", "settle", "fence", "recover", "retire",
          "stop", "activate", "activating", "toolPrepare", "toolClaim", "toolRelease", "toolAwait",
          "modelStop", "prepare", "transport", "ready", "claim", "connect", "send", "await",
          "dispatchClosure"}

RunRow == [status : Status, stop : BOOLEAN, next : {"agent", "tool"}, turn : Nat]
ModelRow == [phase : Phases, epoch : Nat]

\* Every row, and all that the process holds, is what it should be.
RowsOK ==
    /\ run \in [Run -> RunRow]
    /\ worker \in [Run -> {"none", "preparing", "active", "fenced", "quarantined"}]
    /\ model \in [Run -> ModelRow]
    /\ tool \in [Run -> {"none", "prepared", "claimed", "unknown"}]
WorldOK ==
    /\ net \subseteq Run /\ done \in [Run -> Nat]
    /\ owner \in [epoch : Nat, state : {"active", "released", "dead"}]
MemOK ==
    /\ tasks \in Seq(Run) /\ lane \in Lanes
    /\ trans \in [Run -> {"none", "preparing", "open", "closed"}]
    /\ kept \in [Run -> {"none", "closure", "completion", "tool"}]
    /\ owns \subseteq Run /\ adm \in [Run -> {"none", "begun", "admitted"}]
SupervisorTyped == RowsOK /\ WorldOK /\ MemOK

FlagsOK == flags \in [closing : BOOLEAN, failed : BOOLEAN, timer : {"unstarted", "armed", "off"}]

\* A place of the lane has a task; nothing is driven before the start, and an
\* owner that is gone holds nothing.
LaneHasTask ==
    /\ tasks = <<>> => lane = "idle"
    /\ flags.timer = "unstarted" /\ Up => tasks = <<>>
    /\ ~Up => /\ tasks = <<>> /\ owns = {}
              /\ \A r \in Run : kept[r] = "none" /\ trans[r] = "none" /\ adm[r] = "none"

\* The frontier of a Run is a model attempt or a tool call; what it has sent is
\* an effect of that one alone, and what is kept belongs to the open claim.
Frontier(r) ==
    /\ tool[r] # "none" => run[r].next = "tool"
    /\ run[r].next = "tool" => model[r].phase = "none"
    /\ run[r].status \in {"absent", "queued"} => tool[r] = "none"
    /\ kept[r] \in {"closure", "completion"} => model[r].phase = "claimed"
    /\ kept[r] = "tool" => tool[r] = "claimed"

Sent(r) ==
    /\ done[r] <= 1
    /\ model[r].phase \in {"none", "prepared", "failed", "refunded"} => r \notin net
    /\ r \notin net /\ tool[r] \in {"none", "prepared"} => done[r] = 0

\* A tool call that is under way is at its place in the lane or kept, as long as
\* the worker that it runs in is held.
ToolHasPlace(r) ==
    run[r].status = "running" /\ r \in owns /\ tool[r] # "none" =>
        \/ kept[r] = "tool"
        \/ tasks # <<>> /\ lane \in {"toolClaim", "toolRelease", "toolAwait"} /\ r = cur

\* What the lane has left of the Run r that it drives, by where it is.
PlaceOf(at, r) ==
    /\ at = "fence" => run[r].status = "running" /\ r \notin owns
    /\ at \in {"retire", "activate", "activating"} => run[r].status = "queued"
    /\ at = "activate" => installedWorkerSlotAvailable(r)
    /\ at = "activating" => worker[r] = "preparing"
    /\ at = "prepare" => run[r].next = "agent" /\ model[r].phase \in {"none", "failed"}
    /\ at \in {"transport", "ready", "claim"} => model[r].phase = "prepared"
    /\ at \in {"connect", "send", "await"} => model[r].phase = "claimed"
    /\ at = "connect" => r \notin net
    /\ at \in {"send", "await"} => r \in net
    /\ at = "send" => done[r] = 0
    /\ at = "toolPrepare" => /\ run[r].status = "running" /\ run[r].next = "tool"
                             /\ tool[r] = "none"
    /\ at = "toolClaim" => tool[r] = "prepared"
    /\ at \in {"toolRelease", "toolAwait"} => tool[r] = "claimed"
    /\ at = "toolRelease" => done[r] = 0
    /\ at \in {"settleClosure", "dispatchClosure"} => kept[r] = "closure"
    /\ at = "settle" => kept[r] = "completion"
    /\ at = "toolFinish" => kept[r] = "tool"
    /\ at \in {"fence", "recover", "retire", "stop", "activate", "activating", "toolPrepare",
                 "toolClaim", "toolRelease", "toolAwait", "modelStop", "prepare", "transport",
                 "ready", "claim", "connect", "send", "await"} => kept[r] = "none"
Place == PlaceOf(lane, cur)

\* A running Run has the active worker, and the slot has one holder.
Holds(r) == worker[r] \in {"preparing", "active", "fenced"}
SlotInv ==
    /\ \A r \in Run : run[r].status = "running" => worker[r] = "active"
    /\ \A r, s \in Run : Holds(r) /\ Holds(s) => r = s

PlaceInv == tasks # <<>> => Place
FrontierInv == \A r \in Run : Frontier(r)
SentInv == \A r \in Run : Sent(r)
ToolInv == \A r \in Run : ToolHasPlace(r)

\* An admission that has begun is of a Run without a row, and the lane is at no
\* place of such a Run.
AdmissionInv ==
    /\ \A r \in Run : adm[r] = "begun" => run[r].status = "absent"
    /\ tasks # <<>> /\ lane \notin {"idle", "drive"} => run[cur].status # "absent"

SupervisorInv ==
    /\ SupervisorTyped /\ FlagsOK /\ LaneHasTask /\ AdmissionInv
    /\ FrontierInv /\ SentInv /\ ToolInv /\ PlaceInv /\ SlotInv

\* ---- types -----------------------------------------------------------------------

USE SupervisorAssumption

LEMMA Sequenced == ASSUME NEW S \in SUBSET Run PROVE SetToSeq(S) \in Seq(Run)
<1>1. IsFiniteSet(S)
  BY FS_Subset
<1>2. PICK n \in Nat : ExistsBijection(1..n, S)
  BY <1>1, FS_NatBijection
<1>3. Cardinality(S) = n
  BY <1>1, <1>2, FS_CountingElements
<1>4. PICK f \in Bijection(1..n, S) : TRUE
  BY <1>2 DEF ExistsBijection
<1>5. f \in [1..n -> S] /\ IsInjective(f)
  BY <1>4 DEF Bijection, Injection, IsInjective
<1>6. SetToSeq(S) \in [1..n -> S]
  BY <1>3, <1>5 DEF SetToSeq
<1> QED
  BY <1>6

\* What a step writes into the row of one Run leaves every row a row.
LEMMA RunWritten ==
  ASSUME NEW f \in [Run -> RunRow], NEW c \in Run
  PROVE  /\ \A s \in Status : [f EXCEPT ![c].status = s] \in [Run -> RunRow]
         /\ [f EXCEPT ![c].stop = TRUE] \in [Run -> RunRow]
         /\ [f EXCEPT ![c].turn = @ + 1] \in [Run -> RunRow]
         /\ [f EXCEPT ![c].turn = @] \in [Run -> RunRow]
         /\ \A t \in Nat : [f EXCEPT ![c].turn = t] \in [Run -> RunRow]
         /\ [f EXCEPT ![c].next = "tool"] \in [Run -> RunRow]
         /\ [f EXCEPT ![c].next = "agent", ![c].status = "queued"] \in [Run -> RunRow]
<1>1. \A r \in RunRow : /\ \A s \in Status : [r EXCEPT !.status = s] \in RunRow
                        /\ [r EXCEPT !.stop = TRUE] \in RunRow
                        /\ \A t \in Nat : [r EXCEPT !.turn = t] \in RunRow
                        /\ \A n \in {"agent", "tool"} : [r EXCEPT !.next = n] \in RunRow
                        /\ r.turn \in Nat
  BY DEF RunRow
<1>2. \A r \in RunRow : [f EXCEPT ![c] = r] \in [Run -> RunRow]
  OBVIOUS
<1>3. "queued" \in Status /\ f[c] \in RunRow
  BY DEF Status
<1>4. \A n \in Nat : n + 1 \in Nat
  OBVIOUS
<1>5. [[f EXCEPT ![c].next = "agent"] EXCEPT ![c].status = "queued"] \in [Run -> RunRow]
  <2>1. PICK g \in [Run -> RunRow] : g = [f EXCEPT ![c].next = "agent"]
    BY <1>1, <1>2, <1>3
  <2>2. [g EXCEPT ![c].status = "queued"] \in [Run -> RunRow]
    <3>1. \A r \in RunRow : [g EXCEPT ![c] = r] \in [Run -> RunRow]
      OBVIOUS
    <3>2. g[c] \in RunRow
      OBVIOUS
    <3> QED
      BY <1>1, <1>3, <3>1, <3>2
  <2> QED
    BY <2>1, <2>2
<1> QED
  BY <1>1, <1>2, <1>3, <1>4, <1>5

LEMMA ModelWritten ==
  ASSUME NEW f \in [Run -> ModelRow], NEW c \in Run
  PROVE  /\ \A p \in Phases : [f EXCEPT ![c].phase = p] \in [Run -> ModelRow]
         /\ \A r \in ModelRow : [f EXCEPT ![c] = r] \in [Run -> ModelRow]
         /\ NoModel \in ModelRow
         /\ \A n \in Nat : \A p \in Phases : [phase |-> p, epoch |-> n] \in ModelRow
         /\ \A p \in Phases : [f[c] EXCEPT !.phase = p] \in ModelRow
BY DEF ModelRow, NoModel, Phases

\* A lost operation leaves a row of its Run and of its worker.
LEMMA LostTyped ==
  ASSUME NEW r \in Run, RowsOK, Lost(r)
  PROVE  /\ run' \in [Run -> RunRow]
         /\ worker' \in [Run -> {"none", "preparing", "active", "fenced", "quarantined"}]
<1>1. run[r].status \in Status /\ "waiting" \in Status
  BY DEF RowsOK, RunRow, Status
<1>2. PICK s \in Status : run' = [run EXCEPT ![r].status = s]
  BY <1>1 DEF Lost, RowsOK
<1>3. run' \in [Run -> RunRow]
  BY <1>2, RunWritten DEF RowsOK
<1>4. worker' \in [Run -> {"none", "preparing", "active", "fenced", "quarantined"}]
  BY DEF Lost, RowsOK
<1> QED
  BY <1>3, <1>4

\* What was received is settled in rows that are rows.
LEMMA CompletedTyped ==
  ASSUME NEW r \in Run, RowsOK, WorldOK, MemOK, completeModel(r)
  PROVE  /\ model' \in [Run -> ModelRow] /\ run' \in [Run -> RunRow]
         /\ net' \subseteq Run /\ done' \in [Run -> Nat]
         /\ kept' \in [Run -> {"none", "closure", "completion", "tool"}]
<1>1. model' \in [Run -> ModelRow]
  <2>1. \/ \E p \in Phases : model' = [model EXCEPT ![r].phase = p]
        \/ model' = [model EXCEPT ![r] = NoModel]
    BY DEF completeModel, Phases
  <2> QED
    BY <2>1, ModelWritten DEF RowsOK
<1>2. run' \in [Run -> RunRow]
  <2>1. run' = run \/ run' = [run EXCEPT ![r].next = "tool"]
    BY DEF completeModel
  <2>2. run \in [Run -> RunRow]
    BY DEF RowsOK
  <2>3. [run EXCEPT ![r].next = "tool"] \in [Run -> RunRow]
    BY <2>2, RunWritten
  <2> QED
    BY <2>1, <2>2, <2>3
<1>3. net' \subseteq Run /\ done' \in [Run -> Nat]
  <2>1. /\ net' = net \/ net' = net \ {r}
        /\ done' = done \/ done' = [done EXCEPT ![r] = 0]
    BY DEF completeModel
  <2> QED
    BY <2>1 DEF WorldOK
<1>4. kept' \in [Run -> {"none", "closure", "completion", "tool"}]
  BY DEF completeModel, MemOK
<1> QED
  BY <1>1, <1>2, <1>3, <1>4

LEMMA FinishedTyped ==
  ASSUME NEW r \in Run, RowsOK, WorldOK, MemOK, finished(r)
  PROVE  /\ run' \in [Run -> RunRow] /\ done' \in [Run -> Nat]
         /\ worker' \in [Run -> {"none", "preparing", "active", "fenced", "quarantined"}]
         /\ tool' \in [Run -> {"none", "prepared", "claimed", "unknown"}]
         /\ kept' \in [Run -> {"none", "closure", "completion", "tool"}]
         /\ owns' \subseteq Run
<1>1. run' \in [Run -> RunRow]
  BY RunWritten DEF finished, RowsOK
<1>2. done' \in [Run -> Nat]
  BY DEF finished, WorldOK
<1> QED
  BY <1>1, <1>2 DEF finished, RowsOK, MemOK

\* The task of the lane, and the tasks after it.
LEMMA Driven ==
  ASSUME SupervisorTyped, tasks # <<>>
  PROVE  cur \in Run /\ Tail(tasks) \in Seq(Run)
<1>1. tasks \in Seq(Run)
  BY DEF SupervisorTyped, MemOK
<1> QED
  BY <1>1 DEF cur

LEMMA Scheduled ==
  ASSUME SupervisorTyped, NEW r \in Run
  PROVE  /\ scheduled(tasks, r) \in Seq(Run)
         /\ tasks # <<>> => scheduled(tasks, r) # <<>> /\ Head(scheduled(tasks, r)) = cur
<1>1. tasks \in Seq(Run)
  BY DEF SupervisorTyped, MemOK
<1>2. Append(tasks, r) \in Seq(Run) /\ Append(tasks, r) # <<>>
  BY <1>1, AppendProperties
<1>3. tasks # <<>> => Head(Append(tasks, r)) = Head(tasks)
  BY <1>1
<1> QED
  BY <1>1, <1>2, <1>3 DEF scheduled, cur

LEMMA LaneTyped == ASSUME SupervisorTyped, Lane PROVE SupervisorTyped'
<1>1. tasks # <<>>
  BY DEF Lane, At, driveInstalledRun, ownOperation, fence, recoverWorker, recoverRefused, resumeCurrentRetirement, finishCurrentStop, activateWorker, activateWorkerLease, stopForModelFailure, prepareModel, prepareModelTransport, transportReady, transportRefused, claimInvocationDispatch, claimRefused, connect, releaseBody, response, dispatchFails, settleInstalledModelClosure, settleInstalledModelCompletion, prepareTool, claimTool, releaseTool, toolResult, toolLost, finishTool
<1>2. cur \in Run /\ Tail(tasks) \in Seq(Run) /\ tasks \in Seq(Run)
  BY <1>1, Driven DEF SupervisorTyped, MemOK
<1>t. RowsOK /\ owner.epoch \in Nat
  BY DEF SupervisorTyped, WorldOK
<1>r. /\ \A s \in Status : [run EXCEPT ![cur].status = s] \in [Run -> RunRow]
      /\ [run EXCEPT ![cur].stop = TRUE] \in [Run -> RunRow]
      /\ [run EXCEPT ![cur].turn = @ + 1] \in [Run -> RunRow]
      /\ [run EXCEPT ![cur].turn = @] \in [Run -> RunRow]
      /\ \A t \in Nat : [run EXCEPT ![cur].turn = t] \in [Run -> RunRow]
      /\ [run EXCEPT ![cur].next = "tool"] \in [Run -> RunRow]
      /\ [run EXCEPT ![cur].next = "agent", ![cur].status = "queued"] \in [Run -> RunRow]
  BY <1>2, <1>t, RunWritten DEF RowsOK
<1>m. /\ \A p \in Phases : [model EXCEPT ![cur].phase = p] \in [Run -> ModelRow]
      /\ \A r \in ModelRow : [model EXCEPT ![cur] = r] \in [Run -> ModelRow]
      /\ NoModel \in ModelRow
      /\ \A n \in Nat : \A p \in Phases : [phase |-> p, epoch |-> n] \in ModelRow
      /\ \A p \in Phases : [model[cur] EXCEPT !.phase = p] \in ModelRow
  BY <1>2, <1>t, ModelWritten DEF RowsOK
<1>3. CASE driveInstalledRun
  <2>1. RowsOK'
    BY <1>2, <1>t, <1>r, <1>m, <1>3 DEF Status, Phases, RowsOK, rows, driveInstalledRun, At, Go, Ends, retireInstalledTerminalRun, Calm, Fault, cur
  <2>2. WorldOK'
    BY <1>2, <1>3 DEF SupervisorTyped, WorldOK, driveInstalledRun, Calm, Fault, cur
  <2>3. MemOK'
    BY <1>2, <1>3 DEF SupervisorTyped, MemOK, Lanes, driveInstalledRun, At, Go, Ends, retireInstalledTerminalRun, Calm, Fault, cur, choice
  <2> QED
    BY <2>1, <2>2, <2>3 DEF SupervisorTyped
<1>4. CASE ownOperation
  <2>1. RowsOK'
    <3>1. run' \in [Run -> RunRow]
      BY <1>2, <1>t, <1>4, LostTyped DEF ownOperation
    <3>2. worker' \in [Run -> {"none", "preparing", "active", "fenced", "quarantined"}]
      BY <1>2, <1>t, <1>4, LostTyped DEF ownOperation
    <3>3. model' \in [Run -> ModelRow]
      BY <1>2, <1>t, <1>r, <1>m, <1>4 DEF Status, Phases, RowsOK, rows, ownOperation, Lost, At, Go, Ends, retireInstalledTerminalRun, Calm, Fault, cur
    <3>4. tool' \in [Run -> {"none", "prepared", "claimed", "unknown"}]
      BY <1>2, <1>t, <1>r, <1>m, <1>4 DEF Status, Phases, RowsOK, rows, ownOperation, Lost, At, Go, Ends, retireInstalledTerminalRun, Calm, Fault, cur
    <3> QED
      BY <3>1, <3>2, <3>3, <3>4 DEF RowsOK
  <2>2. WorldOK'
    BY <1>2, <1>4 DEF SupervisorTyped, WorldOK, ownOperation, Lost, Calm, Fault, cur
  <2>3. MemOK'
    BY <1>2, <1>4 DEF SupervisorTyped, MemOK, Lanes, ownOperation, Lost, At, Go, Ends, retireInstalledTerminalRun, Calm, Fault, cur
  <2> QED
    BY <2>1, <2>2, <2>3 DEF SupervisorTyped
<1>5. CASE fence
  <2>1. RowsOK'
    BY <1>2, <1>t, <1>r, <1>m, <1>5 DEF Status, Phases, RowsOK, rows, fence, At, Go, Ends, retireInstalledTerminalRun, Calm, Fault, cur
  <2>2. WorldOK'
    BY <1>2, <1>5 DEF SupervisorTyped, WorldOK, fence, Calm, Fault, cur
  <2>3. MemOK'
    BY <1>2, <1>5 DEF SupervisorTyped, MemOK, Lanes, fence, At, Go, Ends, retireInstalledTerminalRun, Calm, Fault, cur
  <2> QED
    BY <2>1, <2>2, <2>3 DEF SupervisorTyped
<1>6. CASE recoverWorker
  <2>1. RowsOK'
    <3>1. run' \in [Run -> RunRow]
      BY <1>2, <1>t, <1>r, <1>m, <1>6, ZenonT(40) DEF Status, Phases, RowsOK, rows, recoverWorker, At, Go, Ends, retireInstalledTerminalRun, Calm, Fault, cur
    <3>2. worker' \in [Run -> {"none", "preparing", "active", "fenced", "quarantined"}]
      BY <1>2, <1>t, <1>6 DEF RowsOK, recoverWorker
    <3>3. model' \in [Run -> ModelRow]
      BY <1>2, <1>t, <1>r, <1>m, <1>6 DEF Status, Phases, RowsOK, rows, recoverWorker, At, Go, Ends, retireInstalledTerminalRun, Calm, Fault, cur
    <3>4. tool' \in [Run -> {"none", "prepared", "claimed", "unknown"}]
      BY <1>2, <1>t, <1>r, <1>m, <1>6 DEF Status, Phases, RowsOK, rows, recoverWorker, At, Go, Ends, retireInstalledTerminalRun, Calm, Fault, cur
    <3> QED
      BY <3>1, <3>2, <3>3, <3>4 DEF RowsOK
  <2>2. WorldOK'
    BY <1>2, <1>6 DEF SupervisorTyped, WorldOK, recoverWorker, Calm, Fault, cur
  <2>3. MemOK'
    BY <1>2, <1>6 DEF SupervisorTyped, MemOK, Lanes, recoverWorker, At, Go, Ends, retireInstalledTerminalRun, Calm, Fault, cur
  <2> QED
    BY <2>1, <2>2, <2>3 DEF SupervisorTyped
<1>7. CASE recoverRefused
  <2>1. RowsOK'
    BY <1>2, <1>t, <1>r, <1>m, <1>7 DEF Status, Phases, RowsOK, rows, recoverRefused, At, Go, Ends, retireInstalledTerminalRun, Calm, Fault, cur
  <2>2. WorldOK'
    BY <1>2, <1>7 DEF SupervisorTyped, WorldOK, recoverRefused, Calm, Fault, cur
  <2>3. MemOK'
    BY <1>2, <1>7 DEF SupervisorTyped, MemOK, Lanes, recoverRefused, At, Go, Ends, retireInstalledTerminalRun, Calm, Fault, cur
  <2> QED
    BY <2>1, <2>2, <2>3 DEF SupervisorTyped
<1>8. CASE resumeCurrentRetirement
  <2>1. RowsOK'
    BY <1>2, <1>t, <1>r, <1>m, <1>8 DEF Status, Phases, RowsOK, rows, resumeCurrentRetirement, At, Go, Ends, retireInstalledTerminalRun, Calm, Fault, cur
  <2>2. WorldOK'
    BY <1>2, <1>8 DEF SupervisorTyped, WorldOK, resumeCurrentRetirement, Calm, Fault, cur
  <2>3. MemOK'
    BY <1>2, <1>8 DEF SupervisorTyped, MemOK, Lanes, resumeCurrentRetirement, At, Go, Ends, retireInstalledTerminalRun, Calm, Fault, cur
  <2> QED
    BY <2>1, <2>2, <2>3 DEF SupervisorTyped
<1>9. CASE finishCurrentStop
  <2>1. RowsOK'
    <3>1. run' \in [Run -> RunRow]
      BY <1>2, <1>t, <1>r, <1>m, <1>9 DEF Status, Phases, RowsOK, rows, finishCurrentStop, At, Go, Ends, retireInstalledTerminalRun, Calm, Fault, cur
    <3>2. worker' \in [Run -> {"none", "preparing", "active", "fenced", "quarantined"}]
      BY <1>2, <1>t, <1>9 DEF RowsOK, finishCurrentStop
    <3>3. model' \in [Run -> ModelRow]
      BY <1>2, <1>t, <1>r, <1>m, <1>9 DEF Status, Phases, RowsOK, rows, finishCurrentStop, At, Go, Ends, retireInstalledTerminalRun, Calm, Fault, cur
    <3>4. tool' \in [Run -> {"none", "prepared", "claimed", "unknown"}]
      BY <1>2, <1>t, <1>r, <1>m, <1>9 DEF Status, Phases, RowsOK, rows, finishCurrentStop, At, Go, Ends, retireInstalledTerminalRun, Calm, Fault, cur
    <3> QED
      BY <3>1, <3>2, <3>3, <3>4 DEF RowsOK
  <2>2. WorldOK'
    BY <1>2, <1>9 DEF SupervisorTyped, WorldOK, finishCurrentStop, Calm, Fault, cur
  <2>3. MemOK'
    BY <1>2, <1>9 DEF SupervisorTyped, MemOK, Lanes, finishCurrentStop, At, Go, Ends, retireInstalledTerminalRun, Calm, Fault, cur
  <2> QED
    BY <2>1, <2>2, <2>3 DEF SupervisorTyped
<1>10. CASE activateWorker
  <2>1. RowsOK'
    BY <1>2, <1>t, <1>r, <1>m, <1>10 DEF Status, Phases, RowsOK, rows, activateWorker, At, Go, Ends, retireInstalledTerminalRun, Calm, Fault, cur
  <2>2. WorldOK'
    BY <1>2, <1>10 DEF SupervisorTyped, WorldOK, activateWorker, Calm, Fault, cur
  <2>3. MemOK'
    BY <1>2, <1>10 DEF SupervisorTyped, MemOK, Lanes, activateWorker, At, Go, Ends, retireInstalledTerminalRun, Calm, Fault, cur
  <2> QED
    BY <2>1, <2>2, <2>3 DEF SupervisorTyped
<1>11. CASE activateWorkerLease
  <2>1. RowsOK'
    BY <1>2, <1>t, <1>r, <1>m, <1>11 DEF Status, Phases, RowsOK, rows, activateWorkerLease, At, Go, Ends, retireInstalledTerminalRun, Calm, Fault, cur
  <2>2. WorldOK'
    BY <1>2, <1>11 DEF SupervisorTyped, WorldOK, activateWorkerLease, Calm, Fault, cur
  <2>3. MemOK'
    BY <1>2, <1>11 DEF SupervisorTyped, MemOK, Lanes, activateWorkerLease, At, Go, Ends, retireInstalledTerminalRun, Calm, Fault, cur
  <2> QED
    BY <2>1, <2>2, <2>3 DEF SupervisorTyped
<1>12. CASE stopForModelFailure
  <2>1. RowsOK'
    BY <1>2, <1>t, <1>r, <1>m, <1>12 DEF Status, Phases, RowsOK, rows, stopForModelFailure, At, Go, Ends, retireInstalledTerminalRun, Calm, Fault, cur
  <2>2. WorldOK'
    BY <1>2, <1>12 DEF SupervisorTyped, WorldOK, stopForModelFailure, Calm, Fault, cur
  <2>3. MemOK'
    BY <1>2, <1>12 DEF SupervisorTyped, MemOK, Lanes, stopForModelFailure, At, Go, Ends, retireInstalledTerminalRun, Calm, Fault, cur
  <2> QED
    BY <2>1, <2>2, <2>3 DEF SupervisorTyped
<1>13. CASE prepareModel
  <2>1. RowsOK'
    <3>1. run' \in [Run -> RunRow]
      BY <1>2, <1>t, <1>r, <1>m, <1>13 DEF Status, Phases, RowsOK, rows, prepareModel, At, Go, Ends, retireInstalledTerminalRun, Calm, Fault, cur
    <3>2. worker' \in [Run -> {"none", "preparing", "active", "fenced", "quarantined"}]
      BY <1>2, <1>t, <1>r, <1>m, <1>13 DEF Status, Phases, RowsOK, rows, prepareModel, At, Go, Ends, retireInstalledTerminalRun, Calm, Fault, cur
    <3>3. model' \in [Run -> ModelRow]
      <4>1. model' = model \/ model' = [model EXCEPT ![cur] = [phase |-> "prepared", epoch |-> 0]]
        BY <1>13 DEF prepareModel
      <4>2. [phase |-> "prepared", epoch |-> 0] \in ModelRow
        BY DEF ModelRow, Phases
      <4> QED
        BY <1>m, <1>t, <4>1, <4>2 DEF RowsOK
    <3>4. tool' \in [Run -> {"none", "prepared", "claimed", "unknown"}]
      BY <1>2, <1>t, <1>r, <1>m, <1>13 DEF Status, Phases, RowsOK, rows, prepareModel, At, Go, Ends, retireInstalledTerminalRun, Calm, Fault, cur
    <3> QED
      BY <3>1, <3>2, <3>3, <3>4 DEF RowsOK
  <2>2. WorldOK'
    BY <1>2, <1>13 DEF SupervisorTyped, WorldOK, prepareModel, Calm, Fault, cur
  <2>3. MemOK'
    BY <1>2, <1>13 DEF SupervisorTyped, MemOK, Lanes, prepareModel, At, Go, Ends, retireInstalledTerminalRun, Calm, Fault, cur
  <2> QED
    BY <2>1, <2>2, <2>3 DEF SupervisorTyped
<1>14. CASE prepareModelTransport
  <2>1. RowsOK'
    BY <1>2, <1>t, <1>r, <1>m, <1>14 DEF Status, Phases, RowsOK, rows, prepareModelTransport, At, Go, Ends, retireInstalledTerminalRun, Calm, Fault, cur
  <2>2. WorldOK'
    BY <1>2, <1>14 DEF SupervisorTyped, WorldOK, prepareModelTransport, Calm, Fault, cur
  <2>3. MemOK'
    BY <1>2, <1>14 DEF SupervisorTyped, MemOK, Lanes, prepareModelTransport, At, Go, Ends, retireInstalledTerminalRun, Calm, Fault, cur
  <2> QED
    BY <2>1, <2>2, <2>3 DEF SupervisorTyped
<1>15. CASE transportReady
  <2>1. RowsOK'
    BY <1>2, <1>t, <1>r, <1>m, <1>15 DEF Status, Phases, RowsOK, rows, transportReady, At, Go, Ends, retireInstalledTerminalRun, Calm, Fault, cur
  <2>2. WorldOK'
    BY <1>2, <1>15 DEF SupervisorTyped, WorldOK, transportReady, Calm, Fault, cur
  <2>3. MemOK'
    BY <1>2, <1>15 DEF SupervisorTyped, MemOK, Lanes, transportReady, At, Go, Ends, retireInstalledTerminalRun, Calm, Fault, cur
  <2> QED
    BY <2>1, <2>2, <2>3 DEF SupervisorTyped
<1>16. CASE transportRefused
  <2>1. RowsOK'
    BY <1>2, <1>t, <1>r, <1>m, <1>16 DEF Status, Phases, RowsOK, rows, transportRefused, failPreparation, At, Go, Ends, retireInstalledTerminalRun, Calm, Fault, cur
  <2>2. WorldOK'
    BY <1>2, <1>16 DEF SupervisorTyped, WorldOK, transportRefused, failPreparation, Calm, Fault, cur
  <2>3. MemOK'
    BY <1>2, <1>16 DEF SupervisorTyped, MemOK, Lanes, transportRefused, failPreparation, At, Go, Ends, retireInstalledTerminalRun, Calm, Fault, cur
  <2> QED
    BY <2>1, <2>2, <2>3 DEF SupervisorTyped
<1>17. CASE claimInvocationDispatch
  <2>1. RowsOK'
    BY <1>2, <1>t, <1>r, <1>m, <1>17 DEF Status, Phases, RowsOK, rows, claimInvocationDispatch, At, Go, Ends, retireInstalledTerminalRun, Calm, Fault, cur
  <2>2. WorldOK'
    BY <1>2, <1>17 DEF SupervisorTyped, WorldOK, claimInvocationDispatch, Calm, Fault, cur
  <2>3. MemOK'
    BY <1>2, <1>17 DEF SupervisorTyped, MemOK, Lanes, claimInvocationDispatch, At, Go, Ends, retireInstalledTerminalRun, Calm, Fault, cur
  <2> QED
    BY <2>1, <2>2, <2>3 DEF SupervisorTyped
<1>18. CASE claimRefused
  <2>1. RowsOK'
    BY <1>2, <1>t, <1>r, <1>m, <1>18 DEF Status, Phases, RowsOK, rows, claimRefused, failPreparation, At, Go, Ends, retireInstalledTerminalRun, Calm, Fault, cur
  <2>2. WorldOK'
    BY <1>2, <1>18 DEF SupervisorTyped, WorldOK, claimRefused, failPreparation, Calm, Fault, cur
  <2>3. MemOK'
    BY <1>2, <1>18 DEF SupervisorTyped, MemOK, Lanes, claimRefused, failPreparation, At, Go, Ends, retireInstalledTerminalRun, Calm, Fault, cur
  <2> QED
    BY <2>1, <2>2, <2>3 DEF SupervisorTyped
<1>19. CASE connect
  <2>1. RowsOK'
    BY <1>2, <1>t, <1>r, <1>m, <1>19 DEF Status, Phases, RowsOK, rows, connect, At, Go, Ends, retireInstalledTerminalRun, Calm, Fault, cur
  <2>2. WorldOK'
    BY <1>2, <1>19 DEF SupervisorTyped, WorldOK, connect, Calm, Fault, cur
  <2>3. MemOK'
    BY <1>2, <1>19 DEF SupervisorTyped, MemOK, Lanes, connect, At, Go, Ends, retireInstalledTerminalRun, Calm, Fault, cur
  <2> QED
    BY <2>1, <2>2, <2>3 DEF SupervisorTyped
<1>20. CASE releaseBody
  <2>1. RowsOK'
    BY <1>2, <1>t, <1>r, <1>m, <1>20 DEF Status, Phases, RowsOK, rows, releaseBody, At, Go, Ends, retireInstalledTerminalRun, Calm, Fault, cur
  <2>2. WorldOK'
    BY <1>2, <1>20 DEF SupervisorTyped, WorldOK, releaseBody, Calm, Fault, cur
  <2>3. MemOK'
    BY <1>2, <1>20 DEF SupervisorTyped, MemOK, Lanes, releaseBody, At, Go, Ends, retireInstalledTerminalRun, Calm, Fault, cur
  <2> QED
    BY <2>1, <2>2, <2>3 DEF SupervisorTyped
<1>21. CASE response
  <2>1. RowsOK'
    BY <1>2, <1>t, <1>r, <1>m, <1>21 DEF Status, Phases, RowsOK, rows, response, At, Go, Ends, retireInstalledTerminalRun, Calm, Fault, cur
  <2>2. WorldOK'
    BY <1>2, <1>21 DEF SupervisorTyped, WorldOK, response, Calm, Fault, cur
  <2>3. MemOK'
    BY <1>2, <1>21 DEF SupervisorTyped, MemOK, Lanes, response, At, Go, Ends, retireInstalledTerminalRun, Calm, Fault, cur
  <2> QED
    BY <2>1, <2>2, <2>3 DEF SupervisorTyped
<1>22. CASE dispatchFails
  <2>1. RowsOK'
    BY <1>2, <1>t, <1>r, <1>m, <1>22 DEF Status, Phases, RowsOK, rows, dispatchFails, At, Go, Ends, retireInstalledTerminalRun, Calm, Fault, cur
  <2>2. WorldOK'
    BY <1>2, <1>22 DEF SupervisorTyped, WorldOK, dispatchFails, Calm, Fault, cur
  <2>3. MemOK'
    BY <1>2, <1>22 DEF SupervisorTyped, MemOK, Lanes, dispatchFails, At, Go, Ends, retireInstalledTerminalRun, Calm, Fault, cur
  <2> QED
    BY <2>1, <2>2, <2>3 DEF SupervisorTyped
<1>23. CASE settleInstalledModelClosure
  <2>1. RowsOK'
    BY <1>2, <1>t, <1>r, <1>m, <1>23 DEF Status, Phases, RowsOK, rows, settleInstalledModelClosure, closed, At, Go, Ends, retireInstalledTerminalRun, Calm, Fault, cur
  <2>2. WorldOK'
    BY <1>2, <1>23 DEF SupervisorTyped, WorldOK, settleInstalledModelClosure, closed, Calm, Fault, cur
  <2>3. MemOK'
    BY <1>2, <1>23 DEF SupervisorTyped, MemOK, Lanes, settleInstalledModelClosure, closed, At, Go, Ends, retireInstalledTerminalRun, Calm, Fault, cur
  <2> QED
    BY <2>1, <2>2, <2>3 DEF SupervisorTyped
<1>24. CASE settleInstalledModelCompletion
  <2>1. RowsOK'
    <3>1. run' \in [Run -> RunRow]
      BY <1>2, <1>t, <1>r, <1>m, <1>24 DEF Status, Phases, RowsOK, rows, settleInstalledModelCompletion, completeModel, At, Go, Ends, retireInstalledTerminalRun, Calm, Fault, cur
    <3>2. worker' \in [Run -> {"none", "preparing", "active", "fenced", "quarantined"}]
      BY <1>2, <1>t, <1>r, <1>m, <1>24 DEF Status, Phases, RowsOK, rows, settleInstalledModelCompletion, completeModel, At, Go, Ends, retireInstalledTerminalRun, Calm, Fault, cur
    <3>3. model' \in [Run -> ModelRow]
      <4>1. \/ model' = model \/ model' = [model EXCEPT ![cur] = NoModel]
            \/ \E p \in Phases : model' = [model EXCEPT ![cur].phase = p]
        BY <1>24 DEF settleInstalledModelCompletion, completeModel, Phases
      <4>2. model \in [Run -> ModelRow]
        BY <1>t DEF RowsOK
      <4> QED
        BY <1>m, <4>1, <4>2
    <3>4. tool' \in [Run -> {"none", "prepared", "claimed", "unknown"}]
      BY <1>2, <1>t, <1>r, <1>m, <1>24 DEF Status, Phases, RowsOK, rows, settleInstalledModelCompletion, completeModel, At, Go, Ends, retireInstalledTerminalRun, Calm, Fault, cur
    <3> QED
      BY <3>1, <3>2, <3>3, <3>4 DEF RowsOK
  <2>2. WorldOK'
    <3>1. net' \subseteq Run /\ done' \in [Run -> Nat]
      BY <1>2, <1>t, <1>24, CompletedTyped DEF settleInstalledModelCompletion, WorldOK, SupervisorTyped
    <3>2. owner' = owner
      BY <1>24 DEF settleInstalledModelCompletion, Calm
    <3> QED
      BY <3>1, <3>2 DEF SupervisorTyped, WorldOK
  <2>3. MemOK'
    BY <1>2, <1>24 DEF SupervisorTyped, MemOK, Lanes, settleInstalledModelCompletion, completeModel, At, Go, Ends, retireInstalledTerminalRun, Calm, Fault, cur
  <2> QED
    BY <2>1, <2>2, <2>3 DEF SupervisorTyped
<1>25. CASE prepareTool
  <2>1. RowsOK'
    BY <1>2, <1>t, <1>r, <1>m, <1>25 DEF Status, Phases, RowsOK, rows, prepareTool, At, Go, Ends, retireInstalledTerminalRun, Calm, Fault, cur
  <2>2. WorldOK'
    BY <1>2, <1>25 DEF SupervisorTyped, WorldOK, prepareTool, Calm, Fault, cur
  <2>3. MemOK'
    BY <1>2, <1>25 DEF SupervisorTyped, MemOK, Lanes, prepareTool, At, Go, Ends, retireInstalledTerminalRun, Calm, Fault, cur
  <2> QED
    BY <2>1, <2>2, <2>3 DEF SupervisorTyped
<1>26. CASE claimTool
  <2>1. RowsOK'
    BY <1>2, <1>t, <1>r, <1>m, <1>26 DEF Status, Phases, RowsOK, rows, claimTool, At, Go, Ends, retireInstalledTerminalRun, Calm, Fault, cur
  <2>2. WorldOK'
    BY <1>2, <1>26 DEF SupervisorTyped, WorldOK, claimTool, Calm, Fault, cur
  <2>3. MemOK'
    BY <1>2, <1>26 DEF SupervisorTyped, MemOK, Lanes, claimTool, At, Go, Ends, retireInstalledTerminalRun, Calm, Fault, cur
  <2> QED
    BY <2>1, <2>2, <2>3 DEF SupervisorTyped
<1>27. CASE releaseTool
  <2>1. RowsOK'
    BY <1>2, <1>t, <1>r, <1>m, <1>27 DEF Status, Phases, RowsOK, rows, releaseTool, At, Go, Ends, retireInstalledTerminalRun, Calm, Fault, cur
  <2>2. WorldOK'
    BY <1>2, <1>27 DEF SupervisorTyped, WorldOK, releaseTool, Calm, Fault, cur
  <2>3. MemOK'
    BY <1>2, <1>27 DEF SupervisorTyped, MemOK, Lanes, releaseTool, At, Go, Ends, retireInstalledTerminalRun, Calm, Fault, cur
  <2> QED
    BY <2>1, <2>2, <2>3 DEF SupervisorTyped
<1>28. CASE toolResult
  <2>1. RowsOK'
    BY <1>2, <1>t, <1>r, <1>m, <1>28 DEF Status, Phases, RowsOK, rows, toolResult, At, Go, Ends, retireInstalledTerminalRun, Calm, Fault, cur
  <2>2. WorldOK'
    BY <1>2, <1>28 DEF SupervisorTyped, WorldOK, toolResult, Calm, Fault, cur
  <2>3. MemOK'
    BY <1>2, <1>28 DEF SupervisorTyped, MemOK, Lanes, toolResult, At, Go, Ends, retireInstalledTerminalRun, Calm, Fault, cur
  <2> QED
    BY <2>1, <2>2, <2>3 DEF SupervisorTyped
<1>29. CASE toolLost
  <2>1. RowsOK'
    <3>1. run' \in [Run -> RunRow]
      BY <1>2, <1>t, <1>29, LostTyped DEF toolLost
    <3>2. worker' \in [Run -> {"none", "preparing", "active", "fenced", "quarantined"}]
      BY <1>2, <1>t, <1>29, LostTyped DEF toolLost
    <3>3. model' \in [Run -> ModelRow]
      BY <1>2, <1>t, <1>r, <1>m, <1>29 DEF Status, Phases, RowsOK, rows, toolLost, Lost, At, Go, Ends, retireInstalledTerminalRun, Calm, Fault, cur
    <3>4. tool' \in [Run -> {"none", "prepared", "claimed", "unknown"}]
      BY <1>2, <1>t, <1>r, <1>m, <1>29 DEF Status, Phases, RowsOK, rows, toolLost, Lost, At, Go, Ends, retireInstalledTerminalRun, Calm, Fault, cur
    <3> QED
      BY <3>1, <3>2, <3>3, <3>4 DEF RowsOK
  <2>2. WorldOK'
    BY <1>2, <1>29 DEF SupervisorTyped, WorldOK, toolLost, Lost, Calm, Fault, cur
  <2>3. MemOK'
    BY <1>2, <1>29 DEF SupervisorTyped, MemOK, Lanes, toolLost, Lost, At, Go, Ends, retireInstalledTerminalRun, Calm, Fault, cur
  <2> QED
    BY <2>1, <2>2, <2>3 DEF SupervisorTyped
<1>30. CASE finishTool
  <2>1. RowsOK'
    BY <1>2, <1>t, <1>r, <1>m, <1>30 DEF Status, Phases, RowsOK, rows, finishTool, finished, At, Go, Ends, retireInstalledTerminalRun, Calm, Fault, cur
  <2>2. WorldOK'
    <3>1. net' \subseteq Run /\ done' \in [Run -> Nat]
      BY <1>2, <1>t, <1>30, FinishedTyped DEF finishTool, WorldOK, SupervisorTyped
    <3>2. owner' = owner
      BY <1>30 DEF finishTool, Calm
    <3> QED
      BY <3>1, <3>2 DEF SupervisorTyped, WorldOK
  <2>3. MemOK'
    BY <1>2, <1>30 DEF SupervisorTyped, MemOK, Lanes, finishTool, finished, At, Go, Ends, retireInstalledTerminalRun, Calm, Fault, cur
  <2> QED
    BY <2>1, <2>2, <2>3 DEF SupervisorTyped
<1> QED
  BY <1>3, <1>4, <1>5, <1>6, <1>7, <1>8, <1>9, <1>10, <1>11, <1>12, <1>13, <1>14, <1>15, <1>16, <1>17, <1>18, <1>19, <1>20, <1>21, <1>22, <1>23, <1>24, <1>25, <1>26, <1>27, <1>28, <1>29, <1>30 DEF Lane

LEMMA TypedInit == Init => SupervisorTyped
<1> SUFFICES ASSUME Init PROVE SupervisorTyped
  OBVIOUS
<1>1. NoRun \in RunRow /\ [NoRun EXCEPT !.status = "ended"] \in RunRow /\ NoModel \in ModelRow
  BY DEF NoRun, NoModel, RunRow, ModelRow, Status, Phases
<1>2. RowsOK
  BY <1>1 DEF Init, RowsOK
<1>3. WorldOK
  BY DEF Init, WorldOK
<1>4. MemOK
  BY DEF Init, MemOK, Lanes
<1> QED
  BY <1>2, <1>3, <1>4 DEF SupervisorTyped

\* Opening, the death of the process, stops and shutdowns: all that is not a
\* step of the lane.
Other ==
    \/ open \/ startInstalledRuns \/ Die \/ fenceTime
    \/ beginClose \/ gracefullyReleaseStateOwner \/ closeFails \/ Over
    \/ \E r \in Run :
          \/ submitInstalledRun(r) \/ admitInstalledRun(r) \/ retainInstalledAgent(r)
          \/ cancelInstalledRun(r) \/ expireRun(r) \/ renewCurrentWorkerLease(r)
          \/ maintainInstalledRuns(r) \/ DeadlinePasses(r) \/ LeaseLapses(r)
          \/ closeSettles(r) \/ closeScope(r)

LEMMA OtherTyped == ASSUME SupervisorTyped, Other PROVE SupervisorTyped'
<1>1. RowsOK /\ WorldOK /\ MemOK /\ owner.epoch \in Nat
  BY DEF SupervisorTyped, WorldOK
<1>w. ASSUME NEW r \in Run
      PROVE  /\ [run EXCEPT ![r].status = "queued"] \in [Run -> RunRow]
             /\ [run EXCEPT ![r].status = "waiting"] \in [Run -> RunRow]
             /\ [run EXCEPT ![r].stop = TRUE] \in [Run -> RunRow]
  <2>1. run \in [Run -> RunRow] /\ {"queued", "waiting"} \subseteq Status
    BY <1>1 DEF RowsOK, Status
  <2> QED
    BY <2>1, RunWritten
<1>s. \A r \in Run : scheduled(tasks, r) \in Seq(Run)
  BY Scheduled
<1>2. CASE open
  <2>1. RowsOK'
    BY <1>1, <1>2 DEF open, RowsOK
  <2>2. WorldOK'
    BY <1>1, <1>2 DEF open, WorldOK
  <2>3. MemOK'
    BY <1>2 DEF open, Cold, MemOK, Lanes
  <2> QED
    BY <2>1, <2>2, <2>3 DEF SupervisorTyped
<1>3. CASE startInstalledRuns
  <2>1. tasks' \in Seq(Run)
    BY <1>3, Sequenced DEF startInstalledRuns
  <2>2. RowsOK' /\ WorldOK'
    BY <1>1, <1>3 DEF startInstalledRuns, rows, world, RowsOK, WorldOK
  <2>3. MemOK'
    BY <1>1, <1>3, <2>1 DEF startInstalledRuns, MemOK
  <2> QED
    BY <2>2, <2>3 DEF SupervisorTyped
<1>4. CASE Die
  <2>1. RowsOK' /\ WorldOK'
    BY <1>1, <1>4 DEF Die, rows, RowsOK, WorldOK
  <2>2. MemOK'
    BY <1>4 DEF Die, Cold, MemOK, Lanes
  <2> QED
    BY <2>1, <2>2 DEF SupervisorTyped
<1>5. CASE fenceTime \/ beginClose \/ gracefullyReleaseStateOwner \/ closeFails \/ Over
  <2>1. RowsOK'
    BY <1>1, <1>5 DEF fenceTime, beginClose, gracefullyReleaseStateOwner, closeFails, Over, vars, rows, RowsOK
  <2>2. WorldOK'
    BY <1>1, <1>5 DEF fenceTime, beginClose, gracefullyReleaseStateOwner, closeFails, Over, vars, world, WorldOK
  <2>3. MemOK'
    BY <1>1, <1>5 DEF fenceTime, beginClose, gracefullyReleaseStateOwner, closeFails, Over, vars, mem, MemOK
  <2> QED
    BY <2>1, <2>2, <2>3 DEF SupervisorTyped
<1>6. ASSUME NEW r \in Run, \/ submitInstalledRun(r) \/ admitInstalledRun(r) \/ retainInstalledAgent(r)
      PROVE  SupervisorTyped'
  <2>1. run' \in [Run -> RunRow]
    <3>1. run' = run \/ run' = [run EXCEPT ![r].status = "queued"]
      BY <1>6 DEF submitInstalledRun, admitInstalledRun, retainInstalledAgent
    <3> QED
      BY <1>1, <1>w, <3>1 DEF RowsOK
  <2>2. RowsOK'
    BY <1>1, <1>6, <2>1 DEF submitInstalledRun, admitInstalledRun, retainInstalledAgent, Admission, RowsOK
  <2>3. WorldOK'
    BY <1>1, <1>6 DEF submitInstalledRun, admitInstalledRun, retainInstalledAgent, Admission, world, WorldOK
  <2>4. tasks' \in Seq(Run)
    BY <1>1, <1>6, <1>s DEF submitInstalledRun, admitInstalledRun, retainInstalledAgent, MemOK
  <2>5. MemOK'
    BY <1>1, <1>6, <2>4 DEF submitInstalledRun, admitInstalledRun, retainInstalledAgent, Admission, MemOK
  <2> QED
    BY <2>2, <2>3, <2>5 DEF SupervisorTyped
<1>7. ASSUME NEW r \in Run, cancelInstalledRun(r) \/ expireRun(r) \/ maintainInstalledRuns(r)
      PROVE  SupervisorTyped'
  <2>1. run' \in [Run -> RunRow]
    <3>1. run' = run \/ run' = [run EXCEPT ![r].stop = TRUE]
      BY <1>7 DEF cancelInstalledRun, expireRun, maintainInstalledRuns, Stop, rows
    <3> QED
      BY <1>1, <1>w, <3>1 DEF RowsOK
  <2>2. RowsOK'
    BY <1>1, <1>7, <2>1 DEF cancelInstalledRun, expireRun, maintainInstalledRuns, rows, RowsOK
  <2>3. WorldOK'
    BY <1>1, <1>7 DEF cancelInstalledRun, expireRun, maintainInstalledRuns, world, WorldOK
  <2>4. tasks' \in Seq(Run)
    BY <1>7, <1>s DEF cancelInstalledRun, expireRun, maintainInstalledRuns
  <2>5. MemOK'
    BY <1>1, <1>7, <2>4 DEF cancelInstalledRun, expireRun, maintainInstalledRuns, Stop, MemOK
  <2> QED
    BY <2>2, <2>3, <2>5 DEF SupervisorTyped
<1>8. ASSUME NEW r \in Run, renewCurrentWorkerLease(r) \/ DeadlinePasses(r) \/ LeaseLapses(r)
      PROVE  SupervisorTyped'
  <2>1. run' \in [Run -> RunRow]
    <3>1. run' = run \/ run' = [run EXCEPT ![r].status = "waiting"]
      BY <1>8 DEF renewCurrentWorkerLease, DeadlinePasses, LeaseLapses, rows
    <3> QED
      BY <1>1, <1>w, <3>1 DEF RowsOK
  <2>2. RowsOK'
    BY <1>1, <1>8, <2>1 DEF renewCurrentWorkerLease, DeadlinePasses, LeaseLapses, rows, RowsOK
  <2>3. WorldOK'
    BY <1>1, <1>8 DEF renewCurrentWorkerLease, DeadlinePasses, LeaseLapses, world, WorldOK
  <2>4. MemOK'
    BY <1>1, <1>8 DEF renewCurrentWorkerLease, DeadlinePasses, LeaseLapses, mem, MemOK
  <2> QED
    BY <2>2, <2>3, <2>4 DEF SupervisorTyped
<1>9. ASSUME NEW r \in Run, closeSettles(r) PROVE SupervisorTyped'
  <2>1. CASE kept[r] = "closure" /\ model' = [model EXCEPT ![r] = closed(r)]
                                 /\ kept' = [kept EXCEPT ![r] = "none"]
                                 /\ trans' = [trans EXCEPT ![r] = "none"]
                                 /\ UNCHANGED <<run, tool, worker, net, done, owns, alive>>
    <3>1. closed(r) \in ModelRow
      <4>1. PICK p \in Phases : closed(r) = [model[r] EXCEPT !.phase = p]
        BY DEF closed, Phases
      <4> QED
        BY <1>1, <4>1, ModelWritten DEF RowsOK
    <3>2. RowsOK'
      BY <1>1, <2>1, <3>1 DEF RowsOK
    <3> QED
      BY <1>1, <1>9, <2>1, <3>2 DEF closeSettles, SupervisorTyped, WorldOK, MemOK
  <2>2. CASE completeModel(r) /\ UNCHANGED <<tool, worker, owns, alive, trans>>
    <3>1. RowsOK'
      BY <1>1, <2>2, CompletedTyped DEF RowsOK
    <3>2. WorldOK'
      BY <1>1, <1>9, <2>2, CompletedTyped DEF closeSettles, WorldOK
    <3>3. MemOK'
      BY <1>1, <1>9, <2>2, CompletedTyped DEF closeSettles, MemOK
    <3> QED
      BY <3>1, <3>2, <3>3 DEF SupervisorTyped
  <2>3. CASE finished(r) /\ UNCHANGED <<model, net, trans>>
    <3>1. RowsOK'
      BY <1>1, <2>3, FinishedTyped DEF RowsOK
    <3>2. WorldOK'
      BY <1>1, <1>9, <2>3, FinishedTyped DEF closeSettles, WorldOK
    <3>3. MemOK'
      BY <1>1, <1>9, <2>3, FinishedTyped DEF closeSettles, MemOK
    <3> QED
      BY <3>1, <3>2, <3>3 DEF SupervisorTyped
  <2> QED
    BY <1>9, <2>1, <2>2, <2>3 DEF closeSettles
<1>10. ASSUME NEW r \in Run, closeScope(r) PROVE SupervisorTyped'
  <2>1. RowsOK'
    BY <1>1, <1>10, LostTyped DEF closeScope, RowsOK
  <2>2. WorldOK'
    BY <1>1, <1>10 DEF closeScope, world, WorldOK
  <2>3. MemOK'
    BY <1>1, <1>10 DEF closeScope, Lost, MemOK
  <2> QED
    BY <2>1, <2>2, <2>3 DEF SupervisorTyped
<1> QED
  BY <1>2, <1>3, <1>4, <1>5, <1>6, <1>7, <1>8, <1>9, <1>10 DEF Other

LEMMA TypedNext == SupervisorTyped /\ [Next]_vars => SupervisorTyped'
<1> SUFFICES ASSUME SupervisorTyped, [Next]_vars PROVE SupervisorTyped'
  OBVIOUS
<1>1. Next => Lane \/ Other
  BY DEF Next, Other
<1>2. CASE UNCHANGED vars
  BY <1>2 DEF vars, rows, world, mem, SupervisorTyped, RowsOK, WorldOK, MemOK
<1> QED
  BY <1>1, <1>2, LaneTyped, OtherTyped

\* ---- the lane: the Runs it does not drive ----------------------------------------------

\* What a step leaves alone of a Run.
Same(r) ==
    /\ run'[r] = run[r] /\ worker'[r] = worker[r] /\ model'[r] = model[r] /\ tool'[r] = tool[r]
    /\ done'[r] = done[r] /\ kept'[r] = kept[r]
    /\ (r \in net' <=> r \in net) /\ (r \in owns' <=> r \in owns)

\* A step of the lane ends its task or goes to another place with it, and it
\* touches the Run that it drives, no other.
LEMMA LaneFrame ==
  ASSUME SupervisorTyped, Lane
  PROVE  /\ Up /\ owner' = owner /\ flags' = flags /\ adm' = adm /\ tasks # <<>> /\ cur \in Run
         /\ \/ tasks' = tasks
            \/ lane' = "idle" /\ tasks' = Tail(tasks)
         /\ \A r \in Run \ {cur} : Same(r)
<1>1. Up /\ tasks # <<>> /\ cur \in Run
  BY Driven DEF Lane, At, driveInstalledRun, ownOperation, fence, recoverWorker, recoverRefused, resumeCurrentRetirement, finishCurrentStop, activateWorker, activateWorkerLease, stopForModelFailure, prepareModel, prepareModelTransport, transportReady, transportRefused, claimInvocationDispatch, claimRefused, connect, releaseBody, response, dispatchFails, settleInstalledModelClosure, settleInstalledModelCompletion, prepareTool, claimTool, releaseTool, toolResult, toolLost, finishTool
<1>2. RowsOK /\ WorldOK /\ MemOK
  BY DEF SupervisorTyped
<1>3. CASE driveInstalledRun
  <2>1. /\ owner' = owner /\ flags' = flags /\ adm' = adm
        /\ tasks' = tasks \/ (lane' = "idle" /\ tasks' = Tail(tasks))
    BY <1>3 DEF driveInstalledRun, Go, Ends, Calm, retireInstalledTerminalRun
  <2>2. \A r \in Run \ {cur} : Same(r)
    BY <1>1, <1>2, <1>3 DEF driveInstalledRun, rows, Same, RowsOK, WorldOK, MemOK
  <2> QED
    BY <1>1, <2>1, <2>2
<1>4. CASE ownOperation
  <2>1. /\ owner' = owner /\ flags' = flags /\ adm' = adm
        /\ tasks' = tasks \/ (lane' = "idle" /\ tasks' = Tail(tasks))
    BY <1>4 DEF ownOperation, Lost, Go, Ends, Calm, retireInstalledTerminalRun
  <2>2. \A r \in Run \ {cur} : Same(r)
    BY <1>1, <1>2, <1>4 DEF ownOperation, Lost, rows, Same, RowsOK, WorldOK, MemOK
  <2> QED
    BY <1>1, <2>1, <2>2
<1>5. CASE fence \/ recoverWorker \/ recoverRefused \/ resumeCurrentRetirement
  <2>1. /\ owner' = owner /\ flags' = flags /\ adm' = adm
        /\ tasks' = tasks \/ (lane' = "idle" /\ tasks' = Tail(tasks))
    BY <1>5 DEF fence, recoverWorker, recoverRefused, resumeCurrentRetirement, Go, Ends, Calm, retireInstalledTerminalRun
  <2>2. \A r \in Run \ {cur} : Same(r)
    BY <1>1, <1>2, <1>5, ZenonT(40) DEF fence, recoverWorker, recoverRefused, resumeCurrentRetirement, rows, Same, RowsOK, WorldOK, MemOK
  <2> QED
    BY <1>1, <2>1, <2>2
<1>6. CASE finishCurrentStop \/ activateWorker \/ activateWorkerLease \/ stopForModelFailure
  <2>1. /\ owner' = owner /\ flags' = flags /\ adm' = adm
        /\ tasks' = tasks \/ (lane' = "idle" /\ tasks' = Tail(tasks))
    BY <1>6 DEF finishCurrentStop, activateWorker, activateWorkerLease, stopForModelFailure, Go, Ends, Calm, retireInstalledTerminalRun
  <2>2. \A r \in Run \ {cur} : Same(r)
    BY <1>1, <1>2, <1>6, ZenonT(40) DEF finishCurrentStop, activateWorker, activateWorkerLease, stopForModelFailure, rows, Same, RowsOK, WorldOK, MemOK
  <2> QED
    BY <1>1, <2>1, <2>2
<1>7. CASE prepareModel \/ prepareModelTransport \/ transportReady
  <2>1. /\ owner' = owner /\ flags' = flags /\ adm' = adm
        /\ tasks' = tasks \/ (lane' = "idle" /\ tasks' = Tail(tasks))
    BY <1>7 DEF prepareModel, prepareModelTransport, transportReady, Go, Ends, Calm, retireInstalledTerminalRun
  <2>2. \A r \in Run \ {cur} : Same(r)
    BY <1>1, <1>2, <1>7, ZenonT(40) DEF prepareModel, prepareModelTransport, transportReady, rows, Same, RowsOK, WorldOK, MemOK
  <2> QED
    BY <1>1, <2>1, <2>2
<1>8. CASE transportRefused \/ claimRefused
  <2>1. /\ owner' = owner /\ flags' = flags /\ adm' = adm
        /\ tasks' = tasks \/ (lane' = "idle" /\ tasks' = Tail(tasks))
    BY <1>8 DEF transportRefused, claimRefused, failPreparation, Go, Ends, Calm, retireInstalledTerminalRun
  <2>2. \A r \in Run \ {cur} : Same(r)
    BY <1>1, <1>2, <1>8 DEF transportRefused, claimRefused, failPreparation, rows, Same, RowsOK, WorldOK, MemOK
  <2> QED
    BY <1>1, <2>1, <2>2
<1>9. CASE claimInvocationDispatch \/ connect \/ releaseBody \/ response \/ dispatchFails
  <2>1. /\ owner' = owner /\ flags' = flags /\ adm' = adm
        /\ tasks' = tasks \/ (lane' = "idle" /\ tasks' = Tail(tasks))
    BY <1>9 DEF claimInvocationDispatch, connect, releaseBody, response, dispatchFails, Go, Ends, Calm, retireInstalledTerminalRun
  <2>2. \A r \in Run \ {cur} : Same(r)
    BY <1>1, <1>2, <1>9, ZenonT(40) DEF claimInvocationDispatch, connect, releaseBody, response, dispatchFails, rows, Same, RowsOK, WorldOK, MemOK
  <2> QED
    BY <1>1, <2>1, <2>2
<1>10. CASE settleInstalledModelClosure
  <2>1. /\ owner' = owner /\ flags' = flags /\ adm' = adm
        /\ tasks' = tasks \/ (lane' = "idle" /\ tasks' = Tail(tasks))
    BY <1>10 DEF settleInstalledModelClosure, closed, Go, Ends, Calm, retireInstalledTerminalRun
  <2>2. \A r \in Run \ {cur} : Same(r)
    BY <1>1, <1>2, <1>10, ZenonT(40) DEF settleInstalledModelClosure, closed, rows, Same, RowsOK, WorldOK, MemOK
  <2> QED
    BY <1>1, <2>1, <2>2
<1>11. CASE settleInstalledModelCompletion
  <2>1. /\ owner' = owner /\ flags' = flags /\ adm' = adm
        /\ tasks' = tasks \/ (lane' = "idle" /\ tasks' = Tail(tasks))
    BY <1>11 DEF settleInstalledModelCompletion, completeModel, Go, Ends, Calm, retireInstalledTerminalRun
  <2>2. \A r \in Run \ {cur} : Same(r)
    BY <1>1, <1>2, <1>11, ZenonT(40) DEF settleInstalledModelCompletion, completeModel, rows, Same, RowsOK, WorldOK, MemOK
  <2> QED
    BY <1>1, <2>1, <2>2
<1>12. CASE prepareTool \/ claimTool \/ releaseTool \/ toolResult
  <2>1. /\ owner' = owner /\ flags' = flags /\ adm' = adm
        /\ tasks' = tasks \/ (lane' = "idle" /\ tasks' = Tail(tasks))
    BY <1>12 DEF prepareTool, claimTool, releaseTool, toolResult, Go, Ends, Calm, retireInstalledTerminalRun
  <2>2. \A r \in Run \ {cur} : Same(r)
    BY <1>1, <1>2, <1>12 DEF prepareTool, claimTool, releaseTool, toolResult, rows, Same, RowsOK, WorldOK, MemOK
  <2> QED
    BY <1>1, <2>1, <2>2
<1>13. CASE toolLost
  <2>1. /\ owner' = owner /\ flags' = flags /\ adm' = adm
        /\ tasks' = tasks \/ (lane' = "idle" /\ tasks' = Tail(tasks))
    BY <1>13 DEF toolLost, Lost, Go, Ends, Calm, retireInstalledTerminalRun
  <2>2. \A r \in Run \ {cur} : Same(r)
    BY <1>1, <1>2, <1>13 DEF toolLost, Lost, rows, Same, RowsOK, WorldOK, MemOK
  <2> QED
    BY <1>1, <2>1, <2>2
<1>14. CASE finishTool
  <2>1. /\ owner' = owner /\ flags' = flags /\ adm' = adm
        /\ tasks' = tasks \/ (lane' = "idle" /\ tasks' = Tail(tasks))
    BY <1>14 DEF finishTool, finished, Go, Ends, Calm, retireInstalledTerminalRun
  <2>2. \A r \in Run \ {cur} : Same(r)
    BY <1>1, <1>2, <1>14, ZenonT(40) DEF finishTool, finished, rows, Same, RowsOK, WorldOK, MemOK
  <2> QED
    BY <1>1, <2>1, <2>2
<1> QED
  BY <1>3, <1>4, <1>5, <1>6, <1>7, <1>8, <1>9, <1>10, <1>11, <1>12, <1>13, <1>14 DEF Lane

\* driveInstalledRun only goes where the Run has what that place needs.
LEMMA ChoiceMeans ==
  ASSUME NEW r \in Run, RowsOK, MemOK, Frontier(r), ToolHasPlace(r), lane \in {"idle", "drive"}
  PROVE  PlaceOf(choice(r), r)
<1>1. kept[r] \in {"none", "closure", "completion", "tool"} /\ run[r].status \in Status
      /\ run[r].next \in {"agent", "tool"} /\ model[r].phase \in Phases
  BY DEF RowsOK, MemOK, RunRow, ModelRow
<1> DEFINE free == installedWorkerSlotAvailable(r)
<1>b. free \in BOOLEAN /\ supports \in BOOLEAN /\ live(r) \in BOOLEAN /\ run[r].stop \in BOOLEAN
  BY DEF installedWorkerSlotAvailable, supports, live, RowsOK, RunRow
<1> HIDE DEF free
<1>2. /\ choice(r) = "fence" => run[r].status = "running" /\ r \notin owns
      /\ choice(r) \in {"retire", "activate"} => run[r].status = "queued"
  BY <1>1 DEF choice
<1>a. choice(r) = "activate" => free
  <2> SUFFICES ASSUME choice(r) = "activate", ~free PROVE FALSE
    BY <1>b
  <2>1. run[r].status = "queued"
    BY <1>2
  <2>2. ~installedWorkerSlotAvailable(r)
    BY DEF free
  <2> QED
    BY <1>1, <1>b, <2>1, <2>2 DEF choice
<1>3. choice(r) = "prepare" => run[r].next = "agent" /\ model[r].phase \in {"none", "failed"}
  BY <1>1 DEF choice, selectInstalledModelProgress, live, Status
<1>6. ASSUME choice(r) \in {"fence", "recover", "retire", "stop", "activate", "toolPrepare",
                            "modelStop", "prepare"}
      PROVE  kept[r] = "none"
  <2>1. ASSUME kept[r] = "tool" PROVE FALSE
    BY <1>6, <2>1 DEF choice
  <2>2. ASSUME kept[r] = "closure" PROVE FALSE
    BY <1>6, <2>2 DEF choice
  <2>3. ASSUME kept[r] = "completion" PROVE FALSE
    BY <1>6, <2>3 DEF choice
  <2> QED
    BY <1>1, <2>1, <2>2, <2>3
<1>4. ASSUME choice(r) = "toolPrepare"
      PROVE  run[r].status = "running" /\ r \in owns /\ run[r].next = "tool" /\ kept[r] = "none"
  <2>1. live(r) /\ run[r].next = "tool"
    BY <1>1, <1>4, <1>b DEF choice
  <2>2. run[r].status \notin {"waiting", "queued"}
    BY <1>1, <1>4, <2>1 DEF choice
  <2>3. run[r].status = "running"
    BY <2>1, <2>2 DEF live
  <2>4. r \in owns
    BY <1>4, <2>3 DEF choice
  <2> QED
    BY <1>4, <1>6, <2>1, <2>3, <2>4
<1>5. /\ choice(r) = "settleClosure" => kept[r] = "closure"
      /\ choice(r) = "settle" => kept[r] = "completion"
      /\ choice(r) = "toolFinish" => kept[r] = "tool"
  BY DEF choice
<1>7. choice(r) \in {"end", "toolFinish", "settleClosure", "settle", "fence", "recover", "retire",
                     "stop", "activate", "toolPrepare", "modelStop", "prepare"}
  BY DEF choice
<1>8. choice(r) = "toolPrepare" => tool[r] = "none"
  BY <1>4 DEF ToolHasPlace
<1> QED
  BY <1>2, <1>3, <1>4, <1>5, <1>6, <1>7, <1>8, <1>a DEF PlaceOf, free

\* ---- the lane: the Run it drives --------------------------------------------------------

\* What a step of the lane leaves of the Run c that it drives: the invariant at
\* c, the place it goes to, and a slot that c held or found free.
LEMMA LaneStep ==
  ASSUME SupervisorInv, Lane, NEW c \in Run, c = cur
  PROVE  /\ Frontier(c)' /\ Sent(c)' /\ ToolHasPlace(c)' /\ PlaceInv'
         /\ run'[c].status = "running" => worker'[c] = "active"
         /\ Holds(c)' => Holds(c) \/ installedWorkerSlotAvailable(c)
<1>1. tasks # <<>> /\ c = Head(tasks) /\ Up
  BY LaneFrame DEF SupervisorInv, cur
<1>2. RowsOK /\ WorldOK /\ MemOK
  BY DEF SupervisorInv, SupervisorTyped
<1>3. run[c] \in RunRow /\ model[c] \in ModelRow /\ done[c] \in Nat
  BY <1>2 DEF RowsOK, WorldOK
<1>4. /\ Frontier(c) /\ Sent(c) /\ ToolHasPlace(c) /\ Place
      /\ run[c].status = "running" => worker[c] = "active"
  BY <1>1 DEF SupervisorInv, FrontierInv, SentInv, ToolInv, PlaceInv, SlotInv
<1>5. CASE driveInstalledRun
  <2>1. Frontier(c)'
    BY <1>1, <1>2, <1>3, <1>4, <1>5 DEF Frontier, Place, PlaceOf, RowsOK, MemOK, RunRow, ModelRow, driveInstalledRun, At, Go, Ends, Calm, Fault, rows, cur, choice, live
  <2>2. Sent(c)'
    BY <1>1, <1>2, <1>3, <1>4, <1>5 DEF Frontier, Sent, Place, PlaceOf, RowsOK, WorldOK, RunRow, ModelRow, driveInstalledRun, At, Go, Ends, Calm, Fault, rows, cur, choice, live
  <2>3. ToolHasPlace(c)'
    BY <1>1, <1>2, <1>3, <1>4, <1>5 DEF Frontier, ToolHasPlace, Place, PlaceOf, RowsOK, MemOK, RunRow, driveInstalledRun, At, Go, Ends, Calm, Fault, rows, cur, choice, live
  <2>4. PlaceInv'
    <3>1. lane' = "idle" \/ (lane' = choice(c) /\ tasks' = tasks)
      BY <1>1, <1>5 DEF driveInstalledRun, Ends, Go, cur
    <3>2. /\ run' = run /\ worker' = worker /\ model' = model /\ tool' = tool
          /\ net' = net /\ done' = done /\ kept' = kept /\ owns' = owns
      BY <1>5 DEF driveInstalledRun, rows
    <3>3. CASE lane' = "idle"
      BY <3>3 DEF PlaceInv, Place, PlaceOf
    <3>4. CASE lane' = choice(c) /\ tasks' = tasks
      <4> DEFINE w == choice(c)
      <4>1. lane' = w /\ cur' = c
        BY <1>1, <3>4 DEF cur
      <4>2. PlaceOf(w, c)
        BY <1>2, <1>4, <1>5, <1>1, ChoiceMeans DEF driveInstalledRun
      <4> HIDE DEF w
      <4> QED
        BY <3>2, <4>1, <4>2 DEF PlaceOf, PlaceInv, Place, PlaceOf, installedWorkerSlotAvailable
    <3> QED
      BY <3>1, <3>3, <3>4
  <2>5. /\ run'[c].status = "running" => worker'[c] = "active"
        /\ Holds(c)' => Holds(c) \/ installedWorkerSlotAvailable(c)
    BY <1>1, <1>2, <1>3, <1>4, <1>5 DEF Holds, Place, PlaceOf, RowsOK, RunRow, driveInstalledRun, At, Go, Ends, Calm, Fault, rows, cur, choice, live
  <2> QED
    BY <2>1, <2>2, <2>3, <2>4, <2>5
<1>6. CASE ownOperation
  <2>1. Frontier(c)'
    BY <1>1, <1>2, <1>3, <1>4, <1>6 DEF Frontier, Place, PlaceOf, RowsOK, MemOK, RunRow, ModelRow, ownOperation, Lost, At, Go, Ends, Calm, Fault, rows, cur
  <2>2. Sent(c)'
    BY <1>1, <1>2, <1>3, <1>4, <1>6 DEF Frontier, Sent, Place, PlaceOf, RowsOK, WorldOK, RunRow, ModelRow, ownOperation, Lost, At, Go, Ends, Calm, Fault, rows, cur
  <2>3. ToolHasPlace(c)'
    BY <1>1, <1>2, <1>3, <1>4, <1>6 DEF Frontier, ToolHasPlace, Place, PlaceOf, RowsOK, MemOK, RunRow, ownOperation, Lost, At, Go, Ends, Calm, Fault, rows, cur
  <2>4. PlaceInv'
    BY <1>1, <1>2, <1>3, <1>4, <1>6 DEF Frontier, Sent, ToolHasPlace, Place, PlaceOf, PlaceInv, RowsOK, WorldOK, MemOK, RunRow, ModelRow, ownOperation, Lost, At, Go, Ends, Calm, Fault, rows, cur
  <2>5. /\ run'[c].status = "running" => worker'[c] = "active"
        /\ Holds(c)' => Holds(c) \/ installedWorkerSlotAvailable(c)
    BY <1>1, <1>2, <1>3, <1>4, <1>6 DEF Holds, Place, PlaceOf, RowsOK, RunRow, ownOperation, Lost, At, Go, Ends, Calm, Fault, rows, cur
  <2> QED
    BY <2>1, <2>2, <2>3, <2>4, <2>5
<1>7. CASE fence
  <2>1. Frontier(c)'
    BY <1>1, <1>2, <1>3, <1>4, <1>7 DEF Frontier, Place, PlaceOf, RowsOK, MemOK, RunRow, ModelRow, fence, At, Go, Ends, Calm, Fault, rows, cur
  <2>2. Sent(c)'
    BY <1>1, <1>2, <1>3, <1>4, <1>7 DEF Frontier, Sent, Place, PlaceOf, RowsOK, WorldOK, RunRow, ModelRow, fence, At, Go, Ends, Calm, Fault, rows, cur
  <2>3. ToolHasPlace(c)'
    BY <1>1, <1>2, <1>3, <1>4, <1>7 DEF Frontier, ToolHasPlace, Place, PlaceOf, RowsOK, MemOK, RunRow, fence, At, Go, Ends, Calm, Fault, rows, cur
  <2>4. PlaceInv'
    BY <1>1, <1>2, <1>3, <1>4, <1>7 DEF Frontier, Sent, ToolHasPlace, Place, PlaceOf, PlaceInv, RowsOK, WorldOK, MemOK, RunRow, ModelRow, fence, At, Go, Ends, Calm, Fault, rows, cur
  <2>5. /\ run'[c].status = "running" => worker'[c] = "active"
        /\ Holds(c)' => Holds(c) \/ installedWorkerSlotAvailable(c)
    BY <1>1, <1>2, <1>3, <1>4, <1>7 DEF Holds, Place, PlaceOf, RowsOK, RunRow, fence, At, Go, Ends, Calm, Fault, rows, cur
  <2> QED
    BY <2>1, <2>2, <2>3, <2>4, <2>5
<1>8. CASE recoverWorker
  <2>1. Frontier(c)'
    <3>1. CASE /\ run' = [run EXCEPT ![c].status = "ended"] /\ UNCHANGED <<model, tool, kept>>
      BY <1>1, <1>2, <1>3, <1>4, <3>1 DEF Frontier, Place, PlaceOf, RowsOK, MemOK, RunRow, ModelRow, At, Go, Ends, Calm, Fault, rows, cur, retireInstalledTerminalRun
    <3>2. CASE /\ run' = [run EXCEPT ![c].status = "queued"] /\ tool[c] = "none" /\ UNCHANGED <<model, tool, kept>>
      BY <1>1, <1>2, <1>3, <1>4, <3>2 DEF Frontier, Place, PlaceOf, RowsOK, MemOK, RunRow, ModelRow, At, Go, Ends, Calm, Fault, rows, cur, retireInstalledTerminalRun
    <3> QED
      BY <1>1, <1>3, <1>4, <1>8, <3>1, <3>2 DEF recoverWorker, At, Calm, Fault, cur
  <2>2. Sent(c)'
    BY <1>1, <1>2, <1>3, <1>4, <1>8 DEF Frontier, Sent, Place, PlaceOf, RowsOK, WorldOK, RunRow, ModelRow, recoverWorker, At, Go, Ends, Calm, Fault, rows, cur, retireInstalledTerminalRun
  <2>3. ToolHasPlace(c)'
    BY <1>1, <1>2, <1>3, <1>4, <1>8 DEF Frontier, ToolHasPlace, Place, PlaceOf, RowsOK, MemOK, RunRow, recoverWorker, At, Go, Ends, Calm, Fault, rows, cur, retireInstalledTerminalRun
  <2>4. PlaceInv'
    BY <1>1, <1>2, <1>3, <1>4, <1>8 DEF Frontier, Sent, ToolHasPlace, Place, PlaceOf, PlaceInv, RowsOK, WorldOK, MemOK, RunRow, ModelRow, recoverWorker, At, Go, Ends, Calm, Fault, rows, cur, retireInstalledTerminalRun
  <2>5. /\ run'[c].status = "running" => worker'[c] = "active"
        /\ Holds(c)' => Holds(c) \/ installedWorkerSlotAvailable(c)
    BY <1>1, <1>2, <1>3, <1>4, <1>8 DEF Holds, Place, PlaceOf, RowsOK, RunRow, recoverWorker, At, Go, Ends, Calm, Fault, rows, cur, retireInstalledTerminalRun
  <2> QED
    BY <2>1, <2>2, <2>3, <2>4, <2>5
<1>9. CASE recoverRefused
  <2>1. Frontier(c)'
    BY <1>1, <1>2, <1>3, <1>4, <1>9 DEF Frontier, Place, PlaceOf, RowsOK, MemOK, RunRow, ModelRow, recoverRefused, At, Go, Ends, Calm, Fault, rows, cur
  <2>2. Sent(c)'
    BY <1>1, <1>2, <1>3, <1>4, <1>9 DEF Frontier, Sent, Place, PlaceOf, RowsOK, WorldOK, RunRow, ModelRow, recoverRefused, At, Go, Ends, Calm, Fault, rows, cur
  <2>3. ToolHasPlace(c)'
    BY <1>1, <1>2, <1>3, <1>4, <1>9 DEF Frontier, ToolHasPlace, Place, PlaceOf, RowsOK, MemOK, RunRow, recoverRefused, At, Go, Ends, Calm, Fault, rows, cur
  <2>4. PlaceInv'
    BY <1>1, <1>2, <1>3, <1>4, <1>9 DEF Frontier, Sent, ToolHasPlace, Place, PlaceOf, PlaceInv, RowsOK, WorldOK, MemOK, RunRow, ModelRow, recoverRefused, At, Go, Ends, Calm, Fault, rows, cur
  <2>5. /\ run'[c].status = "running" => worker'[c] = "active"
        /\ Holds(c)' => Holds(c) \/ installedWorkerSlotAvailable(c)
    BY <1>1, <1>2, <1>3, <1>4, <1>9 DEF Holds, Place, PlaceOf, RowsOK, RunRow, recoverRefused, At, Go, Ends, Calm, Fault, rows, cur
  <2> QED
    BY <2>1, <2>2, <2>3, <2>4, <2>5
<1>10. CASE resumeCurrentRetirement
  <2>1. Frontier(c)'
    BY <1>1, <1>2, <1>3, <1>4, <1>10 DEF Frontier, Place, PlaceOf, RowsOK, MemOK, RunRow, ModelRow, resumeCurrentRetirement, At, Go, Ends, Calm, Fault, rows, cur
  <2>2. Sent(c)'
    BY <1>1, <1>2, <1>3, <1>4, <1>10 DEF Frontier, Sent, Place, PlaceOf, RowsOK, WorldOK, RunRow, ModelRow, resumeCurrentRetirement, At, Go, Ends, Calm, Fault, rows, cur
  <2>3. ToolHasPlace(c)'
    BY <1>1, <1>2, <1>3, <1>4, <1>10 DEF Frontier, ToolHasPlace, Place, PlaceOf, RowsOK, MemOK, RunRow, resumeCurrentRetirement, At, Go, Ends, Calm, Fault, rows, cur
  <2>4. PlaceInv'
    BY <1>1, <1>2, <1>3, <1>4, <1>10 DEF Frontier, Sent, ToolHasPlace, Place, PlaceOf, PlaceInv, RowsOK, WorldOK, MemOK, RunRow, ModelRow, resumeCurrentRetirement, At, Go, Ends, Calm, Fault, rows, cur
  <2>5. /\ run'[c].status = "running" => worker'[c] = "active"
        /\ Holds(c)' => Holds(c) \/ installedWorkerSlotAvailable(c)
    BY <1>1, <1>2, <1>3, <1>4, <1>10 DEF Holds, Place, PlaceOf, RowsOK, RunRow, resumeCurrentRetirement, At, Go, Ends, Calm, Fault, rows, cur
  <2> QED
    BY <2>1, <2>2, <2>3, <2>4, <2>5
<1>11. CASE finishCurrentStop
  <2>1. Frontier(c)'
    <3>1. CASE run' = [run EXCEPT ![c].status = "ended"] /\ UNCHANGED <<model, tool, kept>>
      BY <1>1, <1>2, <1>3, <1>4, <3>1 DEF Frontier, Place, PlaceOf, RowsOK, MemOK, RunRow, ModelRow, At, Go, Ends, Calm, Fault, rows, cur, retireInstalledTerminalRun
    <3>2. CASE UNCHANGED <<run, model, tool, kept>>
      BY <1>1, <1>2, <1>3, <1>4, <3>2 DEF Frontier, Place, PlaceOf, RowsOK, MemOK, RunRow, ModelRow, At, Go, Ends, Calm, Fault, rows, cur, retireInstalledTerminalRun
    <3> QED
      BY <1>1, <1>3, <1>4, <1>11, <3>1, <3>2 DEF finishCurrentStop, At, Calm, Fault, cur
  <2>2. Sent(c)'
    BY <1>1, <1>2, <1>3, <1>4, <1>11 DEF Frontier, Sent, Place, PlaceOf, RowsOK, WorldOK, RunRow, ModelRow, finishCurrentStop, At, Go, Ends, Calm, Fault, rows, cur, retireInstalledTerminalRun
  <2>3. ToolHasPlace(c)'
    BY <1>1, <1>2, <1>3, <1>4, <1>11 DEF Frontier, ToolHasPlace, Place, PlaceOf, RowsOK, MemOK, RunRow, finishCurrentStop, At, Go, Ends, Calm, Fault, rows, cur, retireInstalledTerminalRun
  <2>4. PlaceInv'
    BY <1>1, <1>2, <1>3, <1>4, <1>11 DEF Frontier, Sent, ToolHasPlace, Place, PlaceOf, PlaceInv, RowsOK, WorldOK, MemOK, RunRow, ModelRow, finishCurrentStop, At, Go, Ends, Calm, Fault, rows, cur, retireInstalledTerminalRun
  <2>5. /\ run'[c].status = "running" => worker'[c] = "active"
        /\ Holds(c)' => Holds(c) \/ installedWorkerSlotAvailable(c)
    BY <1>1, <1>2, <1>3, <1>4, <1>11 DEF Holds, Place, PlaceOf, RowsOK, RunRow, finishCurrentStop, At, Go, Ends, Calm, Fault, rows, cur, retireInstalledTerminalRun
  <2> QED
    BY <2>1, <2>2, <2>3, <2>4, <2>5
<1>12. CASE activateWorker
  <2>1. Frontier(c)'
    BY <1>1, <1>2, <1>3, <1>4, <1>12 DEF Frontier, Place, PlaceOf, RowsOK, MemOK, RunRow, ModelRow, activateWorker, At, Go, Ends, Calm, Fault, rows, cur
  <2>2. Sent(c)'
    BY <1>1, <1>2, <1>3, <1>4, <1>12 DEF Frontier, Sent, Place, PlaceOf, RowsOK, WorldOK, RunRow, ModelRow, activateWorker, At, Go, Ends, Calm, Fault, rows, cur
  <2>3. ToolHasPlace(c)'
    BY <1>1, <1>2, <1>3, <1>4, <1>12 DEF Frontier, ToolHasPlace, Place, PlaceOf, RowsOK, MemOK, RunRow, activateWorker, At, Go, Ends, Calm, Fault, rows, cur
  <2>4. PlaceInv'
    BY <1>1, <1>2, <1>3, <1>4, <1>12 DEF Frontier, Sent, ToolHasPlace, Place, PlaceOf, PlaceInv, RowsOK, WorldOK, MemOK, RunRow, ModelRow, activateWorker, At, Go, Ends, Calm, Fault, rows, cur
  <2>5. /\ run'[c].status = "running" => worker'[c] = "active"
        /\ Holds(c)' => Holds(c) \/ installedWorkerSlotAvailable(c)
    BY <1>1, <1>2, <1>3, <1>4, <1>12 DEF Holds, Place, PlaceOf, RowsOK, RunRow, activateWorker, At, Go, Ends, Calm, Fault, rows, cur
  <2> QED
    BY <2>1, <2>2, <2>3, <2>4, <2>5
<1>13. CASE activateWorkerLease
  <2>1. Frontier(c)'
    BY <1>1, <1>2, <1>3, <1>4, <1>13 DEF Frontier, Place, PlaceOf, RowsOK, MemOK, RunRow, ModelRow, activateWorkerLease, At, Go, Ends, Calm, Fault, rows, cur
  <2>2. Sent(c)'
    BY <1>1, <1>2, <1>3, <1>4, <1>13 DEF Frontier, Sent, Place, PlaceOf, RowsOK, WorldOK, RunRow, ModelRow, activateWorkerLease, At, Go, Ends, Calm, Fault, rows, cur
  <2>3. ToolHasPlace(c)'
    BY <1>1, <1>2, <1>3, <1>4, <1>13 DEF Frontier, ToolHasPlace, Place, PlaceOf, RowsOK, MemOK, RunRow, activateWorkerLease, At, Go, Ends, Calm, Fault, rows, cur
  <2>4. PlaceInv'
    BY <1>1, <1>2, <1>3, <1>4, <1>13 DEF Frontier, Sent, ToolHasPlace, Place, PlaceOf, PlaceInv, RowsOK, WorldOK, MemOK, RunRow, ModelRow, activateWorkerLease, At, Go, Ends, Calm, Fault, rows, cur
  <2>5. /\ run'[c].status = "running" => worker'[c] = "active"
        /\ Holds(c)' => Holds(c) \/ installedWorkerSlotAvailable(c)
    BY <1>1, <1>2, <1>3, <1>4, <1>13 DEF Holds, Place, PlaceOf, RowsOK, RunRow, activateWorkerLease, At, Go, Ends, Calm, Fault, rows, cur
  <2> QED
    BY <2>1, <2>2, <2>3, <2>4, <2>5
<1>14. CASE stopForModelFailure
  <2>1. Frontier(c)'
    BY <1>1, <1>2, <1>3, <1>4, <1>14 DEF Frontier, Place, PlaceOf, RowsOK, MemOK, RunRow, ModelRow, stopForModelFailure, At, Go, Ends, Calm, Fault, rows, cur
  <2>2. Sent(c)'
    BY <1>1, <1>2, <1>3, <1>4, <1>14 DEF Frontier, Sent, Place, PlaceOf, RowsOK, WorldOK, RunRow, ModelRow, stopForModelFailure, At, Go, Ends, Calm, Fault, rows, cur
  <2>3. ToolHasPlace(c)'
    BY <1>1, <1>2, <1>3, <1>4, <1>14 DEF Frontier, ToolHasPlace, Place, PlaceOf, RowsOK, MemOK, RunRow, stopForModelFailure, At, Go, Ends, Calm, Fault, rows, cur
  <2>4. PlaceInv'
    BY <1>1, <1>2, <1>3, <1>4, <1>14 DEF Frontier, Sent, ToolHasPlace, Place, PlaceOf, PlaceInv, RowsOK, WorldOK, MemOK, RunRow, ModelRow, stopForModelFailure, At, Go, Ends, Calm, Fault, rows, cur
  <2>5. /\ run'[c].status = "running" => worker'[c] = "active"
        /\ Holds(c)' => Holds(c) \/ installedWorkerSlotAvailable(c)
    BY <1>1, <1>2, <1>3, <1>4, <1>14 DEF Holds, Place, PlaceOf, RowsOK, RunRow, stopForModelFailure, At, Go, Ends, Calm, Fault, rows, cur
  <2> QED
    BY <2>1, <2>2, <2>3, <2>4, <2>5
<1>15. CASE prepareModel
  <2>a. UNCHANGED <<tool, kept, net, done, worker, owns>>
    BY <1>15 DEF prepareModel
  <2>b. run'[c].status = run[c].status /\ run'[c].next = run[c].next
    <3>1. \/ run' = run \/ run' = [run EXCEPT ![c].stop = TRUE]
          \/ \E t : run' = [run EXCEPT ![c].turn = t]
      BY <1>1, <1>15 DEF prepareModel, cur
    <3> QED
      BY <1>2, <1>3, <3>1 DEF RowsOK, RunRow
  <2>c. \/ model' = model /\ lane' \in {"idle", "drive"}
        \/ /\ model'[c].phase = "prepared" /\ model[c].phase \in {"none", "failed"}
           /\ lane' = "transport" /\ tasks' = tasks /\ run[c].next = "agent" /\ kept[c] = "none"
    BY <1>1, <1>2, <1>4, <1>15 DEF prepareModel, At, Go, Ends, RowsOK, Place, PlaceOf, cur
  <2>1. Frontier(c)'
    BY <1>4, <2>a, <2>b, <2>c DEF Frontier
  <2>2. Sent(c)'
    BY <1>1, <1>2, <1>3, <1>4, <1>15 DEF Frontier, Sent, Place, PlaceOf, RowsOK, WorldOK, RunRow, ModelRow, prepareModel, At, Go, Ends, Calm, Fault, rows, cur
  <2>3. ToolHasPlace(c)'
    BY <1>1, <1>2, <1>3, <1>4, <1>15 DEF Frontier, ToolHasPlace, Place, PlaceOf, RowsOK, MemOK, RunRow, prepareModel, At, Go, Ends, Calm, Fault, rows, cur
  <2>4. PlaceInv'
    BY <1>1, <2>a, <2>b, <2>c DEF PlaceInv, Place, PlaceOf, cur
  <2>5. /\ run'[c].status = "running" => worker'[c] = "active"
        /\ Holds(c)' => Holds(c) \/ installedWorkerSlotAvailable(c)
    BY <1>1, <1>2, <1>3, <1>4, <1>15 DEF Holds, Place, PlaceOf, RowsOK, RunRow, prepareModel, At, Go, Ends, Calm, Fault, rows, cur
  <2> QED
    BY <2>1, <2>2, <2>3, <2>4, <2>5
<1>16. CASE prepareModelTransport
  <2>1. Frontier(c)'
    BY <1>1, <1>2, <1>3, <1>4, <1>16 DEF Frontier, Place, PlaceOf, RowsOK, MemOK, RunRow, ModelRow, prepareModelTransport, At, Go, Ends, Calm, Fault, rows, cur
  <2>2. Sent(c)'
    BY <1>1, <1>2, <1>3, <1>4, <1>16 DEF Frontier, Sent, Place, PlaceOf, RowsOK, WorldOK, RunRow, ModelRow, prepareModelTransport, At, Go, Ends, Calm, Fault, rows, cur
  <2>3. ToolHasPlace(c)'
    BY <1>1, <1>2, <1>3, <1>4, <1>16 DEF Frontier, ToolHasPlace, Place, PlaceOf, RowsOK, MemOK, RunRow, prepareModelTransport, At, Go, Ends, Calm, Fault, rows, cur
  <2>4. PlaceInv'
    BY <1>1, <1>2, <1>3, <1>4, <1>16 DEF Frontier, Sent, ToolHasPlace, Place, PlaceOf, PlaceInv, RowsOK, WorldOK, MemOK, RunRow, ModelRow, prepareModelTransport, At, Go, Ends, Calm, Fault, rows, cur
  <2>5. /\ run'[c].status = "running" => worker'[c] = "active"
        /\ Holds(c)' => Holds(c) \/ installedWorkerSlotAvailable(c)
    BY <1>1, <1>2, <1>3, <1>4, <1>16 DEF Holds, Place, PlaceOf, RowsOK, RunRow, prepareModelTransport, At, Go, Ends, Calm, Fault, rows, cur
  <2> QED
    BY <2>1, <2>2, <2>3, <2>4, <2>5
<1>17. CASE transportReady
  <2>1. Frontier(c)'
    BY <1>1, <1>2, <1>3, <1>4, <1>17 DEF Frontier, Place, PlaceOf, RowsOK, MemOK, RunRow, ModelRow, transportReady, At, Go, Ends, Calm, Fault, rows, cur
  <2>2. Sent(c)'
    BY <1>1, <1>2, <1>3, <1>4, <1>17 DEF Frontier, Sent, Place, PlaceOf, RowsOK, WorldOK, RunRow, ModelRow, transportReady, At, Go, Ends, Calm, Fault, rows, cur
  <2>3. ToolHasPlace(c)'
    BY <1>1, <1>2, <1>3, <1>4, <1>17 DEF Frontier, ToolHasPlace, Place, PlaceOf, RowsOK, MemOK, RunRow, transportReady, At, Go, Ends, Calm, Fault, rows, cur
  <2>4. PlaceInv'
    BY <1>1, <1>2, <1>3, <1>4, <1>17 DEF Frontier, Sent, ToolHasPlace, Place, PlaceOf, PlaceInv, RowsOK, WorldOK, MemOK, RunRow, ModelRow, transportReady, At, Go, Ends, Calm, Fault, rows, cur
  <2>5. /\ run'[c].status = "running" => worker'[c] = "active"
        /\ Holds(c)' => Holds(c) \/ installedWorkerSlotAvailable(c)
    BY <1>1, <1>2, <1>3, <1>4, <1>17 DEF Holds, Place, PlaceOf, RowsOK, RunRow, transportReady, At, Go, Ends, Calm, Fault, rows, cur
  <2> QED
    BY <2>1, <2>2, <2>3, <2>4, <2>5
<1>18. CASE transportRefused
  <2>1. Frontier(c)'
    <3>1. CASE /\ run' = run \/ run' = [run EXCEPT ![c].stop = TRUE]
              /\ lane \in {"transport", "ready"} /\ model' = [model EXCEPT ![c].phase = "failed"]
              /\ UNCHANGED <<tool, kept>>
      BY <1>1, <1>2, <1>3, <1>4, <3>1, ZenonT(40) DEF Frontier, Place, PlaceOf, RowsOK, MemOK, RunRow, ModelRow, failPreparation, At, Go, Ends, Calm, Fault, rows, cur
    <3> QED
      BY <1>1, <1>3, <1>4, <1>18, <3>1 DEF transportRefused, At, Calm, Fault, cur, failPreparation, Go
  <2>2. Sent(c)'
    BY <1>1, <1>2, <1>3, <1>4, <1>18 DEF Frontier, Sent, Place, PlaceOf, RowsOK, WorldOK, RunRow, ModelRow, transportRefused, failPreparation, At, Go, Ends, Calm, Fault, rows, cur
  <2>3. ToolHasPlace(c)'
    BY <1>1, <1>2, <1>3, <1>4, <1>18 DEF Frontier, ToolHasPlace, Place, PlaceOf, RowsOK, MemOK, RunRow, transportRefused, failPreparation, At, Go, Ends, Calm, Fault, rows, cur
  <2>4. PlaceInv'
    BY <1>1, <1>2, <1>3, <1>4, <1>18 DEF Frontier, Sent, ToolHasPlace, Place, PlaceOf, PlaceInv, RowsOK, WorldOK, MemOK, RunRow, ModelRow, transportRefused, failPreparation, At, Go, Ends, Calm, Fault, rows, cur
  <2>5. /\ run'[c].status = "running" => worker'[c] = "active"
        /\ Holds(c)' => Holds(c) \/ installedWorkerSlotAvailable(c)
    <3>1. (run' = run \/ run' = [run EXCEPT ![c].stop = TRUE]) /\ worker' = worker
      BY <1>1, <1>2, <1>3, <1>4, <1>18 DEF transportRefused, failPreparation, cur
    <3> QED
      BY <1>2, <1>3, <1>4, <3>1 DEF Holds, RowsOK, RunRow
  <2> QED
    BY <2>1, <2>2, <2>3, <2>4, <2>5
<1>19. CASE claimInvocationDispatch
  <2>1. Frontier(c)'
    BY <1>1, <1>2, <1>3, <1>4, <1>19 DEF Frontier, Place, PlaceOf, RowsOK, MemOK, RunRow, ModelRow, claimInvocationDispatch, At, Go, Ends, Calm, Fault, rows, cur
  <2>2. Sent(c)'
    BY <1>1, <1>2, <1>3, <1>4, <1>19 DEF Frontier, Sent, Place, PlaceOf, RowsOK, WorldOK, RunRow, ModelRow, claimInvocationDispatch, At, Go, Ends, Calm, Fault, rows, cur
  <2>3. ToolHasPlace(c)'
    BY <1>1, <1>2, <1>3, <1>4, <1>19 DEF Frontier, ToolHasPlace, Place, PlaceOf, RowsOK, MemOK, RunRow, claimInvocationDispatch, At, Go, Ends, Calm, Fault, rows, cur
  <2>4. PlaceInv'
    BY <1>1, <1>2, <1>3, <1>4, <1>19 DEF Frontier, Sent, ToolHasPlace, Place, PlaceOf, PlaceInv, RowsOK, WorldOK, MemOK, RunRow, ModelRow, claimInvocationDispatch, At, Go, Ends, Calm, Fault, rows, cur
  <2>5. /\ run'[c].status = "running" => worker'[c] = "active"
        /\ Holds(c)' => Holds(c) \/ installedWorkerSlotAvailable(c)
    BY <1>1, <1>2, <1>3, <1>4, <1>19 DEF Holds, Place, PlaceOf, RowsOK, RunRow, claimInvocationDispatch, At, Go, Ends, Calm, Fault, rows, cur
  <2> QED
    BY <2>1, <2>2, <2>3, <2>4, <2>5
<1>20. CASE claimRefused
  <2>1. Frontier(c)'
    BY <1>1, <1>2, <1>3, <1>4, <1>20 DEF Frontier, Place, PlaceOf, RowsOK, MemOK, RunRow, ModelRow, claimRefused, failPreparation, At, Go, Ends, Calm, Fault, rows, cur
  <2>2. Sent(c)'
    BY <1>1, <1>2, <1>3, <1>4, <1>20 DEF Frontier, Sent, Place, PlaceOf, RowsOK, WorldOK, RunRow, ModelRow, claimRefused, failPreparation, At, Go, Ends, Calm, Fault, rows, cur
  <2>3. ToolHasPlace(c)'
    BY <1>1, <1>2, <1>3, <1>4, <1>20 DEF Frontier, ToolHasPlace, Place, PlaceOf, RowsOK, MemOK, RunRow, claimRefused, failPreparation, At, Go, Ends, Calm, Fault, rows, cur
  <2>4. PlaceInv'
    BY <1>1, <1>2, <1>3, <1>4, <1>20 DEF Frontier, Sent, ToolHasPlace, Place, PlaceOf, PlaceInv, RowsOK, WorldOK, MemOK, RunRow, ModelRow, claimRefused, failPreparation, At, Go, Ends, Calm, Fault, rows, cur
  <2>5. /\ run'[c].status = "running" => worker'[c] = "active"
        /\ Holds(c)' => Holds(c) \/ installedWorkerSlotAvailable(c)
    BY <1>1, <1>2, <1>3, <1>4, <1>20 DEF Holds, Place, PlaceOf, RowsOK, RunRow, claimRefused, failPreparation, At, Go, Ends, Calm, Fault, rows, cur
  <2> QED
    BY <2>1, <2>2, <2>3, <2>4, <2>5
<1>21. CASE connect
  <2>1. Frontier(c)'
    BY <1>1, <1>2, <1>3, <1>4, <1>21 DEF Frontier, Place, PlaceOf, RowsOK, MemOK, RunRow, ModelRow, connect, At, Go, Ends, Calm, Fault, rows, cur
  <2>2. Sent(c)'
    BY <1>1, <1>2, <1>3, <1>4, <1>21 DEF Frontier, Sent, Place, PlaceOf, RowsOK, WorldOK, RunRow, ModelRow, connect, At, Go, Ends, Calm, Fault, rows, cur
  <2>3. ToolHasPlace(c)'
    BY <1>1, <1>2, <1>3, <1>4, <1>21 DEF Frontier, ToolHasPlace, Place, PlaceOf, RowsOK, MemOK, RunRow, connect, At, Go, Ends, Calm, Fault, rows, cur
  <2>4. PlaceInv'
    BY <1>1, <1>2, <1>3, <1>4, <1>21 DEF Frontier, Sent, ToolHasPlace, Place, PlaceOf, PlaceInv, RowsOK, WorldOK, MemOK, RunRow, ModelRow, connect, At, Go, Ends, Calm, Fault, rows, cur
  <2>5. /\ run'[c].status = "running" => worker'[c] = "active"
        /\ Holds(c)' => Holds(c) \/ installedWorkerSlotAvailable(c)
    BY <1>1, <1>2, <1>3, <1>4, <1>21 DEF Holds, Place, PlaceOf, RowsOK, RunRow, connect, At, Go, Ends, Calm, Fault, rows, cur
  <2> QED
    BY <2>1, <2>2, <2>3, <2>4, <2>5
<1>22. CASE releaseBody
  <2>1. Frontier(c)'
    BY <1>1, <1>2, <1>3, <1>4, <1>22 DEF Frontier, Place, PlaceOf, RowsOK, MemOK, RunRow, ModelRow, releaseBody, At, Go, Ends, Calm, Fault, rows, cur
  <2>2. Sent(c)'
    BY <1>1, <1>2, <1>3, <1>4, <1>22 DEF Frontier, Sent, Place, PlaceOf, RowsOK, WorldOK, RunRow, ModelRow, releaseBody, At, Go, Ends, Calm, Fault, rows, cur
  <2>3. ToolHasPlace(c)'
    BY <1>1, <1>2, <1>3, <1>4, <1>22 DEF Frontier, ToolHasPlace, Place, PlaceOf, RowsOK, MemOK, RunRow, releaseBody, At, Go, Ends, Calm, Fault, rows, cur
  <2>4. PlaceInv'
    BY <1>1, <1>2, <1>3, <1>4, <1>22 DEF Frontier, Sent, ToolHasPlace, Place, PlaceOf, PlaceInv, RowsOK, WorldOK, MemOK, RunRow, ModelRow, releaseBody, At, Go, Ends, Calm, Fault, rows, cur
  <2>5. /\ run'[c].status = "running" => worker'[c] = "active"
        /\ Holds(c)' => Holds(c) \/ installedWorkerSlotAvailable(c)
    BY <1>1, <1>2, <1>3, <1>4, <1>22 DEF Holds, Place, PlaceOf, RowsOK, RunRow, releaseBody, At, Go, Ends, Calm, Fault, rows, cur
  <2> QED
    BY <2>1, <2>2, <2>3, <2>4, <2>5
<1>23. CASE response
  <2>1. Frontier(c)'
    BY <1>1, <1>2, <1>3, <1>4, <1>23 DEF Frontier, Place, PlaceOf, RowsOK, MemOK, RunRow, ModelRow, response, At, Go, Ends, Calm, Fault, rows, cur
  <2>2. Sent(c)'
    BY <1>1, <1>2, <1>3, <1>4, <1>23 DEF Frontier, Sent, Place, PlaceOf, RowsOK, WorldOK, RunRow, ModelRow, response, At, Go, Ends, Calm, Fault, rows, cur
  <2>3. ToolHasPlace(c)'
    BY <1>1, <1>2, <1>3, <1>4, <1>23 DEF Frontier, ToolHasPlace, Place, PlaceOf, RowsOK, MemOK, RunRow, response, At, Go, Ends, Calm, Fault, rows, cur
  <2>4. PlaceInv'
    BY <1>1, <1>2, <1>3, <1>4, <1>23, SMTT(30) DEF Frontier, Sent, ToolHasPlace, Place, PlaceOf, PlaceInv, RowsOK, WorldOK, MemOK, RunRow, ModelRow, response, At, Go, Ends, Calm, Fault, rows, cur
  <2>5. /\ run'[c].status = "running" => worker'[c] = "active"
        /\ Holds(c)' => Holds(c) \/ installedWorkerSlotAvailable(c)
    BY <1>1, <1>2, <1>3, <1>4, <1>23 DEF Holds, Place, PlaceOf, RowsOK, RunRow, response, At, Go, Ends, Calm, Fault, rows, cur
  <2> QED
    BY <2>1, <2>2, <2>3, <2>4, <2>5
<1>24. CASE dispatchFails
  <2>1. Frontier(c)'
    BY <1>1, <1>2, <1>3, <1>4, <1>24 DEF Frontier, Place, PlaceOf, RowsOK, MemOK, RunRow, ModelRow, dispatchFails, At, Go, Ends, Calm, Fault, rows, cur
  <2>2. Sent(c)'
    BY <1>1, <1>2, <1>3, <1>4, <1>24 DEF Frontier, Sent, Place, PlaceOf, RowsOK, WorldOK, RunRow, ModelRow, dispatchFails, At, Go, Ends, Calm, Fault, rows, cur
  <2>3. ToolHasPlace(c)'
    BY <1>1, <1>2, <1>3, <1>4, <1>24 DEF Frontier, ToolHasPlace, Place, PlaceOf, RowsOK, MemOK, RunRow, dispatchFails, At, Go, Ends, Calm, Fault, rows, cur
  <2>4. PlaceInv'
    BY <1>1, <1>2, <1>3, <1>4, <1>24 DEF Frontier, Sent, ToolHasPlace, Place, PlaceOf, PlaceInv, RowsOK, WorldOK, MemOK, RunRow, ModelRow, dispatchFails, At, Go, Ends, Calm, Fault, rows, cur
  <2>5. /\ run'[c].status = "running" => worker'[c] = "active"
        /\ Holds(c)' => Holds(c) \/ installedWorkerSlotAvailable(c)
    BY <1>1, <1>2, <1>3, <1>4, <1>24 DEF Holds, Place, PlaceOf, RowsOK, RunRow, dispatchFails, At, Go, Ends, Calm, Fault, rows, cur
  <2> QED
    BY <2>1, <2>2, <2>3, <2>4, <2>5
<1>25. CASE settleInstalledModelClosure
  <2>1. Frontier(c)'
    BY <1>1, <1>2, <1>3, <1>4, <1>25 DEF Frontier, Place, PlaceOf, RowsOK, MemOK, RunRow, ModelRow, settleInstalledModelClosure, closed, At, Go, Ends, Calm, Fault, rows, cur
  <2>2. Sent(c)'
    BY <1>1, <1>2, <1>3, <1>4, <1>25 DEF Frontier, Sent, Place, PlaceOf, RowsOK, WorldOK, RunRow, ModelRow, settleInstalledModelClosure, closed, At, Go, Ends, Calm, Fault, rows, cur
  <2>3. ToolHasPlace(c)'
    BY <1>1, <1>2, <1>3, <1>4, <1>25 DEF Frontier, ToolHasPlace, Place, PlaceOf, RowsOK, MemOK, RunRow, settleInstalledModelClosure, closed, At, Go, Ends, Calm, Fault, rows, cur
  <2>4. PlaceInv'
    BY <1>1, <1>2, <1>3, <1>4, <1>25 DEF Frontier, Sent, ToolHasPlace, Place, PlaceOf, PlaceInv, RowsOK, WorldOK, MemOK, RunRow, ModelRow, settleInstalledModelClosure, closed, At, Go, Ends, Calm, Fault, rows, cur
  <2>5. /\ run'[c].status = "running" => worker'[c] = "active"
        /\ Holds(c)' => Holds(c) \/ installedWorkerSlotAvailable(c)
    BY <1>1, <1>2, <1>3, <1>4, <1>25 DEF Holds, Place, PlaceOf, RowsOK, RunRow, settleInstalledModelClosure, closed, At, Go, Ends, Calm, Fault, rows, cur
  <2> QED
    BY <2>1, <2>2, <2>3, <2>4, <2>5
<1>26. CASE settleInstalledModelCompletion
  <2>1. Frontier(c)'
    BY <1>1, <1>2, <1>3, <1>4, <1>26 DEF Frontier, Place, PlaceOf, RowsOK, MemOK, RunRow, ModelRow, settleInstalledModelCompletion, completeModel, At, Go, Ends, Calm, Fault, rows, cur, NoModel
  <2>2. Sent(c)'
    BY <1>1, <1>2, <1>3, <1>4, <1>26 DEF Frontier, Sent, Place, PlaceOf, RowsOK, WorldOK, RunRow, ModelRow, settleInstalledModelCompletion, completeModel, At, Go, Ends, Calm, Fault, rows, cur, NoModel
  <2>3. ToolHasPlace(c)'
    BY <1>1, <1>2, <1>3, <1>4, <1>26 DEF Frontier, ToolHasPlace, Place, PlaceOf, RowsOK, MemOK, RunRow, settleInstalledModelCompletion, completeModel, At, Go, Ends, Calm, Fault, rows, cur, NoModel
  <2>4. PlaceInv'
    BY <1>1, <1>2, <1>3, <1>4, <1>26 DEF Frontier, Sent, ToolHasPlace, Place, PlaceOf, PlaceInv, RowsOK, WorldOK, MemOK, RunRow, ModelRow, settleInstalledModelCompletion, completeModel, At, Go, Ends, Calm, Fault, rows, cur, NoModel
  <2>5. /\ run'[c].status = "running" => worker'[c] = "active"
        /\ Holds(c)' => Holds(c) \/ installedWorkerSlotAvailable(c)
    BY <1>1, <1>2, <1>3, <1>4, <1>26 DEF Holds, Place, PlaceOf, RowsOK, RunRow, settleInstalledModelCompletion, completeModel, At, Go, Ends, Calm, Fault, rows, cur, NoModel
  <2> QED
    BY <2>1, <2>2, <2>3, <2>4, <2>5
<1>27. CASE prepareTool
  <2>1. Frontier(c)'
    <3>1. CASE /\ tool' = [tool EXCEPT ![c] = "prepared"] /\ lane = "toolPrepare"
              /\ run[c].status \notin {"absent", "queued"} /\ UNCHANGED <<run, model, kept>>
      BY <1>1, <1>2, <1>3, <1>4, <3>1 DEF Frontier, Place, PlaceOf, RowsOK, MemOK, RunRow, ModelRow, At, Go, Ends, Calm, Fault, rows, cur
    <3>2. CASE /\ run' = [run EXCEPT ![c].next = "agent", ![c].status = "queued"]
              /\ lane = "toolPrepare" /\ UNCHANGED <<tool, model, kept>>
      BY <1>1, <1>2, <1>3, <1>4, <3>2 DEF Frontier, Place, PlaceOf, RowsOK, MemOK, RunRow, ModelRow, At, Go, Ends, Calm, Fault, rows, cur
    <3> QED
      BY <1>1, <1>3, <1>4, <1>27, <3>1, <3>2 DEF prepareTool, At, Calm, Fault, cur, Place, PlaceOf
  <2>2. Sent(c)'
    BY <1>1, <1>2, <1>3, <1>4, <1>27 DEF Frontier, Sent, Place, PlaceOf, RowsOK, WorldOK, RunRow, ModelRow, prepareTool, At, Go, Ends, Calm, Fault, rows, cur
  <2>3. ToolHasPlace(c)'
    BY <1>1, <1>2, <1>3, <1>4, <1>27 DEF Frontier, ToolHasPlace, Place, PlaceOf, RowsOK, MemOK, RunRow, prepareTool, At, Go, Ends, Calm, Fault, rows, cur
  <2>4. PlaceInv'
    BY <1>1, <1>2, <1>3, <1>4, <1>27, SMTT(30) DEF Frontier, Sent, ToolHasPlace, Place, PlaceOf, PlaceInv, RowsOK, WorldOK, MemOK, RunRow, ModelRow, prepareTool, At, Go, Ends, Calm, Fault, rows, cur
  <2>5. /\ run'[c].status = "running" => worker'[c] = "active"
        /\ Holds(c)' => Holds(c) \/ installedWorkerSlotAvailable(c)
    BY <1>1, <1>2, <1>3, <1>4, <1>27 DEF Holds, Place, PlaceOf, RowsOK, RunRow, prepareTool, At, Go, Ends, Calm, Fault, rows, cur
  <2> QED
    BY <2>1, <2>2, <2>3, <2>4, <2>5
<1>28. CASE claimTool
  <2>1. Frontier(c)'
    BY <1>1, <1>2, <1>3, <1>4, <1>28 DEF Frontier, Place, PlaceOf, RowsOK, MemOK, RunRow, ModelRow, claimTool, At, Go, Ends, Calm, Fault, rows, cur
  <2>2. Sent(c)'
    BY <1>1, <1>2, <1>3, <1>4, <1>28 DEF Frontier, Sent, Place, PlaceOf, RowsOK, WorldOK, RunRow, ModelRow, claimTool, At, Go, Ends, Calm, Fault, rows, cur
  <2>3. ToolHasPlace(c)'
    BY <1>1, <1>2, <1>3, <1>4, <1>28 DEF Frontier, ToolHasPlace, Place, PlaceOf, RowsOK, MemOK, RunRow, claimTool, At, Go, Ends, Calm, Fault, rows, cur
  <2>4. PlaceInv'
    BY <1>1, <1>2, <1>3, <1>4, <1>28 DEF Frontier, Sent, ToolHasPlace, Place, PlaceOf, PlaceInv, RowsOK, WorldOK, MemOK, RunRow, ModelRow, claimTool, At, Go, Ends, Calm, Fault, rows, cur
  <2>5. /\ run'[c].status = "running" => worker'[c] = "active"
        /\ Holds(c)' => Holds(c) \/ installedWorkerSlotAvailable(c)
    BY <1>1, <1>2, <1>3, <1>4, <1>28 DEF Holds, Place, PlaceOf, RowsOK, RunRow, claimTool, At, Go, Ends, Calm, Fault, rows, cur
  <2> QED
    BY <2>1, <2>2, <2>3, <2>4, <2>5
<1>29. CASE releaseTool
  <2>1. Frontier(c)'
    BY <1>1, <1>2, <1>3, <1>4, <1>29 DEF Frontier, Place, PlaceOf, RowsOK, MemOK, RunRow, ModelRow, releaseTool, At, Go, Ends, Calm, Fault, rows, cur
  <2>2. Sent(c)'
    BY <1>1, <1>2, <1>3, <1>4, <1>29 DEF Frontier, Sent, Place, PlaceOf, RowsOK, WorldOK, RunRow, ModelRow, releaseTool, At, Go, Ends, Calm, Fault, rows, cur
  <2>3. ToolHasPlace(c)'
    BY <1>1, <1>2, <1>3, <1>4, <1>29 DEF Frontier, ToolHasPlace, Place, PlaceOf, RowsOK, MemOK, RunRow, releaseTool, At, Go, Ends, Calm, Fault, rows, cur
  <2>4. PlaceInv'
    BY <1>1, <1>2, <1>3, <1>4, <1>29 DEF Frontier, Sent, ToolHasPlace, Place, PlaceOf, PlaceInv, RowsOK, WorldOK, MemOK, RunRow, ModelRow, releaseTool, At, Go, Ends, Calm, Fault, rows, cur
  <2>5. /\ run'[c].status = "running" => worker'[c] = "active"
        /\ Holds(c)' => Holds(c) \/ installedWorkerSlotAvailable(c)
    BY <1>1, <1>2, <1>3, <1>4, <1>29 DEF Holds, Place, PlaceOf, RowsOK, RunRow, releaseTool, At, Go, Ends, Calm, Fault, rows, cur
  <2> QED
    BY <2>1, <2>2, <2>3, <2>4, <2>5
<1>30. CASE toolResult
  <2>1. Frontier(c)'
    BY <1>1, <1>2, <1>3, <1>4, <1>30 DEF Frontier, Place, PlaceOf, RowsOK, MemOK, RunRow, ModelRow, toolResult, At, Go, Ends, Calm, Fault, rows, cur
  <2>2. Sent(c)'
    BY <1>1, <1>2, <1>3, <1>4, <1>30 DEF Frontier, Sent, Place, PlaceOf, RowsOK, WorldOK, RunRow, ModelRow, toolResult, At, Go, Ends, Calm, Fault, rows, cur
  <2>3. ToolHasPlace(c)'
    BY <1>1, <1>2, <1>3, <1>4, <1>30 DEF Frontier, ToolHasPlace, Place, PlaceOf, RowsOK, MemOK, RunRow, toolResult, At, Go, Ends, Calm, Fault, rows, cur
  <2>4. PlaceInv'
    BY <1>1, <1>2, <1>3, <1>4, <1>30 DEF Frontier, Sent, ToolHasPlace, Place, PlaceOf, PlaceInv, RowsOK, WorldOK, MemOK, RunRow, ModelRow, toolResult, At, Go, Ends, Calm, Fault, rows, cur
  <2>5. /\ run'[c].status = "running" => worker'[c] = "active"
        /\ Holds(c)' => Holds(c) \/ installedWorkerSlotAvailable(c)
    BY <1>1, <1>2, <1>3, <1>4, <1>30 DEF Holds, Place, PlaceOf, RowsOK, RunRow, toolResult, At, Go, Ends, Calm, Fault, rows, cur
  <2> QED
    BY <2>1, <2>2, <2>3, <2>4, <2>5
<1>31. CASE toolLost
  <2>1. Frontier(c)'
    BY <1>1, <1>2, <1>3, <1>4, <1>31 DEF Frontier, Place, PlaceOf, RowsOK, MemOK, RunRow, ModelRow, toolLost, Lost, At, Go, Ends, Calm, Fault, rows, cur
  <2>2. Sent(c)'
    BY <1>1, <1>2, <1>3, <1>4, <1>31 DEF Frontier, Sent, Place, PlaceOf, RowsOK, WorldOK, RunRow, ModelRow, toolLost, Lost, At, Go, Ends, Calm, Fault, rows, cur
  <2>3. ToolHasPlace(c)'
    BY <1>1, <1>2, <1>3, <1>4, <1>31 DEF Frontier, ToolHasPlace, Place, PlaceOf, RowsOK, MemOK, RunRow, toolLost, Lost, At, Go, Ends, Calm, Fault, rows, cur
  <2>4. PlaceInv'
    BY <1>1, <1>2, <1>3, <1>4, <1>31 DEF Frontier, Sent, ToolHasPlace, Place, PlaceOf, PlaceInv, RowsOK, WorldOK, MemOK, RunRow, ModelRow, toolLost, Lost, At, Go, Ends, Calm, Fault, rows, cur
  <2>5. /\ run'[c].status = "running" => worker'[c] = "active"
        /\ Holds(c)' => Holds(c) \/ installedWorkerSlotAvailable(c)
    BY <1>1, <1>2, <1>3, <1>4, <1>31 DEF Holds, Place, PlaceOf, RowsOK, RunRow, toolLost, Lost, At, Go, Ends, Calm, Fault, rows, cur
  <2> QED
    BY <2>1, <2>2, <2>3, <2>4, <2>5
<1>32. CASE finishTool
  <2>1. Frontier(c)'
    BY <1>1, <1>2, <1>3, <1>4, <1>32, SMTT(30) DEF Frontier, Place, PlaceOf, RowsOK, MemOK, RunRow, ModelRow, finishTool, finished, At, Go, Ends, Calm, Fault, rows, cur
  <2>2. Sent(c)'
    BY <1>1, <1>2, <1>3, <1>4, <1>32 DEF Frontier, Sent, Place, PlaceOf, RowsOK, WorldOK, RunRow, ModelRow, finishTool, finished, At, Go, Ends, Calm, Fault, rows, cur
  <2>3. ToolHasPlace(c)'
    BY <1>1, <1>2, <1>3, <1>4, <1>32 DEF Frontier, ToolHasPlace, Place, PlaceOf, RowsOK, MemOK, RunRow, finishTool, finished, At, Go, Ends, Calm, Fault, rows, cur
  <2>4. PlaceInv'
    BY <1>1, <1>2, <1>3, <1>4, <1>32 DEF Frontier, Sent, ToolHasPlace, Place, PlaceOf, PlaceInv, RowsOK, WorldOK, MemOK, RunRow, ModelRow, finishTool, finished, At, Go, Ends, Calm, Fault, rows, cur
  <2>5. /\ run'[c].status = "running" => worker'[c] = "active"
        /\ Holds(c)' => Holds(c) \/ installedWorkerSlotAvailable(c)
    BY <1>1, <1>2, <1>3, <1>4, <1>32 DEF Holds, Place, PlaceOf, RowsOK, RunRow, finishTool, finished, At, Go, Ends, Calm, Fault, rows, cur
  <2> QED
    BY <2>1, <2>2, <2>3, <2>4, <2>5
<1> QED
  BY <1>5, <1>6, <1>7, <1>8, <1>9, <1>10, <1>11, <1>12, <1>13, <1>14, <1>15, <1>16, <1>17, <1>18, <1>19, <1>20, <1>21, <1>22, <1>23, <1>24, <1>25, <1>26, <1>27, <1>28, <1>29, <1>30, <1>31, <1>32 DEF Lane

\* A Run that a step leaves alone keeps its frontier.
LEMMA SameKeeps ==
  ASSUME NEW r \in Run, Same(r), Frontier(r), Sent(r)
  PROVE  Frontier(r)' /\ Sent(r)'
BY DEF Same, Frontier, Sent

LEMMA LaneAdmits == ASSUME SupervisorInv, Lane PROVE AdmissionInv'
<1>1. /\ adm' = adm /\ tasks # <<>> /\ cur \in Run
      /\ tasks' = tasks \/ (lane' = "idle" /\ tasks' = Tail(tasks))
      /\ \A r \in Run \ {cur} : Same(r)
  BY LaneFrame DEF SupervisorInv
<1>2. PICK c \in Run : c = cur
  BY <1>1
<1>3. run \in [Run -> RunRow] /\ AdmissionInv
  BY DEF SupervisorInv, SupervisorTyped, RowsOK
<1>4. driveInstalledRun \/ lane \notin {"idle", "drive"}
  BY DEF Lane, At, ownOperation, fence, recoverWorker, recoverRefused, resumeCurrentRetirement, finishCurrentStop,
         activateWorker, activateWorkerLease, stopForModelFailure, prepareModel, prepareModelTransport,
         transportReady, transportRefused, claimInvocationDispatch, claimRefused, connect, releaseBody,
         response, dispatchFails, settleInstalledModelClosure, settleInstalledModelCompletion, prepareTool,
         claimTool, releaseTool, toolResult, toolLost, finishTool
<1>5. CASE driveInstalledRun
  <2>1. run' = run
    BY <1>5 DEF driveInstalledRun, rows
  <2>2. tasks' = tasks /\ lane' \notin {"idle", "drive"} => lane' = choice(cur) /\ choice(cur) # "end"
    BY <1>1, <1>5 DEF driveInstalledRun, Ends, Go
  <2>3. choice(cur) # "end" => run[cur].status # "absent"
    BY DEF choice, live
  <2> QED
    BY <1>1, <1>3, <2>1, <2>2, <2>3 DEF AdmissionInv, cur
<1>6. CASE ~driveInstalledRun
  <2>1. run[c].status # "absent"
    BY <1>1, <1>2, <1>3, <1>4, <1>6 DEF AdmissionInv
  <2>2. run'[c].status # "absent"
    <3>1. CASE ownOperation \/ fence \/ recoverWorker \/ recoverRefused \/ resumeCurrentRetirement \/ finishCurrentStop
               \/ activateWorker \/ activateWorkerLease
      BY <1>2, <1>3, <2>1, <3>1, ZenonT(40) DEF ownOperation, Lost, fence, recoverWorker, recoverRefused, resumeCurrentRetirement,
         finishCurrentStop, activateWorker, activateWorkerLease, rows, RunRow
    <3>2. CASE stopForModelFailure \/ prepareModel \/ prepareModelTransport \/ transportReady
               \/ transportRefused \/ claimInvocationDispatch \/ claimRefused \/ connect \/ releaseBody
      BY <1>2, <1>3, <2>1, <3>2 DEF stopForModelFailure, prepareModel, prepareModelTransport, transportReady,
         transportRefused, claimInvocationDispatch, claimRefused, connect, releaseBody, rows, RunRow
    <3>3. CASE response \/ dispatchFails \/ settleInstalledModelClosure \/ claimTool \/ releaseTool \/ toolResult
      <4>1. run' = run
        BY <3>3 DEF response, dispatchFails, settleInstalledModelClosure, claimTool, releaseTool, toolResult, rows
      <4> QED
        BY <2>1, <4>1
    <3>4. CASE settleInstalledModelCompletion
      <4>1. run' = run \/ run' = [run EXCEPT ![cur].next = "tool"]
        BY <3>4 DEF settleInstalledModelCompletion, completeModel
      <4> QED
        BY <1>2, <1>3, <2>1, <4>1 DEF RunRow
    <3>5. CASE prepareTool
      BY <1>2, <1>3, <2>1, <3>5 DEF prepareTool, RunRow
    <3>6. CASE toolLost
      BY <1>2, <1>3, <2>1, <3>6 DEF toolLost, Lost, RunRow
    <3>7. CASE finishTool
      BY <1>2, <1>3, <2>1, <3>7 DEF finishTool, finished, RunRow
    <3> QED
      BY <1>6, <3>1, <3>2, <3>3, <3>4, <3>5, <3>6, <3>7 DEF Lane
  <2>3. \A r \in Run : adm'[r] = "begun" => run'[r].status = "absent"
    BY <1>1, <1>2, <1>3, <2>1 DEF AdmissionInv, Same
  <2>4. tasks' = tasks \/ lane' = "idle"
    BY <1>1
  <2>5. tasks' = tasks => cur' = c
    BY <1>2 DEF cur
  <2> QED
    BY <2>2, <2>3, <2>4, <2>5 DEF AdmissionInv
<1> QED
  BY <1>5, <1>6

LEMMA LaneKeeps ==
  ASSUME SupervisorInv, Lane
  PROVE  FlagsOK' /\ LaneHasTask' /\ AdmissionInv' /\ FrontierInv' /\ SentInv' /\ ToolInv' /\ PlaceInv' /\ SlotInv'
<1>1. /\ Up /\ owner' = owner /\ flags' = flags /\ adm' = adm /\ tasks # <<>> /\ cur \in Run
      /\ tasks' = tasks \/ (lane' = "idle" /\ tasks' = Tail(tasks))
      /\ \A r \in Run \ {cur} : Same(r)
  BY LaneFrame DEF SupervisorInv
<1>2. PICK c \in Run : c = cur
  BY <1>1
<1>3. /\ Frontier(c)' /\ Sent(c)' /\ ToolHasPlace(c)' /\ PlaceInv'
      /\ run'[c].status = "running" => worker'[c] = "active"
      /\ Holds(c)' => Holds(c) \/ installedWorkerSlotAvailable(c)
  BY <1>2, LaneStep
<1>4. FlagsOK' /\ LaneHasTask'
  BY <1>1 DEF SupervisorInv, FlagsOK, LaneHasTask, Up
<1>5. FrontierInv' /\ SentInv'
  <2> SUFFICES ASSUME NEW r \in Run PROVE Frontier(r)' /\ Sent(r)'
    BY DEF FrontierInv, SentInv
  <2>1. CASE r = c
    BY <1>3, <2>1
  <2>2. CASE r # c
    BY <1>1, <1>2, <2>2, SameKeeps DEF SupervisorInv, FrontierInv, SentInv
  <2> QED
    BY <2>1, <2>2
<1>6. ToolInv'
  <2> SUFFICES ASSUME NEW r \in Run PROVE ToolHasPlace(r)'
    BY DEF ToolInv
  <2>1. CASE r = c
    BY <1>3, <2>1
  <2>2. CASE r # c
    <3>1. Same(r) /\ ToolHasPlace(r) /\ r # cur
      BY <1>1, <1>2, <2>2 DEF SupervisorInv, ToolInv
    <3> QED
      BY <3>1 DEF Same, ToolHasPlace
  <2> QED
    BY <2>1, <2>2
<1>7. SlotInv'
  <2>1. \A r \in Run : run[r].status = "running" => worker[r] = "active"
    BY DEF SupervisorInv, SlotInv
  <2>2. \A r, s \in Run : Holds(r) /\ Holds(s) => r = s
    BY DEF SupervisorInv, SlotInv
  <2>3. \A r \in Run \ {c} : run'[r] = run[r] /\ worker'[r] = worker[r] /\ (Holds(r)' <=> Holds(r))
    BY <1>1, <1>2 DEF Same, Holds
  <2>4. installedWorkerSlotAvailable(c) => \A r \in Run \ {c} : ~Holds(r)
    BY DEF installedWorkerSlotAvailable, Holds
  <2>5. \A r \in Run : run'[r].status = "running" => worker'[r] = "active"
    BY <1>3, <2>1, <2>3
  <2>6. \A r, s \in Run : Holds(r)' /\ Holds(s)' => r = s
    BY <1>3, <2>2, <2>3, <2>4
  <2> QED
    BY <2>5, <2>6 DEF SlotInv
<1> QED
  BY <1>3, <1>4, <1>5, <1>6, <1>7, LaneAdmits

\* ---- opening, stops and shutdowns -------------------------------------------------------------

\* A step that changes no row, no result and no task.
Idles == UNCHANGED <<rows, net, done, tasks, lane, kept, owns, adm>>

LEMMA IdleKeeps ==
  ASSUME SupervisorInv, Idles
  PROVE  AdmissionInv' /\ FrontierInv' /\ SentInv' /\ ToolInv' /\ PlaceInv' /\ SlotInv'
<1>1. /\ run' = run /\ worker' = worker /\ model' = model /\ tool' = tool /\ net' = net /\ done' = done
      /\ tasks' = tasks /\ lane' = lane /\ kept' = kept /\ owns' = owns /\ adm' = adm
  BY DEF Idles, rows
<1> QED
  BY <1>1 DEF SupervisorInv, AdmissionInv, FrontierInv, Frontier, SentInv, Sent, ToolInv, ToolHasPlace, PlaceInv,
              Place, PlaceOf, SlotInv, Holds, cur, installedWorkerSlotAvailable

\* An admission, a stop and a drive touch neither what the lane relies on nor
\* what was sent: a Run gets its row, a stop intent or a task.
Asks(r) ==
    /\ \A s \in Run : /\ run'[s].next = run[s].next
                      /\ \/ run'[s].status = run[s].status
                         \/ run[s].status = "absent" /\ run'[s].status = "queued"
    /\ UNCHANGED <<worker, model, tool, net, done, lane, kept, owns>>
    /\ tasks' = tasks \/ tasks' = scheduled(tasks, r)

LEMMA AsksKeeps ==
  ASSUME SupervisorInv, NEW r \in Run, Asks(r)
  PROVE  FrontierInv' /\ SentInv' /\ ToolInv' /\ PlaceInv' /\ SlotInv'
<1>1. /\ worker' = worker /\ model' = model /\ tool' = tool /\ net' = net /\ done' = done
      /\ lane' = lane /\ kept' = kept /\ owns' = owns
      /\ \A s \in Run : /\ run'[s].next = run[s].next
                        /\ \/ run'[s].status = run[s].status
                           \/ run[s].status = "absent" /\ run'[s].status = "queued"
  BY DEF Asks
<1>2. tasks # <<>> => tasks' # <<>> /\ cur' = cur /\ cur \in Run
  <2>1. SupervisorTyped
    BY DEF SupervisorInv
  <2>2. tasks # <<>> => cur \in Run
    BY <2>1, Driven
  <2>3. tasks # <<>> => scheduled(tasks, r) # <<>> /\ Head(scheduled(tasks, r)) = cur
    BY <2>1, Scheduled
  <2>4. tasks' = tasks \/ tasks' = scheduled(tasks, r)
    BY DEF Asks
  <2>5. cur' = Head(tasks') /\ cur = Head(tasks)
    BY DEF cur
  <2> QED
    BY <2>2, <2>3, <2>4, <2>5
<1>3. tasks = <<>> => lane = "idle"
  BY DEF SupervisorInv, LaneHasTask
<1>4. FrontierInv' /\ SentInv'
  BY <1>1 DEF SupervisorInv, FrontierInv, Frontier, SentInv, Sent
<1>5. ToolInv'
  <2> SUFFICES ASSUME NEW s \in Run PROVE ToolHasPlace(s)'
    BY DEF ToolInv
  <2>1. ToolHasPlace(s)
    BY DEF SupervisorInv, ToolInv
  <2> QED
    BY <1>1, <1>2, <2>1 DEF ToolHasPlace
<1>6. PlaceInv'
  <2>1. CASE tasks = <<>>
    BY <1>1, <1>3, <2>1 DEF PlaceInv, Place, PlaceOf
  <2>2. CASE tasks # <<>>
    <3>1. PICK c \in Run : c = cur /\ cur' = c
      BY <1>2, <2>2
    <3>2. PlaceOf(lane, c)
      BY <2>2, <3>1 DEF SupervisorInv, PlaceInv, Place
    <3>3. /\ run'[c].next = run[c].next
          /\ run[c].status \in {"running", "queued"} => run'[c].status = run[c].status
      BY <1>1
    <3> QED
      BY <1>1, <3>1, <3>2, <3>3 DEF PlaceInv, Place, PlaceOf, installedWorkerSlotAvailable
  <2> QED
    BY <2>1, <2>2
<1>7. SlotInv'
  BY <1>1 DEF SupervisorInv, SlotInv, Holds
<1> QED
  BY <1>4, <1>5, <1>6, <1>7

\* A lease that ran out is fenced only while its Run is not at work, so the lane
\* loses nothing that it relies on.
LEMMA LeaseKeeps ==
  ASSUME SupervisorInv, NEW r \in Run, renewCurrentWorkerLease(r)
  PROVE  FlagsOK' /\ LaneHasTask' /\ AdmissionInv' /\ FrontierInv' /\ SentInv' /\ ToolInv' /\ PlaceInv' /\ SlotInv'
<1>1. /\ model' = model /\ tool' = tool /\ net' = net /\ done' = done /\ tasks' = tasks /\ lane' = lane
      /\ kept' = kept /\ owns' = owns /\ owner' = owner /\ flags' = flags /\ adm' = adm
      /\ Up /\ r \in owns /\ run[r].status = "running" /\ ~Operating(r)
      /\ run' = [run EXCEPT ![r].status = "waiting"] /\ worker' = [worker EXCEPT ![r] = "fenced"]
  BY DEF renewCurrentWorkerLease, Maintained, world
<1>2. run \in [Run -> RunRow] /\ worker \in [Run -> {"none", "preparing", "active", "fenced", "quarantined"}]
  BY DEF SupervisorInv, SupervisorTyped, RowsOK
<1>3. /\ run'[r].status = "waiting" /\ run'[r].next = run[r].next /\ worker'[r] = "fenced"
      /\ \A s \in Run \ {r} : run'[s] = run[s] /\ worker'[s] = worker[s]
  BY <1>1, <1>2 DEF RunRow
<1>4. worker[r] = "active"
  BY <1>1 DEF SupervisorInv, SlotInv
<1>5. \A s \in Run : Holds(s)' <=> Holds(s)
  BY <1>3, <1>4 DEF Holds
<1>6. FlagsOK' /\ LaneHasTask'
  BY <1>1 DEF SupervisorInv, FlagsOK, LaneHasTask, Up
<1>7. FrontierInv' /\ SentInv'
  BY <1>1, <1>3 DEF SupervisorInv, FrontierInv, Frontier, SentInv, Sent
<1>8. ToolInv'
  BY <1>1, <1>3 DEF SupervisorInv, ToolInv, ToolHasPlace, cur
<1>9. PlaceInv'
  <2>1. CASE tasks # <<>>
    <3>1. PICK c \in Run : c = cur /\ cur' = c
      BY <1>1, <2>1, Driven DEF SupervisorInv, cur
    <3>2. PlaceOf(lane, c)
      BY <2>1, <3>1 DEF SupervisorInv, PlaceInv, Place
    <3>3. installedWorkerSlotAvailable(c)' <=> installedWorkerSlotAvailable(c)
      BY <1>3, <1>4 DEF installedWorkerSlotAvailable
    <3>4. CASE c = r
      BY <1>1, <1>3, <2>1, <3>1, <3>2, <3>3, <3>4 DEF PlaceInv, Place, PlaceOf, Operating
    <3>5. CASE c # r
      BY <1>1, <1>3, <2>1, <3>1, <3>2, <3>3, <3>5 DEF PlaceInv, Place, PlaceOf
    <3> QED
      BY <3>4, <3>5
  <2> QED
    BY <1>1, <2>1 DEF PlaceInv
<1>10. SlotInv'
  BY <1>3, <1>5 DEF SupervisorInv, SlotInv
<1>11. AdmissionInv'
  <2>1. \A s \in Run : run'[s].status = "absent" <=> run[s].status = "absent"
    BY <1>1, <1>3
  <2>2. tasks # <<>> => cur \in Run /\ cur' = cur
    BY <1>1, Driven DEF SupervisorInv, cur
  <2> QED
    BY <1>1, <2>1, <2>2 DEF SupervisorInv, AdmissionInv
<1> QED
  BY <1>6, <1>7, <1>8, <1>9, <1>10, <1>11

\* An owner comes and goes: rows and effects stay, what the process held is gone,
\* and a launch that was never activated is retired.
LEMMA ColdKeeps ==
  ASSUME SupervisorInv, open \/ Die
  PROVE  FlagsOK' /\ LaneHasTask' /\ AdmissionInv' /\ FrontierInv' /\ SentInv' /\ ToolInv' /\ PlaceInv' /\ SlotInv'
<1>1. /\ run' = run /\ model' = model /\ tool' = tool /\ net' = net /\ done' = done
      /\ tasks' = <<>> /\ lane' = "idle" /\ owns' = {}
      /\ \A r \in Run : kept'[r] = "none" /\ trans'[r] = "none" /\ adm'[r] = "none"
  BY DEF open, Die, Cold, rows
<1>2. /\ \A r \in Run : Holds(r)' => Holds(r)
      /\ \A r \in Run : worker[r] = "active" => worker'[r] = "active"
  BY DEF open, Die, rows, Holds, SupervisorInv, SupervisorTyped, RowsOK
<1>3. FlagsOK' /\ LaneHasTask'
  <2>1. FlagsOK'
    <3>1. flags' = flags \/ flags' = [closing |-> FALSE, failed |-> FALSE, timer |-> "unstarted"]
      BY DEF open, Die
    <3>2. [closing |-> FALSE, failed |-> FALSE, timer |-> "unstarted"]
            \in [closing : BOOLEAN, failed : BOOLEAN, timer : {"unstarted", "armed", "off"}]
      OBVIOUS
    <3>3. flags \in [closing : BOOLEAN, failed : BOOLEAN, timer : {"unstarted", "armed", "off"}]
      BY DEF SupervisorInv, FlagsOK
    <3> QED
      BY <3>1, <3>2, <3>3, Zenon DEF FlagsOK
  <2> QED
    BY <1>1, <2>1 DEF LaneHasTask
<1>4. FrontierInv' /\ SentInv' /\ ToolInv' /\ PlaceInv'
  BY <1>1 DEF SupervisorInv, FrontierInv, Frontier, SentInv, Sent, ToolInv, ToolHasPlace, PlaceInv
<1>a. AdmissionInv'
  BY <1>1 DEF AdmissionInv
<1>5. SlotInv'
  BY <1>1, <1>2 DEF SupervisorInv, SlotInv
<1> QED
  BY <1>3, <1>4, <1>5, <1>a

\* The successor schedules what is not over, with the lane at rest.
LEMMA StartKeeps ==
  ASSUME SupervisorInv, startInstalledRuns
  PROVE  FlagsOK' /\ LaneHasTask' /\ AdmissionInv' /\ FrontierInv' /\ SentInv' /\ ToolInv' /\ PlaceInv' /\ SlotInv'
<1>1. /\ run' = run /\ worker' = worker /\ model' = model /\ tool' = tool /\ net' = net /\ done' = done
      /\ lane' = lane /\ kept' = kept /\ owns' = owns /\ owner' = owner /\ Up
      /\ adm' = adm /\ flags' = [flags EXCEPT !.timer = "armed"]
  BY DEF startInstalledRuns, rows, world
<1>2. tasks = <<>> /\ lane = "idle"
  BY DEF startInstalledRuns, SupervisorInv, LaneHasTask
<1>3. FlagsOK' /\ LaneHasTask'
  BY <1>1, <1>2 DEF SupervisorInv, FlagsOK, LaneHasTask, Up
<1>4. FrontierInv' /\ SentInv' /\ SlotInv'
  BY <1>1 DEF SupervisorInv, FrontierInv, Frontier, SentInv, Sent, SlotInv, Holds
<1>5. ToolInv'
  BY <1>1, <1>2 DEF SupervisorInv, ToolInv, ToolHasPlace
<1>6. PlaceInv' /\ AdmissionInv'
  BY <1>1, <1>2 DEF PlaceInv, Place, PlaceOf, AdmissionInv, SupervisorInv
<1> QED
  BY <1>3, <1>4, <1>5, <1>6

\* A shutdown that has joined the lane settles what is kept and fences what is
\* held, one Run at a time.
LEMMA CloseKeeps ==
  ASSUME SupervisorInv, NEW r \in Run, closeSettles(r) \/ closeScope(r)
  PROVE  FlagsOK' /\ LaneHasTask' /\ AdmissionInv' /\ FrontierInv' /\ SentInv' /\ ToolInv' /\ PlaceInv' /\ SlotInv'
<1>1. /\ Up /\ tasks = <<>> /\ lane = "idle"
      /\ tasks' = tasks /\ lane' = lane /\ owner' = owner /\ flags' = flags
  BY DEF closeSettles, closeScope, joined, world, SupervisorInv, LaneHasTask
<1>2. \A s \in Run \ {r} : Same(s)
  BY DEF closeSettles, closeScope, completeModel, finished, Lost, world, Same, SupervisorInv, SupervisorTyped,
         RowsOK, WorldOK, MemOK
<1>3. FlagsOK' /\ LaneHasTask'
  BY <1>1 DEF SupervisorInv, FlagsOK, LaneHasTask, Up
<1>4. PlaceInv' /\ AdmissionInv'
  BY <1>1 DEF PlaceInv, closeSettles, closeScope, joined, AdmissionInv
<1>5. RowsOK /\ WorldOK /\ MemOK /\ Frontier(r) /\ Sent(r) /\ ToolHasPlace(r)
  BY DEF SupervisorInv, SupervisorTyped, FrontierInv, SentInv, ToolInv
<1>6. Frontier(r)'
  <2>1. CASE kept[r] = "closure"
    BY <1>5, <2>1 DEF closeSettles, closeScope, closed, Frontier, RowsOK, MemOK, ModelRow
  <2>2. CASE kept[r] = "completion"
    BY <1>5, <2>2 DEF closeSettles, closeScope, completeModel, Frontier, RowsOK, MemOK, ModelRow, RunRow, NoModel
  <2>3. CASE kept[r] = "tool"
    BY <1>5, <2>3 DEF closeSettles, closeScope, finished, Frontier, RowsOK, MemOK, RunRow
  <2>4. CASE kept[r] = "none"
    BY <1>5, <2>4 DEF closeSettles, closeScope, Lost, world, Frontier, RowsOK, MemOK, RunRow
  <2> QED
    BY <1>5, <2>1, <2>2, <2>3, <2>4 DEF MemOK
<1>7. Sent(r)'
  <2>1. CASE kept[r] = "closure"
    BY <1>5, <2>1 DEF closeSettles, closeScope, closed, Frontier, Sent, RowsOK, WorldOK, ModelRow
  <2>2. CASE kept[r] = "completion"
    BY <1>5, <2>2 DEF closeSettles, closeScope, completeModel, Frontier, Sent, RowsOK, WorldOK, ModelRow, NoModel
  <2>3. CASE kept[r] = "tool"
    BY <1>5, <2>3 DEF closeSettles, closeScope, finished, Frontier, Sent, RowsOK, WorldOK
  <2>4. CASE kept[r] = "none"
    BY <1>5, <2>4 DEF closeSettles, closeScope, Lost, world, Sent
  <2> QED
    BY <1>5, <2>1, <2>2, <2>3, <2>4 DEF MemOK
<1>8. ToolHasPlace(r)'
  BY <1>1, <1>5 DEF closeSettles, closeScope, completeModel, finished, Lost, world, Frontier, ToolHasPlace, RowsOK, MemOK, RunRow
<1>9. /\ run'[r].status = "running" => worker'[r] = "active"
      /\ Holds(r)' => Holds(r)
  <2>1. run[r].status = "running" => worker[r] = "active"
    BY DEF SupervisorInv, SlotInv
  <2> QED
    BY <1>5, <2>1 DEF closeSettles, closeScope, completeModel, finished, Lost, RowsOK, RunRow, Holds
<1>10. FrontierInv' /\ SentInv'
  <2> SUFFICES ASSUME NEW s \in Run PROVE Frontier(s)' /\ Sent(s)'
    BY DEF FrontierInv, SentInv
  <2>1. CASE s # r
    BY <1>2, <2>1, SameKeeps DEF SupervisorInv, FrontierInv, SentInv
  <2> QED
    BY <1>6, <1>7, <2>1
<1>11. ToolInv'
  <2> SUFFICES ASSUME NEW s \in Run, s # r PROVE ToolHasPlace(s)'
    BY <1>8 DEF ToolInv
  <2>1. Same(s) /\ ToolHasPlace(s)
    BY <1>2 DEF SupervisorInv, ToolInv
  <2> QED
    BY <1>1, <2>1 DEF Same, ToolHasPlace
<1>12. SlotInv'
  <2>1. \A s \in Run \ {r} : run'[s] = run[s] /\ worker'[s] = worker[s] /\ (Holds(s)' <=> Holds(s))
    BY <1>2 DEF Same, Holds
  <2> QED
    BY <1>9, <2>1 DEF SupervisorInv, SlotInv
<1> QED
  BY <1>3, <1>4, <1>10, <1>11, <1>12

LEMMA OtherKeeps ==
  ASSUME SupervisorInv, Other
  PROVE  FlagsOK' /\ LaneHasTask' /\ AdmissionInv' /\ FrontierInv' /\ SentInv' /\ ToolInv' /\ PlaceInv' /\ SlotInv'
<1>1. CASE open \/ Die
  BY <1>1, ColdKeeps
<1>2. CASE startInstalledRuns
  BY <1>2, StartKeeps
<1>3. CASE fenceTime \/ beginClose \/ gracefullyReleaseStateOwner \/ closeFails \/ Over
  <2>1. Idles
    BY <1>3 DEF fenceTime, beginClose, gracefullyReleaseStateOwner, closeFails, Over, Idles, vars, rows, world, mem
  <2>2. FlagsOK' /\ flags'.timer \in {flags.timer, IF flags.timer = "armed" THEN "off" ELSE flags.timer}
    BY <1>3 DEF fenceTime, beginClose, gracefullyReleaseStateOwner, closeFails, Over, mem, vars, SupervisorInv, FlagsOK
  <2>3. LaneHasTask'
    <3>1. /\ tasks' = tasks /\ lane' = lane /\ owns' = owns /\ kept' = kept
          /\ adm' = adm
      BY <1>3 DEF fenceTime, beginClose, gracefullyReleaseStateOwner, closeFails, Over, vars, rows, world, mem
    <3>2. CASE Up'
      <4>1. Up
        BY <1>3, <3>2 DEF fenceTime, beginClose, gracefullyReleaseStateOwner, closeFails, Over, vars, world, mem, Up, Maintained
      <4> QED
        BY <2>2, <3>1, <3>2, <4>1 DEF SupervisorInv, LaneHasTask
    <3>3. CASE ~Up'
      <4>1. gracefullyReleaseStateOwner \/ Over
        BY <1>3, <3>3 DEF fenceTime, beginClose, closeFails, Maintained, world, Up
      <4> QED
        BY <3>1, <3>3, <4>1 DEF gracefullyReleaseStateOwner, joined, Over, vars, mem, SupervisorInv, LaneHasTask
    <3> QED
      BY <3>2, <3>3
  <2> QED
    BY <2>1, <2>2, <2>3, IdleKeeps
<1>4. ASSUME NEW r \in Run, DeadlinePasses(r) \/ LeaseLapses(r)
      PROVE  FlagsOK' /\ LaneHasTask' /\ AdmissionInv' /\ FrontierInv' /\ SentInv' /\ ToolInv' /\ PlaceInv' /\ SlotInv'
  <2>1. /\ Idles /\ flags' = flags /\ tasks' = tasks /\ lane' = lane /\ owns' = owns /\ kept' = kept
        /\ trans' = trans /\ adm' = adm /\ owner' = owner
    BY <1>4 DEF DeadlinePasses, LeaseLapses, Idles, rows, world, mem
  <2>2. FlagsOK' /\ LaneHasTask'
    BY <2>1 DEF SupervisorInv, FlagsOK, LaneHasTask, Up
  <2> QED
    BY <2>1, <2>2, IdleKeeps
<1>5. ASSUME NEW r \in Run, \/ submitInstalledRun(r) \/ admitInstalledRun(r) \/ retainInstalledAgent(r)
                            \/ cancelInstalledRun(r) \/ expireRun(r) \/ maintainInstalledRuns(r)
      PROVE  FlagsOK' /\ LaneHasTask' /\ AdmissionInv' /\ FrontierInv' /\ SentInv' /\ ToolInv' /\ PlaceInv' /\ SlotInv'
  <2>1. /\ Up /\ flags' = flags /\ lane' = lane /\ owner' = owner /\ owns' = owns /\ kept' = kept
        /\ worker' = worker /\ model' = model /\ tool' = tool /\ net' = net /\ done' = done
        /\ tasks' = tasks \/ tasks' = scheduled(tasks, r)
    BY <1>5 DEF submitInstalledRun, admitInstalledRun, retainInstalledAgent, cancelInstalledRun, expireRun,
                maintainInstalledRuns, Admission, Maintained, supports, rows, world
  <2>2. \A s \in Run : /\ run'[s].next = run[s].next
                       /\ \/ run'[s].status = run[s].status
                          \/ run[s].status = "absent" /\ run'[s].status = "queued"
    <3>1. run \in [Run -> RunRow]
      BY DEF SupervisorInv, SupervisorTyped, RowsOK
    <3>2. \/ run' = run \/ run' = [run EXCEPT ![r].stop = TRUE]
          \/ run[r].status = "absent" /\ run' = [run EXCEPT ![r].status = "queued"]
      BY <1>5 DEF submitInstalledRun, admitInstalledRun, retainInstalledAgent, cancelInstalledRun, expireRun,
                  maintainInstalledRuns, Stop, rows, SupervisorInv, AdmissionInv
    <3> QED
      BY <3>1, <3>2 DEF RunRow
  <2>3. Asks(r)
    BY <2>1, <2>2 DEF Asks
  <2>4. FlagsOK' /\ LaneHasTask'
    <3>1. scheduled(tasks, r) = tasks \/ (Up /\ flags.timer # "unstarted")
      BY DEF scheduled, supports
    <3>2. tasks # <<>> => tasks' # <<>>
      BY <2>1, Scheduled DEF SupervisorInv
    <3> QED
      BY <2>1, <3>1, <3>2 DEF SupervisorInv, FlagsOK, LaneHasTask, Up
  <2>5. AdmissionInv'
    <3>1. \A s \in Run : adm'[s] = "begun" => run'[s].status = "absent"
      <4>1. adm \in [Run -> {"none", "begun", "admitted"}] /\ run \in [Run -> RunRow]
            /\ \A s \in Run : adm[s] = "begun" => run[s].status = "absent"
        BY DEF SupervisorInv, SupervisorTyped, RowsOK, MemOK, AdmissionInv
      <4>2. CASE submitInstalledRun(r) \/ admitInstalledRun(r) \/ retainInstalledAgent(r)
        BY <4>1, <4>2 DEF submitInstalledRun, admitInstalledRun, retainInstalledAgent, Admission
      <4>3. CASE cancelInstalledRun(r) \/ expireRun(r) \/ maintainInstalledRuns(r)
        BY <4>1, <4>3 DEF cancelInstalledRun, expireRun, maintainInstalledRuns, Stop, rows, RunRow
      <4> QED
        BY <1>5, <4>2, <4>3
    <3>2. tasks = <<>> => lane' = "idle"
      BY <2>1 DEF SupervisorInv, LaneHasTask
    <3>3. tasks # <<>> => cur \in Run /\ cur' = cur
      BY <2>1, Scheduled, Driven, SMTT(30) DEF SupervisorInv, cur
    <3> QED
      BY <2>1, <2>2, <3>1, <3>2, <3>3 DEF SupervisorInv, AdmissionInv
  <2> QED
    BY <2>3, <2>4, <2>5, AsksKeeps
<1>6. ASSUME NEW r \in Run, renewCurrentWorkerLease(r)
      PROVE  FlagsOK' /\ LaneHasTask' /\ AdmissionInv' /\ FrontierInv' /\ SentInv' /\ ToolInv' /\ PlaceInv' /\ SlotInv'
  BY <1>6, LeaseKeeps
<1>7. ASSUME NEW r \in Run, closeSettles(r) \/ closeScope(r)
      PROVE  FlagsOK' /\ LaneHasTask' /\ AdmissionInv' /\ FrontierInv' /\ SentInv' /\ ToolInv' /\ PlaceInv' /\ SlotInv'
  BY <1>7, CloseKeeps
<1> QED
  BY <1>1, <1>2, <1>3, <1>4, <1>5, <1>6, <1>7 DEF Other

\* ---- the theorems ------------------------------------------------------------------

LEMMA SupervisorInvInit == Init => SupervisorInv
<1> SUFFICES ASSUME Init PROVE SupervisorInv
  OBVIOUS
<1>1. SupervisorTyped
  BY TypedInit
<1>2. FlagsOK /\ LaneHasTask /\ AdmissionInv
  BY DEF Init, FlagsOK, LaneHasTask, AdmissionInv, Up
<1>3. \A r \in Run : /\ run[r].status \in {"absent", "ended"} /\ run[r].next = "agent"
                     /\ worker[r] = "none" /\ model[r].phase = "none" /\ tool[r] = "none"
                     /\ done[r] = 0 /\ r \notin net /\ kept[r] = "none"
  BY DEF Init, NoRun, NoModel
<1>4. FrontierInv /\ SentInv /\ ToolInv /\ SlotInv
  BY <1>3 DEF FrontierInv, Frontier, SentInv, Sent, ToolInv, ToolHasPlace, SlotInv, Holds
<1>5. PlaceInv
  BY DEF Init, PlaceInv
<1> QED
  BY <1>1, <1>2, <1>4, <1>5 DEF SupervisorInv

LEMMA SupervisorInvNext == SupervisorInv /\ [Next]_vars => SupervisorInv'
<1> SUFFICES ASSUME SupervisorInv, [Next]_vars PROVE SupervisorInv'
  OBVIOUS
<1>1. SupervisorTyped'
  BY TypedNext DEF SupervisorInv
<1>2. CASE Lane
  BY <1>1, <1>2, LaneKeeps DEF SupervisorInv
<1>3. CASE Other
  BY <1>1, <1>3, OtherKeeps DEF SupervisorInv
<1>4. CASE UNCHANGED vars
  <2>1. Idles /\ flags' = flags /\ tasks' = tasks /\ lane' = lane /\ owns' = owns /\ kept' = kept
        /\ trans' = trans /\ adm' = adm /\ owner' = owner
    BY <1>4 DEF vars, rows, world, mem, Idles
  <2>2. FlagsOK' /\ LaneHasTask'
    BY <2>1 DEF SupervisorInv, FlagsOK, LaneHasTask, Up
  <2> QED
    BY <1>1, <2>1, <2>2, IdleKeeps DEF SupervisorInv
<1> QED
  BY <1>2, <1>3, <1>4 DEF Next, Other

\* The invariant holds of every execution: what the lane finds at each of its
\* places is what an earlier step of it has checked.
THEOREM SupervisorInvAlways == Spec => []SupervisorInv
BY SupervisorInvInit, SupervisorInvNext, PTL DEF Spec

\* A refunded model claim never reached the network, and a claim has at most one
\* effect, for any number of Runs, faults and owners (settleInstalledModelClosure,
\* receivedTool.finish).
THEOREM EffectsAlwaysCharged == Spec => []EffectsAreCharged
<1>1. SupervisorInv => EffectsAreCharged
  BY DEF SupervisorInv, SentInv, Sent, EffectsAreCharged, RefundIsHonest, EffectsAreOnce
<1> QED
  BY <1>1, SupervisorInvAlways, PTL

\* At most one launch is not retired, and the owner is released with nothing left
\* (installedWorkerSlotAvailable, close).
THEOREM ScopesAlwaysOwned == Spec => []ScopesAreOwned
<1>1. SupervisorInv => OneWorker
  <2> SUFFICES ASSUME SupervisorInv PROVE OneWorker
    OBVIOUS
  <2> DEFINE Holding == {r \in Run : worker[r] \in {"preparing", "active", "fenced"}}
  <2>1. \A r, s \in Holding : r = s
    BY DEF SupervisorInv, SlotInv, Holds
  <2>2. CASE Holding = {}
    BY <2>2, FS_EmptySet DEF OneWorker
  <2>3. CASE Holding # {}
    <3>1. PICK r \in Holding : TRUE
      BY <2>3
    <3>2. Holding = {r}
      BY <2>1, <3>1
    <3>3. Cardinality(Holding) = 1
      BY <3>2, FS_Singleton
    <3> QED
      BY <3>3 DEF OneWorker
  <2> QED
    BY <2>2, <2>3
<1>2. SupervisorInv => ReleasedIsEmpty
  BY DEF SupervisorInv, LaneHasTask, ReleasedIsEmpty, Up
<1>3. SupervisorInv => ScopesAreOwned
  BY <1>1, <1>2 DEF ScopesAreOwned
<1> QED
  BY <1>3, SupervisorInvAlways, PTL

\* What begins an effect: the two native calls that follow a gate.
LEMMA EffectStep ==
  ASSUME SupervisorTyped, Next, NEW r \in Run, done'[r] > done[r] \/ r \in net' \ net
  PROVE  dispatchable(r) /\ r \in alive
<1>1. done \in [Run -> Nat] /\ net \subseteq Run
  BY DEF SupervisorTyped, WorldOK
<1>2. done' = done /\ net' = net => FALSE
  BY <1>1
<1>3. ASSUME done' = [done EXCEPT ![cur] = @ + 1], net' = net, cur \in Run PROVE r = cur
  BY <1>1, <1>3
<1>4. CASE Lane
  <2>1. cur \in Run
    BY <1>4, LaneFrame
  <2>2. CASE connect
    BY <1>1, <2>1, <2>2 DEF connect, gate
  <2>3. CASE releaseBody
    BY <1>3, <2>1, <2>3 DEF releaseBody, gate
  <2>4. CASE releaseTool
    BY <1>3, <2>1, <2>4 DEF releaseTool
  <2>5. CASE settleInstalledModelCompletion
    <3>1. net' \subseteq net
      BY <2>5 DEF settleInstalledModelCompletion, completeModel
    <3>2. done' = done \/ done' = [done EXCEPT ![cur] = 0]
      BY <2>5 DEF settleInstalledModelCompletion, completeModel
    <3> QED
      BY <1>1, <2>1, <3>1, <3>2
  <2>6. CASE finishTool
    <3>1. net' = net /\ (done' = done \/ done' = [done EXCEPT ![cur] = 0])
      BY <2>6 DEF finishTool, finished
    <3> QED
      BY <1>1, <2>1, <3>1
  <2>7. CASE driveInstalledRun \/ ownOperation \/ fence \/ recoverWorker \/ recoverRefused
             \/ resumeCurrentRetirement \/ finishCurrentStop \/ activateWorker \/ activateWorkerLease
             \/ stopForModelFailure \/ prepareModel \/ prepareModelTransport \/ transportReady
    BY <1>2, <2>7 DEF driveInstalledRun, ownOperation, fence, recoverWorker, recoverRefused,
       resumeCurrentRetirement, finishCurrentStop, activateWorker, activateWorkerLease, stopForModelFailure,
       prepareModel, prepareModelTransport, transportReady
  <2>8. CASE transportRefused \/ claimInvocationDispatch \/ claimRefused \/ response \/ dispatchFails
             \/ settleInstalledModelClosure \/ prepareTool \/ claimTool \/ toolResult \/ toolLost
    BY <1>2, <2>8 DEF transportRefused, failPreparation, claimInvocationDispatch, claimRefused, response,
       dispatchFails, settleInstalledModelClosure, prepareTool, claimTool, toolResult, toolLost
  <2> QED
    BY <1>4, <2>2, <2>3, <2>4, <2>5, <2>6, <2>7, <2>8 DEF Lane
<1>5. CASE Other
  <2>1. ASSUME NEW s \in Run, closeSettles(s) \/ closeScope(s) PROVE FALSE
    <3>1. /\ net' \subseteq net
          /\ done' = done \/ done' = [done EXCEPT ![s] = 0]
      BY <2>1 DEF closeSettles, closeScope, completeModel, finished, world
    <3> QED
      BY <1>1, <2>1, <3>1
  <2>2. ASSUME NEW s \in Run, \/ submitInstalledRun(s) \/ admitInstalledRun(s) \/ retainInstalledAgent(s)
                              \/ cancelInstalledRun(s) \/ expireRun(s) \/ renewCurrentWorkerLease(s)
                              \/ maintainInstalledRuns(s) \/ DeadlinePasses(s) \/ LeaseLapses(s)
        PROVE FALSE
    BY <1>2, <2>2 DEF submitInstalledRun, admitInstalledRun, retainInstalledAgent, Admission, cancelInstalledRun,
       expireRun, renewCurrentWorkerLease, maintainInstalledRuns, DeadlinePasses, LeaseLapses, world
  <2>3. CASE open \/ startInstalledRuns \/ Die \/ fenceTime \/ beginClose \/ gracefullyReleaseStateOwner
             \/ closeFails \/ Over
    BY <1>2, <2>3 DEF open, startInstalledRuns, Die, fenceTime, beginClose, gracefullyReleaseStateOwner,
       closeFails, Over, vars, world
  <2> QED
    BY <1>5, <2>1, <2>2, <2>3 DEF Other
<1> QED
  BY <1>4, <1>5 DEF Next, Other

\* No body is sent, no request reaches the network and no tool is released once
\* the stop, the end of the lease, the deadline, a shutdown or a regressed clock
\* could be seen (gate, the release of the tool barrier).
THEOREM EffectsRespectStops == Spec => NoEffectAfterStop
<1> DEFINE Respects == \A r \in Run : (done'[r] > done[r] \/ r \in net' \ net) => dispatchable(r) /\ r \in alive
<1>1. SupervisorInv /\ [Next]_vars => [Respects]_vars
  BY EffectStep DEF SupervisorInv
<1>2. Spec => [][Respects]_vars
  <2> HIDE DEF Respects
  <2> QED
    BY <1>1, SupervisorInvAlways, PTL DEF Spec
<1> QED
  BY <1>2 DEF NoEffectAfterStop

\* What stops being kept while its owner lives has been stored.
LEMMA KeptStep ==
  ASSUME SupervisorInv, Next, NEW r \in Run, kept[r] # "none", kept'[r] = "none", owner'.state = "active"
  PROVE  model'[r] # model[r] \/ tool'[r] # tool[r]
<1>1. RowsOK /\ WorldOK /\ MemOK /\ Frontier(r)
  BY DEF SupervisorInv, SupervisorTyped, FrontierInv
<1>2. kept' # kept
  OBVIOUS
<1>3. CASE Lane
  <2>1. cur \in Run /\ (r # cur => Same(r))
    BY <1>3, LaneFrame DEF SupervisorInv
  <2>2. PICK c \in Run : c = cur
    BY <2>1
  <2>3. r = c
    BY <2>1, <2>2 DEF Same
  <2>4. PlaceOf(lane, c)
    BY <1>3, <2>2, LaneFrame DEF SupervisorInv, PlaceInv, Place
  <2>5. CASE settleInstalledModelClosure
    <3>1. kept[c] = "closure"
      BY <2>4, <2>5 DEF settleInstalledModelClosure, PlaceOf
    <3>2. model'[c].phase \in {"unknown", "refunded"}
      BY <1>1, <1>2, <2>2, <2>5 DEF settleInstalledModelClosure, closed, RowsOK, ModelRow
    <3> QED
      BY <1>1, <2>3, <3>1, <3>2 DEF Frontier
  <2>6. CASE settleInstalledModelCompletion
    <3>1. kept[c] = "completion"
      BY <2>4, <2>6 DEF settleInstalledModelCompletion, At, PlaceOf
    <3>2. model'[c].phase \in {"candidate", "unusable", "none"}
      <4>1. \/ \E p \in {"candidate", "unusable"} : model' = [model EXCEPT ![c].phase = p]
            \/ model' = [model EXCEPT ![c] = NoModel]
        BY <1>2, <2>2, <2>6 DEF settleInstalledModelCompletion, completeModel
      <4>2. model \in [Run -> ModelRow]
        BY <1>1 DEF RowsOK
      <4> QED
        BY <4>1, <4>2 DEF ModelRow, NoModel
    <3> QED
      BY <1>1, <2>3, <3>1, <3>2 DEF Frontier
  <2>7. CASE finishTool
    <3>1. kept[c] = "tool"
      BY <2>4, <2>7 DEF finishTool, At, PlaceOf
    <3>2. tool'[c] = "none"
      BY <1>1, <1>2, <2>2, <2>7 DEF finishTool, finished, RowsOK
    <3> QED
      BY <1>1, <2>3, <3>1, <3>2 DEF Frontier
  <2>8. CASE response \/ dispatchFails \/ toolResult
    BY <1>1, <1>2, <2>2, <2>3, <2>8 DEF response, dispatchFails, toolResult, MemOK
  <2>9. CASE driveInstalledRun \/ ownOperation \/ fence \/ recoverWorker \/ recoverRefused
             \/ resumeCurrentRetirement \/ finishCurrentStop \/ activateWorker \/ activateWorkerLease
             \/ stopForModelFailure \/ prepareModel \/ prepareModelTransport \/ transportReady
    BY <1>2, <2>9 DEF driveInstalledRun, ownOperation, fence, recoverWorker, recoverRefused,
       resumeCurrentRetirement, finishCurrentStop, activateWorker, activateWorkerLease, stopForModelFailure,
       prepareModel, prepareModelTransport, transportReady
  <2>10. CASE transportRefused \/ claimInvocationDispatch \/ claimRefused \/ connect \/ releaseBody
             \/ prepareTool \/ claimTool \/ releaseTool \/ toolLost
    BY <1>2, <2>10 DEF transportRefused, failPreparation, claimInvocationDispatch, claimRefused, connect,
       releaseBody, prepareTool, claimTool, releaseTool, toolLost
  <2> QED
    BY <1>3, <2>5, <2>6, <2>7, <2>8, <2>9, <2>10 DEF Lane
<1>4. CASE Other
  <2>1. ASSUME NEW s \in Run, closeSettles(s) PROVE model'[r] # model[r] \/ tool'[r] # tool[r]
    <3>1. r = s
      BY <1>1, <2>1 DEF closeSettles, completeModel, finished, MemOK
    <3>2. CASE kept[s] = "closure"
      BY <1>1, <2>1, <3>1, <3>2 DEF closeSettles, closed, Frontier, RowsOK, ModelRow
    <3>3. CASE kept[s] = "completion"
      BY <1>1, <2>1, <3>1, <3>3 DEF closeSettles, completeModel, Frontier, RowsOK, ModelRow, NoModel
    <3>4. CASE kept[s] = "tool"
      BY <1>1, <2>1, <3>1, <3>4 DEF closeSettles, finished, Frontier, RowsOK
    <3> QED
      BY <2>1, <3>2, <3>3, <3>4 DEF closeSettles
  <2>2. CASE open
    BY <1>1, <2>2 DEF open, SupervisorInv, LaneHasTask
  <2>3. ASSUME Die PROVE FALSE
    BY <1>1, <2>3 DEF Die, WorldOK
  <2>4. ASSUME NEW s \in Run, \/ submitInstalledRun(s) \/ admitInstalledRun(s) \/ retainInstalledAgent(s)
                              \/ cancelInstalledRun(s) \/ expireRun(s) \/ renewCurrentWorkerLease(s)
                              \/ maintainInstalledRuns(s) \/ DeadlinePasses(s) \/ LeaseLapses(s) \/ closeScope(s)
        PROVE FALSE
    BY <1>2, <2>4 DEF submitInstalledRun, admitInstalledRun, retainInstalledAgent, Admission, cancelInstalledRun,
       expireRun, renewCurrentWorkerLease, maintainInstalledRuns, DeadlinePasses, LeaseLapses, closeScope, mem
  <2>5. CASE startInstalledRuns \/ fenceTime \/ beginClose \/ gracefullyReleaseStateOwner \/ closeFails \/ Over
    BY <1>2, <2>5 DEF startInstalledRuns, fenceTime, beginClose, gracefullyReleaseStateOwner,
       closeFails, Over, vars, mem
  <2> QED
    BY <1>4, <2>1, <2>2, <2>3, <2>4, <2>5 DEF Other
<1> QED
  BY <1>3, <1>4 DEF Next, Other

\* While its process lives, nothing received is forgotten before the claim that
\* it answers is settled (installedModelCompletions, receivedTool).
THEOREM ResultsAreStored == Spec => ResultIsKept
<1> DEFINE Stored == \A r \in Run : kept[r] # "none" /\ kept'[r] = "none" /\ owner'.state = "active"
                        => model'[r] # model[r] \/ tool'[r] # tool[r]
<1>1. SupervisorInv /\ [Next]_vars => [Stored]_vars
  BY KeptStep
<1>2. Spec => [][Stored]_vars
  <2> HIDE DEF Stored
  <2> QED
    BY <1>1, SupervisorInvAlways, PTL DEF Spec
<1> QED
  BY <1>2 DEF ResultIsKept
=============================================================================
