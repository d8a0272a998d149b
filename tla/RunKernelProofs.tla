-------------------------- MODULE RunKernelProofs --------------------------
(***************************************************************************)
(* Proofs about RunKernel, for any operations, budgets, numbers of worker  *)
(* launches, generations, attempts and state owners: a Run has one writer, *)
(* a sealed generation holds no unaccounted effect, an ended Run stays     *)
(* quiet, and the reducers write only rows that the validators of          *)
(* RecoveryClosure accept.                                                 *)
(***************************************************************************)
EXTENDS RecoveryClosure, FiniteSetTheorems, SequenceTheorems, TLAPS

Counters == {"modelTokens", "toolCalls"}

LaunchRow == [phase : LaunchPhase, gen : Gen \cup {None}, epoch : Nat, owner : Nat,
              prep : {"none", "intent", "controller"}, write : GenPhase, leased : BOOLEAN,
              planned : BOOLEAN, fresh : BOOLEAN]
GenRow == [phase : GenPhase, launch : Launch \cup {None}, epoch : Nat, fresh : BOOLEAN]
RunRow == [status : {"queued", "running", "waiting"} \cup Terminal,
           epoch : Nat, active : Launch \cup {None}, stop : StopOrigin \cup {None},
           next : Op \cup {Len(Kinds) + 1},
           reserved : [Counters -> Int], consumed : [Counters -> Int]]

-----------------------------------------------------------------------------
(* The worker of the Run: who may write what.                              *)

RowsTyped == /\ run \in RunRow /\ launch \in [Launch -> LaunchRow] /\ gen \in [Gen -> GenRow]
             /\ owner \in Nat

\* At most one launch is not retired.
OneLive == \A l, m \in Launch : Live(l) /\ Live(m) => l = m
\* The Run runs exactly while it has a worker, an activated launch; ...
ActiveRuns ==
    /\ run.active # None <=> run.status = "running"
    /\ run.active # None => launch[run.active].phase = "activated"
\* ... which has its own generation, of the current epoch, as it says itself.
ActivatedWrites == \A l \in Launch : launch[l].phase = "activated" =>
    /\ run.active = l /\ launch[l].gen \in Gen /\ launch[l].write \in Writable
    /\ launch[l].epoch = run.epoch
    /\ gen[launch[l].gen].phase = launch[l].write
    /\ gen[launch[l].gen].launch = l /\ gen[launch[l].gen].epoch = run.epoch
\* A launch that waits for its activation has a generation it may not write.
ReservedReads == \A l \in Launch : launch[l].phase \in {"reserved", "preactivated"} =>
    launch[l].gen \in Gen /\ launch[l].write = "preactivated_readonly"
\* A fenced launch is what a waiting Run waits for.
FencedWaits ==
    /\ \A l \in Launch : launch[l].phase = "reconciling" =>
         /\ run.status = "waiting" /\ launch[l].gen \in Gen
         /\ launch[l].write = "fenced_reconciling"
         /\ launch[l].epoch = run.epoch
         /\ gen[launch[l].gen].phase = "fenced_reconciling"
         /\ gen[launch[l].gen].launch = l /\ gen[launch[l].gen].epoch = run.epoch
    /\ run.status = "waiting" => \E l \in Launch : launch[l].phase = "reconciling"
\* A generation that can be written, or that is inspected, has its launch.
GenHasLaunch == \A g \in Gen :
    /\ gen[g].phase \in Writable =>
         \E l \in Launch : launch[l].phase = "activated" /\ launch[l].gen = g
    /\ gen[g].phase = "fenced_reconciling" =>
         \E l \in Launch : launch[l].phase = "reconciling" /\ launch[l].gen = g
\* Epochs only grow, and no other launch has that of the worker.
EpochsGrow == \A l \in Launch :
    /\ launch[l].epoch <= run.epoch
    /\ run.active # None /\ launch[l].epoch = run.epoch => l = run.active

WriterInv == /\ OneLive /\ ActiveRuns /\ ActivatedWrites /\ ReservedReads
             /\ FencedWaits /\ GenHasLaunch /\ EpochsGrow

-----------------------------------------------------------------------------
(* The journal.                                                            *)

JournalTyped ==
    /\ att \in [Op -> Seq(Attempt)] /\ owner \in Nat
    /\ handles \subseteq Op \X (1 .. MaxAttempts)
    /\ \A op \in Op : Len(att[op]) <= MaxAttempts

\* Operations are attempted in order, a tool at most once, and the Run goes past
\* it only when it has completed.
InOrder == \A op \in Op :
    /\ op > run.next => att[op] = <<>>
    /\ Kinds[op] # "model" => Len(att[op]) <= 1
    /\ Kinds[op] # "model" /\ op < run.next =>
         \A i \in DOMAIN att[op] : att[op][i].phase = "completed"

\* What validateJournalGraph asks of each attempt.
Graph == \A op \in Op : \A i \in DOMAIN att[op] :
    /\ IF att[op][i].claimed THEN att[op][i].phase # "prepared"
                             ELSE att[op][i].phase \in {"prepared", "failed"}
    /\ att[op][i].released => att[op][i].claimed
    /\ i < Len(att[op]) => att[op][i].phase \in {"failed", "unknown"}

JournalInv == JournalTyped /\ InOrder /\ Graph

\* SealedIsAccounted, of each attempt.
Accounted == \A l \in Launch : launch[l].write = "sealed" =>
    \A op \in Op : \A i \in DOMAIN att[op] :
        Kinds[op] = "edit" /\ att[op][i].released /\ att[op][i].epoch = launch[l].epoch
        => att[op][i].phase = "completed"

-----------------------------------------------------------------------------
(* The rows that the writers are about, and the steps that leave them.     *)

RowsKept ==
    /\ run'.status = run.status /\ run'.active = run.active /\ run'.epoch = run.epoch
    /\ \A l \in Launch :
         /\ launch'[l].phase = launch[l].phase /\ launch'[l].gen = launch[l].gen
         /\ launch'[l].epoch = launch[l].epoch /\ launch'[l].write = launch[l].write
    /\ \A g \in Gen : /\ gen'[g].phase = gen[g].phase /\ gen'[g].launch = gen[g].launch
                      /\ gen'[g].epoch = gen[g].epoch

\* The names of the phases.
LEMMA Names ==
  /\ {"none", "preparing", "reserved", "preactivated", "activated", "reconciling", "retired"}
       \subseteq LaunchPhase
  /\ {"none", "active", "revoking", "checkpointing", "materializing", "preactivated_readonly",
      "fenced_reconciling", "sealed", "quarantined", "retired"} \subseteq GenPhase
BY DEF LaunchPhase, GenPhase, Writable, Unlaunched

\* The fields that it is said with.
LEMMA Fields ==
  ASSUME RowsTyped
  PROVE  /\ run.active \in Launch \cup {None} /\ run.epoch \in Nat
         /\ run.status \in {"queued", "running", "waiting"} \cup Terminal
         /\ \A l \in Launch : /\ launch[l].phase \in LaunchPhase /\ launch[l].gen \in Gen \cup {None}
                              /\ launch[l].epoch \in Nat
         /\ \A g \in Gen : gen[g].phase \in GenPhase /\ gen[g].epoch \in Nat
<1>1. /\ run.active \in Launch \cup {None} /\ run.epoch \in Nat
      /\ run.status \in {"queued", "running", "waiting"} \cup Terminal
  BY DEF RowsTyped, RunRow
<1>2. \A l \in Launch : /\ launch[l].phase \in LaunchPhase /\ launch[l].gen \in Gen \cup {None}
                        /\ launch[l].epoch \in Nat
  BY DEF RowsTyped, LaunchRow
<1>3. \A g \in Gen : gen[g].phase \in GenPhase /\ gen[g].epoch \in Nat
  BY DEF RowsTyped, GenRow
<1> QED
  BY <1>1, <1>2, <1>3

\* A step that leaves them keeps what is said of them.
LEMMA KeptKeeps == ASSUME RowsTyped, WriterInv, RowsKept PROVE WriterInv'
<1>1. OneLive' /\ ReservedReads'
  BY DEF RowsKept, WriterInv, Live, OneLive, ReservedReads
<1>2. ActiveRuns'
  BY Fields, KernelAssumption DEF RowsKept, WriterInv, ActiveRuns
<1>3. EpochsGrow'
  BY DEF RowsKept, WriterInv, EpochsGrow
<1>4. ActivatedWrites'
  BY DEF RowsKept, WriterInv, ActivatedWrites
<1>5. FencedWaits'
  BY DEF RowsKept, WriterInv, FencedWaits
<1>6. GenHasLaunch'
  <2>1. ASSUME NEW g \in Gen, gen'[g].phase \in Writable
        PROVE  \E l \in Launch : launch'[l].phase = "activated" /\ launch'[l].gen = g
    BY <2>1 DEF RowsKept, WriterInv, GenHasLaunch
  <2>2. ASSUME NEW g \in Gen, gen'[g].phase = "fenced_reconciling"
        PROVE  \E l \in Launch : launch'[l].phase = "reconciling" /\ launch'[l].gen = g
    BY <2>2 DEF RowsKept, WriterInv, GenHasLaunch
  <2> QED
    BY <2>1, <2>2 DEF GenHasLaunch, Writable
<1> QED
  BY <1>1, <1>2, <1>3, <1>4, <1>5, <1>6 DEF WriterInv

\* What a step that revises the Run, or publishes a checkpoint, does to rows.
LEMMA Marks ==
  ASSUME RowsTyped
  PROVE  /\ Revised \in [Launch -> LaunchRow] /\ Aged \in [Launch -> LaunchRow]
         /\ Checkpointed \in [Gen -> GenRow]
         /\ \A l \in Launch :
              /\ Revised[l].phase = launch[l].phase /\ Revised[l].gen = launch[l].gen
              /\ Revised[l].epoch = launch[l].epoch /\ Revised[l].write = launch[l].write
              /\ Aged[l].phase = launch[l].phase /\ Aged[l].gen = launch[l].gen
              /\ Aged[l].epoch = launch[l].epoch /\ Aged[l].write = launch[l].write
         /\ \A g \in Gen :
              /\ Checkpointed[g].phase = gen[g].phase /\ Checkpointed[g].launch = gen[g].launch
              /\ Checkpointed[g].epoch = gen[g].epoch
<1>1. /\ Revised \in [Launch -> LaunchRow]
      /\ \A l \in Launch : /\ Revised[l].phase = launch[l].phase /\ Revised[l].gen = launch[l].gen
                           /\ Revised[l].epoch = launch[l].epoch /\ Revised[l].write = launch[l].write
  BY DEF RowsTyped, Revised, LaunchRow
<1>2. /\ Aged \in [Launch -> LaunchRow]
      /\ \A l \in Launch : /\ Aged[l].phase = launch[l].phase /\ Aged[l].gen = launch[l].gen
                           /\ Aged[l].epoch = launch[l].epoch /\ Aged[l].write = launch[l].write
  BY DEF RowsTyped, Aged, LaunchRow
<1>3. /\ Checkpointed \in [Gen -> GenRow]
      /\ \A g \in Gen : /\ Checkpointed[g].phase = gen[g].phase
                        /\ Checkpointed[g].launch = gen[g].launch
                        /\ Checkpointed[g].epoch = gen[g].epoch
  BY DEF RowsTyped, Checkpointed, GenRow
<1> QED
  BY <1>1, <1>2, <1>3

-----------------------------------------------------------------------------
(* The steps that change them.                                             *)

\* The row of a Run that has ended.
LEMMA TerminalTyped ==
  ASSUME run \in RunRow
  PROVE  /\ TerminalRun \in RunRow /\ TerminalRun.status = Target(run.stop)
         /\ TerminalRun.status \in Terminal /\ TerminalRun.active = None
         /\ TerminalRun.epoch = run.epoch /\ TerminalRun.stop = run.stop
         /\ \A c \in DOMAIN Ceiling : TerminalRun.reserved[c] = 0
<1>1. [c \in DOMAIN Ceiling |-> 0] \in [Counters -> Int]
  BY KernelAssumption DEF Counters
<1>2. Target(run.stop) \in Terminal
  BY DEF Target, Terminal
<1> QED
  BY <1>1, <1>2 DEF TerminalRun, RunRow

\* beginWorkerPreparation.
LEMMA BeginPreparationKeeps ==
  ASSUME RowsTyped, WriterInv, NEW l \in Launch, BeginPreparation(l)
  PROVE  RowsTyped' /\ WriterInv'
<1>1. run' = run /\ gen' = gen /\ owner' = owner
  BY DEF BeginPreparation
<1>2. \A m \in Launch \ {l} :
       /\ launch'[m].phase = launch[m].phase /\ launch'[m].gen = launch[m].gen
       /\ launch'[m].epoch = launch[m].epoch /\ launch'[m].write = launch[m].write
  BY DEF RowsTyped, BeginPreparation
<1>3. /\ launch'[l].phase = "preparing" /\ launch'[l].epoch = launch[l].epoch
      /\ launch[l].phase = "none" /\ \A m \in Launch : ~Live(m)
  BY DEF RowsTyped, LaunchRow, BeginPreparation
<1>4. launch' \in [Launch -> LaunchRow]
  BY Names, ZenonT(40) DEF RowsTyped, LaunchRow, BeginPreparation
<1>5. RowsTyped'
  BY <1>4, <1>1, <1>2, <1>3 DEF RowsTyped
<1>6. OneLive'
  BY <1>1, <1>2, <1>3, Fields, KernelAssumption DEF WriterInv, Live, Writable, OneLive
<1>7. ActiveRuns'
  BY <1>1, <1>2, <1>3, Fields, KernelAssumption DEF WriterInv, Live, Writable, ActiveRuns
<1>8. ActivatedWrites'
  BY <1>1, <1>2, <1>3, Fields, KernelAssumption DEF WriterInv, Live, Writable, ActivatedWrites
<1>9. ReservedReads'
  BY <1>1, <1>2, <1>3, Fields, KernelAssumption DEF WriterInv, Live, Writable, ReservedReads
<1>10. FencedWaits'
  BY <1>1, <1>2, <1>3, Fields, KernelAssumption DEF WriterInv, Live, Writable, FencedWaits
<1>11. GenHasLaunch'
  BY <1>1, <1>2, <1>3, Fields, KernelAssumption DEF WriterInv, Live, Writable, GenHasLaunch
<1>12. EpochsGrow'
  BY <1>1, <1>2, <1>3, Fields, KernelAssumption DEF WriterInv, Live, Writable, EpochsGrow
<1> QED
  BY <1>5, <1>6, <1>7, <1>8, <1>9, <1>10, <1>11, <1>12 DEF WriterInv

\* recordWorkerPreparationGeneration.
LEMMA PreparationGenerationKeeps ==
  ASSUME RowsTyped, WriterInv, NEW l \in Launch, NEW g \in Gen, RecordPreparationGeneration(l, g)
  PROVE  RowsTyped' /\ WriterInv'
<1>1. run' = run /\ owner' = owner /\ launch[l].phase = "preparing" /\ gen[g].phase = "none"
  BY DEF RecordPreparationGeneration, Bindable
<1>2. \A m \in Launch :
       /\ launch'[m].phase = launch[m].phase /\ launch'[m].epoch = launch[m].epoch
       /\ launch'[m].write = launch[m].write /\ (m # l => launch'[m].gen = launch[m].gen)
  BY DEF RowsTyped, LaunchRow, RecordPreparationGeneration
<1>3. /\ gen'[g].phase = "materializing"
      /\ \A h \in Gen \ {g} : gen'[h] = gen[h]
  BY DEF RowsTyped, GenRow, RecordPreparationGeneration
<1>4. launch' \in [Launch -> LaunchRow]
  BY Names DEF RowsTyped, LaunchRow, RecordPreparationGeneration
<1>5. gen' \in [Gen -> GenRow]
  BY Names DEF RowsTyped, GenRow, RecordPreparationGeneration
<1>6. RowsTyped'
  BY <1>4, <1>5, <1>1, <1>2, <1>3 DEF RowsTyped
<1>7. OneLive'
  BY <1>1, <1>2, <1>3, Fields, KernelAssumption DEF WriterInv, Live, Writable, OneLive
<1>8. ActiveRuns'
  BY <1>1, <1>2, <1>3, Fields, KernelAssumption DEF WriterInv, Live, Writable, ActiveRuns
<1>9. ActivatedWrites'
  BY <1>1, <1>2, <1>3, Fields, KernelAssumption DEF WriterInv, Live, Writable, ActivatedWrites
<1>10. ReservedReads'
  BY <1>1, <1>2, <1>3, Fields, KernelAssumption DEF WriterInv, Live, Writable, ReservedReads
<1>11. FencedWaits'
  BY <1>1, <1>2, <1>3, Fields, KernelAssumption DEF WriterInv, Live, Writable, FencedWaits
<1>12. GenHasLaunch'
  BY <1>1, <1>2, <1>3, Fields, KernelAssumption, SMTT(30) DEF WriterInv, Live, Writable, GenHasLaunch
<1>13. EpochsGrow'
  BY <1>1, <1>2, <1>3, Fields, KernelAssumption DEF WriterInv, Live, Writable, EpochsGrow
<1> QED
  BY <1>6, <1>7, <1>8, <1>9, <1>10, <1>11, <1>12, <1>13 DEF WriterInv

\* reserveWorkerLaunch.
LEMMA ReserveKeeps ==
  ASSUME RowsTyped, WriterInv, NEW l \in Launch, NEW g \in Gen, ReserveLaunch(l, g)
  PROVE  RowsTyped' /\ WriterInv'
<1>1. run' = run /\ gen' = gen /\ owner' = owner
  BY DEF ReserveLaunch
<1>2. \A m \in Launch \ {l} :
       /\ launch'[m].phase = launch[m].phase /\ launch'[m].gen = launch[m].gen
       /\ launch'[m].epoch = launch[m].epoch /\ launch'[m].write = launch[m].write
  BY DEF RowsTyped, ReserveLaunch
<1>3. /\ launch'[l].phase = "reserved" /\ launch'[l].gen = g /\ launch'[l].epoch = launch[l].epoch
      /\ launch'[l].write = "preactivated_readonly"
  BY DEF RowsTyped, LaunchRow, ReserveLaunch
<1>4. launch[l].phase \in {"none", "preparing"} /\ \A m \in Launch \ {l} : ~Live(m)
  BY DEF ReserveLaunch, Promotable
<1>5. launch' \in [Launch -> LaunchRow]
  BY Names, ZenonT(40) DEF RowsTyped, LaunchRow, ReserveLaunch
<1>6. RowsTyped'
  BY <1>5, <1>1, <1>2, <1>3, <1>4 DEF RowsTyped
<1>7. OneLive'
  BY <1>1, <1>2, <1>3, <1>4, Fields, KernelAssumption DEF WriterInv, Live, Writable, OneLive
<1>8. ActiveRuns'
  BY <1>1, <1>2, <1>3, <1>4, Fields, KernelAssumption DEF WriterInv, Live, Writable, ActiveRuns
<1>9. ActivatedWrites'
  BY <1>1, <1>2, <1>3, <1>4, Fields, KernelAssumption DEF WriterInv, Live, Writable, ActivatedWrites
<1>10. ReservedReads'
  BY <1>1, <1>2, <1>3, <1>4, Fields, KernelAssumption DEF WriterInv, Live, Writable, ReservedReads
<1>11. FencedWaits'
  BY <1>1, <1>2, <1>3, <1>4, Fields, KernelAssumption DEF WriterInv, Live, Writable, FencedWaits
<1>12. GenHasLaunch'
  BY <1>1, <1>2, <1>3, <1>4, Fields, KernelAssumption DEF WriterInv, Live, Writable, GenHasLaunch
<1>13. EpochsGrow'
  BY <1>1, <1>2, <1>3, <1>4, Fields, KernelAssumption DEF WriterInv, Live, Writable, EpochsGrow
<1> QED
  BY <1>6, <1>7, <1>8, <1>9, <1>10, <1>11, <1>12, <1>13 DEF WriterInv

\* activateWorkerLease: there is no worker and so no generation that can be written.
LEMMA ActivateKeeps ==
  ASSUME RowsTyped, WriterInv, NEW l \in Launch, ActivateLease(l)
  PROVE  RowsTyped' /\ WriterInv'
<1>1. PICK e \in Nat : e = run.epoch + 1
  BY Fields
<1>2. /\ run' = [run EXCEPT !.status = "running", !.active = l, !.epoch = e]
      /\ launch' = [Revised EXCEPT ![l] = [@ EXCEPT !.phase = "activated", !.epoch = e,
                                                    !.write = "active", !.leased = TRUE]]
      /\ gen' = [gen EXCEPT ![launch[l].gen] = [@ EXCEPT !.phase = "active", !.launch = l,
                                                         !.epoch = e]]
  BY <1>1 DEF ActivateLease
<1>3. /\ launch[l].phase = "preactivated" /\ run.active = None /\ run.status = "queued"
      /\ launch[l].gen \in Gen /\ gen[launch[l].gen].phase = "preactivated_readonly" /\ owner' = owner
  BY DEF ActivateLease, CanActivate, WriterInv, ReservedReads
<1>4. \A m \in Launch \ {l} :
       /\ launch'[m].phase = launch[m].phase /\ launch'[m].gen = launch[m].gen
       /\ launch'[m].epoch = launch[m].epoch /\ launch'[m].write = launch[m].write
  BY <1>2, Marks
<1>5. /\ launch'[l].phase = "activated" /\ launch'[l].gen = launch[l].gen
      /\ launch'[l].epoch = e /\ launch'[l].write = "active"
  BY <1>2, Marks DEF LaunchRow
<1>6. run'.status = "running" /\ run'.active = l /\ run'.epoch = e
  BY <1>2 DEF RowsTyped, RunRow
<1>7. /\ gen'[launch[l].gen].phase = "active" /\ gen'[launch[l].gen].launch = l
      /\ gen'[launch[l].gen].epoch = e
      /\ \A h \in Gen : h # launch[l].gen => gen'[h] = gen[h]
  BY <1>2, <1>3 DEF RowsTyped, GenRow
<1>8. run' \in RunRow
  BY <1>2 DEF RowsTyped, RunRow
<1>9. launch' \in [Launch -> LaunchRow]
  <2>1. Revised \in [Launch -> LaunchRow]
    BY Marks
  <2> QED
    BY <2>1, <1>2, Names DEF LaunchRow
<1>10. gen' \in [Gen -> GenRow]
  BY <1>2, <1>3, Names DEF RowsTyped, GenRow
<1>11. RowsTyped'
  BY <1>8, <1>9, <1>10, <1>1, <1>3, <1>4, <1>5, <1>6, <1>7 DEF RowsTyped
<1>12. OneLive'
  BY <1>1, <1>3, <1>4, <1>5, <1>6, <1>7, Fields, KernelAssumption DEF WriterInv, Live, Writable, OneLive
<1>13. ActiveRuns'
  BY <1>1, <1>3, <1>4, <1>5, <1>6, <1>7, Fields, KernelAssumption DEF WriterInv, Live, Writable, ActiveRuns
<1>14. ActivatedWrites'
  BY <1>1, <1>3, <1>4, <1>5, <1>6, <1>7, Fields, KernelAssumption DEF WriterInv, Live, Writable, ActivatedWrites
<1>15. ReservedReads'
  BY <1>1, <1>3, <1>4, <1>5, <1>6, <1>7, Fields, KernelAssumption DEF WriterInv, Live, Writable, ReservedReads
<1>16. FencedWaits'
  BY <1>1, <1>3, <1>4, <1>5, <1>6, <1>7, Fields, KernelAssumption DEF WriterInv, Live, Writable, FencedWaits
<1>17. GenHasLaunch'
  <2>1. \A g \in Gen : gen[g].phase \notin Writable
    BY <1>3 DEF WriterInv, GenHasLaunch, ActivatedWrites, OneLive, Live
  <2> QED
    BY <1>3, <1>4, <1>5, <1>7, <2>1 DEF WriterInv, Writable, GenHasLaunch
<1>18. EpochsGrow'
  BY <1>1, <1>3, <1>4, <1>5, <1>6, <1>7, Fields, KernelAssumption DEF WriterInv, Live, Writable, EpochsGrow
<1> QED
  BY <1>11, <1>12, <1>13, <1>14, <1>15, <1>16, <1>17, <1>18 DEF WriterInv

\* registerWorkspaceGeneration and recordGenerationPreactivated: a generation that nothing can write.
LEMMA UnlaunchedKeeps ==
  ASSUME RowsTyped, WriterInv, NEW g \in Gen, RegisterGeneration(g) \/ RecordGenerationPreactivated(g)
  PROVE  RowsTyped' /\ WriterInv'
<1>1. run' = run /\ launch' = launch /\ owner' = owner
  BY DEF RegisterGeneration, RecordGenerationPreactivated
<1>2. /\ gen[g].phase \in {"none", "materializing"} /\ gen'[g].phase \in Unlaunched
      /\ \A h \in Gen \ {g} : gen'[h] = gen[h]
  BY DEF RowsTyped, GenRow, RegisterGeneration, RecordGenerationPreactivated, Unlaunched
<1>3. gen'[g].phase \notin Writable \cup {"fenced_reconciling"}
  BY <1>2 DEF Unlaunched, Writable
<1>4. gen' \in [Gen -> GenRow]
  BY Names, ZenonT(40) DEF RowsTyped, GenRow, RegisterGeneration, RecordGenerationPreactivated
<1>5. RowsTyped'
  BY <1>4, <1>1, <1>2, <1>3 DEF RowsTyped
<1>6. OneLive'
  BY <1>1, <1>2, <1>3, Fields, KernelAssumption DEF WriterInv, Live, Writable, OneLive
<1>7. ActiveRuns'
  BY <1>1, <1>2, <1>3, Fields, KernelAssumption DEF WriterInv, Live, Writable, ActiveRuns
<1>8. ActivatedWrites'
  BY <1>1, <1>2, <1>3, Fields, KernelAssumption DEF WriterInv, Live, Writable, ActivatedWrites
<1>9. ReservedReads'
  BY <1>1, <1>2, <1>3, Fields, KernelAssumption DEF WriterInv, Live, Writable, ReservedReads
<1>10. FencedWaits'
  BY <1>1, <1>2, <1>3, Fields, KernelAssumption DEF WriterInv, Live, Writable, FencedWaits
<1>11. GenHasLaunch'
  BY <1>1, <1>2, <1>3, Fields, KernelAssumption DEF WriterInv, Live, Writable, GenHasLaunch
<1>12. EpochsGrow'
  BY <1>1, <1>2, <1>3, Fields, KernelAssumption DEF WriterInv, Live, Writable, EpochsGrow
<1> QED
  BY <1>5, <1>6, <1>7, <1>8, <1>9, <1>10, <1>11, <1>12 DEF WriterInv

\* recordWorkerPreactivated.
LEMMA WorkerPreactivatedKeeps ==
  ASSUME RowsTyped, WriterInv, NEW l \in Launch, RecordWorkerPreactivated(l)
  PROVE  RowsTyped' /\ WriterInv'
<1>1. run' = run /\ gen' = gen /\ owner' = owner /\ launch[l].phase = "reserved"
  BY DEF RecordWorkerPreactivated
<1>2. \A m \in Launch \ {l} :
       /\ launch'[m].phase = launch[m].phase /\ launch'[m].gen = launch[m].gen
       /\ launch'[m].epoch = launch[m].epoch /\ launch'[m].write = launch[m].write
  BY DEF RowsTyped, RecordWorkerPreactivated
<1>3. /\ launch'[l].phase = "preactivated" /\ launch'[l].gen = launch[l].gen
      /\ launch'[l].epoch = launch[l].epoch /\ launch'[l].write = launch[l].write
  BY DEF RowsTyped, LaunchRow, RecordWorkerPreactivated
<1>4. launch' \in [Launch -> LaunchRow]
  BY Names DEF RowsTyped, LaunchRow, RecordWorkerPreactivated
<1>5. RowsTyped'
  BY <1>4, <1>1, <1>2, <1>3 DEF RowsTyped
<1>6. OneLive'
  BY <1>1, <1>2, <1>3, Fields, KernelAssumption DEF WriterInv, Live, Writable, OneLive
<1>7. ActiveRuns'
  BY <1>1, <1>2, <1>3, Fields, KernelAssumption DEF WriterInv, Live, Writable, ActiveRuns
<1>8. ActivatedWrites'
  BY <1>1, <1>2, <1>3, Fields, KernelAssumption DEF WriterInv, Live, Writable, ActivatedWrites
<1>9. ReservedReads'
  BY <1>1, <1>2, <1>3, Fields, KernelAssumption DEF WriterInv, Live, Writable, ReservedReads
<1>10. FencedWaits'
  BY <1>1, <1>2, <1>3, Fields, KernelAssumption DEF WriterInv, Live, Writable, FencedWaits
<1>11. GenHasLaunch'
  BY <1>1, <1>2, <1>3, Fields, KernelAssumption DEF WriterInv, Live, Writable, GenHasLaunch
<1>12. EpochsGrow'
  BY <1>1, <1>2, <1>3, Fields, KernelAssumption DEF WriterInv, Live, Writable, EpochsGrow
<1> QED
  BY <1>5, <1>6, <1>7, <1>8, <1>9, <1>10, <1>11, <1>12 DEF WriterInv

\* beginGenerationRevocation and beginGenerationCheckpoint.
LEMMA WriteStateKeeps ==
  ASSUME RowsTyped, WriterInv, NEW l \in Launch, NEW from \in Writable, NEW to \in Writable, WriteState(l, from, to)
  PROVE  RowsTyped' /\ WriterInv'
<1>1. /\ run' = run /\ owner' = owner /\ launch[l].phase = "activated"
      /\ launch[l].gen \in Gen /\ gen[launch[l].gen].phase \in Writable
  BY DEF WriteState, WriterInv, ActivatedWrites
<1>2. /\ launch' = [launch EXCEPT ![l].write = to]
      /\ gen' = [gen EXCEPT ![launch[l].gen].phase = to]
  BY DEF WriteState
<1>3. \A m \in Launch \ {l} :
       /\ launch'[m].phase = launch[m].phase /\ launch'[m].gen = launch[m].gen
       /\ launch'[m].epoch = launch[m].epoch /\ launch'[m].write = launch[m].write
  BY <1>2 DEF RowsTyped
<1>4. /\ launch'[l].phase = launch[l].phase /\ launch'[l].gen = launch[l].gen
      /\ launch'[l].epoch = launch[l].epoch /\ launch'[l].write = to
  BY <1>2 DEF RowsTyped, LaunchRow
<1>5. /\ gen'[launch[l].gen].phase = to /\ gen'[launch[l].gen].launch = gen[launch[l].gen].launch
      /\ gen'[launch[l].gen].epoch = gen[launch[l].gen].epoch
      /\ \A h \in Gen : h # launch[l].gen => gen'[h] = gen[h]
  BY <1>1, <1>2 DEF RowsTyped, GenRow
<1>6. launch' \in [Launch -> LaunchRow]
  BY <1>2 DEF RowsTyped, LaunchRow, GenPhase
<1>7. gen' \in [Gen -> GenRow]
  BY <1>1, <1>2 DEF RowsTyped, GenRow, GenPhase
<1>8. RowsTyped'
  BY <1>6, <1>7, <1>1, <1>3, <1>4, <1>5 DEF RowsTyped
<1>9. OneLive'
  BY <1>1, <1>3, <1>4, <1>5, Fields, KernelAssumption DEF WriterInv, Live, Writable, OneLive
<1>10. ActiveRuns'
  BY <1>1, <1>3, <1>4, <1>5, Fields, KernelAssumption DEF WriterInv, Live, Writable, ActiveRuns
<1>11. ActivatedWrites'
  BY <1>1, <1>3, <1>4, <1>5, Fields, KernelAssumption DEF WriterInv, Live, Writable, ActivatedWrites
<1>12. ReservedReads'
  BY <1>1, <1>3, <1>4, <1>5, Fields, KernelAssumption DEF WriterInv, Live, Writable, ReservedReads
<1>13. FencedWaits'
  BY <1>1, <1>3, <1>4, <1>5, Fields, KernelAssumption, SMTT(30) DEF WriterInv, Live, Writable, FencedWaits
<1>14. GenHasLaunch'
  <2>1. \A m \in Launch : launch'[m].phase = launch[m].phase /\ launch'[m].gen = launch[m].gen
    BY <1>3, <1>4
  <2>2. \A h \in Gen : h # launch[l].gen => gen'[h].phase = gen[h].phase
    BY <1>5
  <2>3. gen'[launch[l].gen].phase \in Writable
    BY <1>5
  <2> QED
    BY <1>1, <2>1, <2>2, <2>3 DEF WriterInv, Writable, GenHasLaunch
<1>15. EpochsGrow'
  BY <1>1, <1>3, <1>4, <1>5, Fields, KernelAssumption DEF WriterInv, Live, Writable, EpochsGrow
<1> QED
  BY <1>8, <1>9, <1>10, <1>11, <1>12, <1>13, <1>14, <1>15 DEF WriterInv

\* The commit of a seal, which leaves the Run without a worker.
LEMMA SealKeeps ==
  ASSUME RowsTyped, WriterInv, Quiesced, launch' = SealedLaunch, gen' = SealedGen, run' \in RunRow,
         run'.active = None, run'.status \in {"queued"} \cup Terminal, run'.epoch = run.epoch, owner' = owner
  PROVE  RowsTyped' /\ WriterInv'
<1>1. PICK l \in Launch : l = run.active /\ launch[l].phase = "activated"
  BY Fields DEF Quiesced
<1>2. launch[l].gen \in Gen /\ gen[launch[l].gen].phase \in Writable /\ run.status # "waiting" /\ run'.status \notin {"running", "waiting"}
  BY <1>1 DEF WriterInv, ActivatedWrites, ActiveRuns, Quiesced, Writable, Terminal
<1>3. launch' = [Aged EXCEPT ![l] = [@ EXCEPT !.phase = "retired", !.write = "sealed", !.leased = FALSE]]
  BY <1>1 DEF SealedLaunch
<1>4. gen' = [Checkpointed EXCEPT ![launch[l].gen] = [@ EXCEPT !.phase = "sealed", !.launch = None]]
  BY <1>1 DEF SealedGen
<1>5. \A m \in Launch \ {l} :
       /\ launch'[m].phase = launch[m].phase /\ launch'[m].gen = launch[m].gen
       /\ launch'[m].epoch = launch[m].epoch /\ launch'[m].write = launch[m].write
  BY <1>3, Marks
<1>6. /\ launch'[l].phase = "retired" /\ launch'[l].gen = launch[l].gen
      /\ launch'[l].epoch = launch[l].epoch
  BY <1>3, Marks DEF LaunchRow
<1>7. /\ gen'[launch[l].gen].phase = "sealed"
      /\ \A h \in Gen : h # launch[l].gen =>
           /\ gen'[h].phase = gen[h].phase /\ gen'[h].launch = gen[h].launch
           /\ gen'[h].epoch = gen[h].epoch
  BY <1>2, <1>4, Marks DEF GenRow
<1>8. launch' \in [Launch -> LaunchRow]
  <2>1. Aged \in [Launch -> LaunchRow]
    BY Marks
  <2> QED
    BY <2>1, <1>3, Names, ZenonT(40) DEF LaunchRow
<1>9. gen' \in [Gen -> GenRow]
  <2>1. Checkpointed \in [Gen -> GenRow]
    BY Marks
  <2> QED
    BY <2>1, <1>2, <1>4, Names DEF GenRow
<1>10. RowsTyped'
  BY <1>8, <1>9, <1>1, <1>2, <1>5, <1>6, <1>7 DEF RowsTyped
<1>11. OneLive'
  BY <1>1, <1>2, <1>5, <1>6, <1>7, Fields, KernelAssumption DEF WriterInv, Live, Writable, OneLive
<1>12. ActiveRuns'
  BY <1>1, <1>2, <1>5, <1>6, <1>7, Fields, KernelAssumption DEF WriterInv, Live, Writable, ActiveRuns
<1>13. ActivatedWrites'
  BY <1>1, <1>2, <1>5, <1>6, <1>7, Fields, KernelAssumption DEF WriterInv, Live, Writable, ActivatedWrites
<1>14. ReservedReads'
  BY <1>1, <1>2, <1>5, <1>6, <1>7, Fields, KernelAssumption DEF WriterInv, Live, Writable, ReservedReads
<1>15. FencedWaits'
  BY <1>1, <1>2, <1>5, <1>6, <1>7, Fields, KernelAssumption DEF WriterInv, Live, Writable, FencedWaits
<1>16. GenHasLaunch'
  <2>1. \A g \in Gen : gen[g].phase \in Writable => g = launch[l].gen
    BY <1>1 DEF WriterInv, GenHasLaunch, ActivatedWrites
  <2>2. \A g \in Gen : gen[g].phase # "fenced_reconciling"
    BY <1>2 DEF WriterInv, GenHasLaunch, FencedWaits
  <2> QED
    BY <1>7, <2>1, <2>2 DEF Writable, GenHasLaunch
<1>17. EpochsGrow'
  BY <1>1, <1>2, <1>5, <1>6, <1>7, Fields, KernelAssumption DEF WriterInv, Live, Writable, EpochsGrow
<1> QED
  BY <1>10, <1>11, <1>12, <1>13, <1>14, <1>15, <1>16, <1>17 DEF WriterInv

\* retireWorkerPreparation.
LEMMA RetirePreparationKeeps ==
  ASSUME RowsTyped, WriterInv, NEW l \in Launch, RetirePreparation(l)
  PROVE  RowsTyped' /\ WriterInv'
<1>1. run' = run /\ owner' = owner /\ launch[l].phase = "preparing"
  BY DEF RetirePreparation, Bindable
<1>2. \A m \in Launch \ {l} :
       /\ launch'[m].phase = launch[m].phase /\ launch'[m].gen = launch[m].gen
       /\ launch'[m].epoch = launch[m].epoch /\ launch'[m].write = launch[m].write
  BY DEF RowsTyped, RetirePreparation
<1>3. /\ launch'[l].phase = "retired" /\ launch'[l].gen = launch[l].gen /\ launch'[l].epoch = launch[l].epoch
  BY DEF RowsTyped, LaunchRow, RetirePreparation
<1>4. \A h \in Gen : \/ gen'[h] = gen[h]
                     \/ gen[h].phase \in Unlaunched /\ gen'[h].phase = "retired"
  BY DEF RowsTyped, GenRow, RetirePreparation
<1>5. \A h \in Gen : \/ gen'[h] = gen[h]
                     \/ /\ gen[h].phase \notin Writable \cup {"fenced_reconciling"}
                        /\ gen'[h].phase = "retired"
  BY <1>4 DEF Unlaunched, Writable
<1>6. launch' \in [Launch -> LaunchRow]
  <2>1. launch' = [launch EXCEPT ![l] = [@ EXCEPT !.phase = "retired", !.fresh = FALSE, !.planned = FALSE]]
    BY DEF RetirePreparation
  <2> QED
    BY <2>1, Names DEF RowsTyped, LaunchRow
<1>7. gen' \in [Gen -> GenRow]
  BY Names DEF RowsTyped, GenRow, RetirePreparation
<1>8. RowsTyped'
  BY <1>6, <1>7, <1>1, <1>2, <1>3, <1>4, <1>5 DEF RowsTyped
<1>9. OneLive'
  BY <1>1, <1>2, <1>3, <1>4, <1>5, Fields, KernelAssumption DEF WriterInv, Live, Writable, OneLive
<1>10. ActiveRuns'
  BY <1>1, <1>2, <1>3, <1>4, <1>5, Fields, KernelAssumption DEF WriterInv, Live, Writable, ActiveRuns
<1>11. ActivatedWrites'
  BY <1>1, <1>2, <1>3, <1>4, <1>5, Fields, KernelAssumption DEF WriterInv, Live, Writable, ActivatedWrites
<1>12. ReservedReads'
  BY <1>1, <1>2, <1>3, <1>4, <1>5, Fields, KernelAssumption DEF WriterInv, Live, Writable, ReservedReads
<1>13. FencedWaits'
  BY <1>1, <1>2, <1>3, <1>4, <1>5, Fields, KernelAssumption DEF WriterInv, Live, Writable, FencedWaits
<1>14. GenHasLaunch'
  BY <1>1, <1>2, <1>3, <1>4, <1>5, Fields, KernelAssumption DEF WriterInv, Live, Writable, GenHasLaunch
<1>15. EpochsGrow'
  BY <1>1, <1>2, <1>3, <1>4, <1>5, Fields, KernelAssumption DEF WriterInv, Live, Writable, EpochsGrow
<1> QED
  BY <1>8, <1>9, <1>10, <1>11, <1>12, <1>13, <1>14, <1>15 DEF WriterInv

\* retirePreactivationLaunch.
LEMMA RetirePreactivationKeeps ==
  ASSUME RowsTyped, WriterInv, NEW l \in Launch, RetirePreactivation(l)
  PROVE  RowsTyped' /\ WriterInv'
<1>1. /\ run' = run /\ owner' = owner /\ launch[l].phase \in {"reserved", "preactivated"}
      /\ launch[l].gen \in Gen /\ gen[launch[l].gen].phase = "preactivated_readonly"
  BY DEF RetirePreactivation, WriterInv, ReservedReads
<1>2. launch' = [Revised EXCEPT ![l] = [@ EXCEPT !.phase = "retired", !.fresh = FALSE]]
  BY DEF RetirePreactivation
<1>3. \A m \in Launch \ {l} :
       /\ launch'[m].phase = launch[m].phase /\ launch'[m].gen = launch[m].gen
       /\ launch'[m].epoch = launch[m].epoch /\ launch'[m].write = launch[m].write
  BY <1>2, Marks
<1>4. /\ launch'[l].phase = "retired" /\ launch'[l].gen = launch[l].gen /\ launch'[l].epoch = launch[l].epoch
  BY <1>2, Marks DEF LaunchRow
<1>5. /\ gen'[launch[l].gen].phase = "quarantined"
      /\ \A h \in Gen : h # launch[l].gen => gen'[h] = gen[h]
  BY <1>1 DEF RowsTyped, GenRow, RetirePreactivation
<1>6. launch' \in [Launch -> LaunchRow]
  <2>1. Revised \in [Launch -> LaunchRow]
    BY Marks
  <2> QED
    BY <2>1, <1>2, Names DEF LaunchRow
<1>7. gen' \in [Gen -> GenRow]
  BY Names DEF RowsTyped, GenRow, RetirePreactivation
<1>8. RowsTyped'
  BY <1>6, <1>7, <1>1, <1>3, <1>4, <1>5 DEF RowsTyped
<1>9. OneLive'
  BY <1>1, <1>3, <1>4, <1>5, Fields, KernelAssumption DEF WriterInv, Live, Writable, OneLive
<1>10. ActiveRuns'
  BY <1>1, <1>3, <1>4, <1>5, Fields, KernelAssumption DEF WriterInv, Live, Writable, ActiveRuns
<1>11. ActivatedWrites'
  BY <1>1, <1>3, <1>4, <1>5, Fields, KernelAssumption DEF WriterInv, Live, Writable, ActivatedWrites
<1>12. ReservedReads'
  BY <1>1, <1>3, <1>4, <1>5, Fields, KernelAssumption DEF WriterInv, Live, Writable, ReservedReads
<1>13. FencedWaits'
  BY <1>1, <1>3, <1>4, <1>5, Fields, KernelAssumption DEF WriterInv, Live, Writable, FencedWaits
<1>14. GenHasLaunch'
  BY <1>1, <1>3, <1>4, <1>5, Fields, KernelAssumption DEF WriterInv, Live, Writable, GenHasLaunch
<1>15. EpochsGrow'
  BY <1>1, <1>3, <1>4, <1>5, Fields, KernelAssumption DEF WriterInv, Live, Writable, EpochsGrow
<1> QED
  BY <1>8, <1>9, <1>10, <1>11, <1>12, <1>13, <1>14, <1>15 DEF WriterInv

\* retireQuarantinedGeneration.
LEMMA RetireQuarantinedKeeps ==
  ASSUME RowsTyped, WriterInv, NEW g \in Gen, RetireQuarantined(g)
  PROVE  RowsTyped' /\ WriterInv'
<1>1. run' = run /\ owner' = owner /\ launch' = launch
  BY DEF RetireQuarantined
<1>2. /\ gen[g].phase = "quarantined" /\ gen'[g].phase = "retired"
      /\ \A h \in Gen \ {g} : gen'[h] = gen[h]
  BY DEF RowsTyped, GenRow, RetireQuarantined
<1>3. gen' \in [Gen -> GenRow]
  BY Names DEF RowsTyped, GenRow, RetireQuarantined
<1>4. RowsTyped'
  BY <1>3, <1>1, <1>2 DEF RowsTyped
<1>5. OneLive'
  BY <1>1, <1>2, Fields, KernelAssumption DEF WriterInv, Live, Writable, OneLive
<1>6. ActiveRuns'
  BY <1>1, <1>2, Fields, KernelAssumption DEF WriterInv, Live, Writable, ActiveRuns
<1>7. ActivatedWrites'
  BY <1>1, <1>2, Fields, KernelAssumption DEF WriterInv, Live, Writable, ActivatedWrites
<1>8. ReservedReads'
  BY <1>1, <1>2, Fields, KernelAssumption DEF WriterInv, Live, Writable, ReservedReads
<1>9. FencedWaits'
  BY <1>1, <1>2, Fields, KernelAssumption DEF WriterInv, Live, Writable, FencedWaits
<1>10. GenHasLaunch'
  BY <1>1, <1>2, Fields, KernelAssumption DEF WriterInv, Live, Writable, GenHasLaunch
<1>11. EpochsGrow'
  BY <1>1, <1>2, Fields, KernelAssumption DEF WriterInv, Live, Writable, EpochsGrow
<1> QED
  BY <1>4, <1>5, <1>6, <1>7, <1>8, <1>9, <1>10, <1>11 DEF WriterInv

\* beginWorkerRecovery: the worker is fenced.
LEMMA BeginRecoveryKeeps ==
  ASSUME RowsTyped, WriterInv, NEW l \in Launch, BeginRecovery(l)
  PROVE  RowsTyped' /\ WriterInv'
<1>1. /\ owner' = owner /\ launch[l].phase = "activated" /\ run.active = l /\ run.status = "running"
      /\ launch[l].gen \in Gen /\ gen[launch[l].gen].phase \in Writable
  BY DEF BeginRecovery, WriterInv, ActivatedWrites
<1>2. launch' = [Revised EXCEPT ![l] = [@ EXCEPT !.phase = "reconciling", !.leased = FALSE,
                                                  !.write = "fenced_reconciling"]]
  BY DEF BeginRecovery
<1>3. \A m \in Launch \ {l} :
       /\ launch'[m].phase = launch[m].phase /\ launch'[m].gen = launch[m].gen
       /\ launch'[m].epoch = launch[m].epoch /\ launch'[m].write = launch[m].write
  BY <1>2, Marks
<1>4. /\ launch'[l].phase = "reconciling" /\ launch'[l].write = "fenced_reconciling"
      /\ launch'[l].gen = launch[l].gen /\ launch'[l].epoch = launch[l].epoch
  BY <1>2, Marks DEF LaunchRow
<1>5. /\ gen'[launch[l].gen].phase = "fenced_reconciling"
      /\ gen'[launch[l].gen].launch = gen[launch[l].gen].launch
      /\ gen'[launch[l].gen].epoch = gen[launch[l].gen].epoch
      /\ \A h \in Gen : h # launch[l].gen => gen'[h] = gen[h]
  BY <1>1 DEF RowsTyped, GenRow, BeginRecovery
<1>6. run'.status = "waiting" /\ run'.active = None /\ run'.epoch = run.epoch
  BY DEF RowsTyped, RunRow, BeginRecovery
<1>7. run' \in RunRow
  BY DEF RowsTyped, RunRow, BeginRecovery
<1>8. launch' \in [Launch -> LaunchRow]
  <2>1. Revised \in [Launch -> LaunchRow]
    BY Marks
  <2> QED
    BY <2>1, <1>2, Names DEF LaunchRow
<1>9. gen' \in [Gen -> GenRow]
  BY Names DEF RowsTyped, GenRow, BeginRecovery
<1>10. RowsTyped'
  BY <1>7, <1>8, <1>9, <1>1, <1>3, <1>4, <1>5, <1>6 DEF RowsTyped
<1>11. OneLive'
  BY <1>1, <1>3, <1>4, <1>5, <1>6, Fields, KernelAssumption DEF WriterInv, Live, Writable, OneLive
<1>12. ActiveRuns'
  BY <1>1, <1>3, <1>4, <1>5, <1>6, Fields, KernelAssumption DEF WriterInv, Live, Writable, ActiveRuns
<1>13. ActivatedWrites'
  BY <1>1, <1>3, <1>4, <1>5, <1>6, Fields, KernelAssumption DEF WriterInv, Live, Writable, ActivatedWrites
<1>14. ReservedReads'
  BY <1>1, <1>3, <1>4, <1>5, <1>6, Fields, KernelAssumption DEF WriterInv, Live, Writable, ReservedReads
<1>15. FencedWaits'
  <2>1. \A m \in Launch \ {l} : launch'[m].phase # "reconciling"
    BY <1>1, <1>3 DEF WriterInv, OneLive, Live
  <2>2. /\ launch[l].epoch = run.epoch /\ gen[launch[l].gen].launch = l
        /\ gen[launch[l].gen].epoch = run.epoch
    BY <1>1 DEF WriterInv, ActivatedWrites
  <2> QED
    BY <1>1, <1>4, <1>5, <1>6, <2>1, <2>2 DEF FencedWaits
<1>16. GenHasLaunch'
  <2>1. \A g \in Gen : gen[g].phase \in Writable => g = launch[l].gen
    BY <1>1 DEF WriterInv, GenHasLaunch, ActivatedWrites
  <2>2. \A g \in Gen : gen[g].phase # "fenced_reconciling"
    BY <1>1 DEF WriterInv, GenHasLaunch, FencedWaits
  <2> QED
    BY <1>1, <1>4, <1>5, <2>1, <2>2 DEF Writable, GenHasLaunch
<1>17. EpochsGrow'
  BY <1>1, <1>3, <1>4, <1>5, <1>6, Fields, KernelAssumption DEF WriterInv, Live, Writable, EpochsGrow
<1> QED
  BY <1>10, <1>11, <1>12, <1>13, <1>14, <1>15, <1>16, <1>17 DEF WriterInv

\* completeWorkerRecoveryProbe, when the Run goes on.
LEMMA CompleteProbeKeeps ==
  ASSUME RowsTyped, WriterInv, NEW l \in Launch, CompleteProbe(l)
  PROVE  RowsTyped' /\ WriterInv'
<1>1. /\ owner' = owner /\ launch[l].phase = "reconciling" /\ run.status = "waiting" /\ run.active = None
      /\ launch[l].gen \in Gen
  BY DEF CompleteProbe, Inspected, Fenced, WriterInv, FencedWaits, ActiveRuns
<1>2. launch' = [Revised EXCEPT ![l].phase = "retired"]
  BY DEF CompleteProbe
<1>3. \A m \in Launch \ {l} :
       /\ launch'[m].phase = launch[m].phase /\ launch'[m].gen = launch[m].gen
       /\ launch'[m].epoch = launch[m].epoch /\ launch'[m].write = launch[m].write
  BY <1>2, Marks
<1>4. /\ launch'[l].phase = "retired" /\ launch'[l].gen = launch[l].gen /\ launch'[l].epoch = launch[l].epoch
  BY <1>2, Marks DEF LaunchRow
<1>5. /\ gen'[launch[l].gen].phase = "quarantined"
      /\ \A h \in Gen : h # launch[l].gen => gen'[h] = gen[h]
  BY <1>1 DEF RowsTyped, GenRow, CompleteProbe
<1>6. run'.status = "queued" /\ run'.active = None /\ run'.epoch = run.epoch
  BY <1>1 DEF RowsTyped, RunRow, CompleteProbe
<1>7. run' \in RunRow
  BY DEF RowsTyped, RunRow, CompleteProbe
<1>8. launch' \in [Launch -> LaunchRow]
  <2>1. Revised \in [Launch -> LaunchRow]
    BY Marks
  <2> QED
    BY <2>1, <1>2, Names DEF LaunchRow
<1>9. gen' \in [Gen -> GenRow]
  BY Names DEF RowsTyped, GenRow, CompleteProbe
<1>10. RowsTyped'
  BY <1>7, <1>8, <1>9, <1>1, <1>3, <1>4, <1>5, <1>6 DEF RowsTyped
<1>11. OneLive'
  BY <1>1, <1>3, <1>4, <1>5, <1>6, Fields, KernelAssumption DEF WriterInv, Live, Writable, OneLive
<1>12. ActiveRuns'
  BY <1>1, <1>3, <1>4, <1>5, <1>6, Fields, KernelAssumption DEF WriterInv, Live, Writable, ActiveRuns
<1>13. ActivatedWrites'
  BY <1>1, <1>3, <1>4, <1>5, <1>6, Fields, KernelAssumption DEF WriterInv, Live, Writable, ActivatedWrites
<1>14. ReservedReads'
  BY <1>1, <1>3, <1>4, <1>5, <1>6, Fields, KernelAssumption DEF WriterInv, Live, Writable, ReservedReads
<1>15. FencedWaits'
  <2>1. \A m \in Launch : launch'[m].phase # "reconciling"
    BY <1>1, <1>3, <1>4 DEF WriterInv, OneLive, Live
  <2> QED
    BY <1>6, <2>1 DEF FencedWaits, Terminal
<1>16. GenHasLaunch'
  <2>1. \A g \in Gen : gen[g].phase = "fenced_reconciling" => g = launch[l].gen
    BY <1>1 DEF WriterInv, GenHasLaunch, OneLive, Live
  <2>2. \A g \in Gen : gen[g].phase \notin Writable
    BY <1>1 DEF WriterInv, GenHasLaunch, OneLive, Live
  <2> QED
    BY <1>1, <1>5, <2>1, <2>2 DEF Writable, GenHasLaunch
<1>17. EpochsGrow'
  BY <1>1, <1>3, <1>4, <1>5, <1>6, Fields, KernelAssumption DEF WriterInv, Live, Writable, EpochsGrow
<1> QED
  BY <1>10, <1>11, <1>12, <1>13, <1>14, <1>15, <1>16, <1>17 DEF WriterInv

\* completeWorkerRecoveryProbe, when the Run is stopped.
LEMMA CompleteProbeStoppedKeeps ==
  ASSUME RowsTyped, WriterInv, NEW l \in Launch, CompleteProbeStopped(l)
  PROVE  RowsTyped' /\ WriterInv'
<1>1. /\ owner' = owner /\ launch[l].phase = "reconciling" /\ run.status = "waiting" /\ run.active = None
      /\ launch[l].gen \in Gen
  BY DEF CompleteProbeStopped, Inspected, Fenced, WriterInv, FencedWaits, ActiveRuns
<1>2. launch' = [Aged EXCEPT ![l].phase = "retired"]
  BY DEF CompleteProbeStopped
<1>3. \A m \in Launch \ {l} :
       /\ launch'[m].phase = launch[m].phase /\ launch'[m].gen = launch[m].gen
       /\ launch'[m].epoch = launch[m].epoch /\ launch'[m].write = launch[m].write
  BY <1>2, Marks
<1>4. /\ launch'[l].phase = "retired" /\ launch'[l].gen = launch[l].gen /\ launch'[l].epoch = launch[l].epoch
  BY <1>2, Marks DEF LaunchRow
<1>5. /\ gen'[launch[l].gen].phase = "retired"
      /\ \A h \in Gen : h # launch[l].gen =>
           /\ gen'[h].phase = gen[h].phase /\ gen'[h].launch = gen[h].launch
           /\ gen'[h].epoch = gen[h].epoch
  BY <1>1, Marks DEF RowsTyped, GenRow, CompleteProbeStopped
<1>6. run'.status \in Terminal /\ run'.active = None /\ run'.epoch = run.epoch /\ run' \in RunRow
  BY TerminalTyped DEF CompleteProbeStopped, RowsTyped
<1>7. run'.status \notin {"running", "waiting"}
  BY <1>6 DEF Terminal
<1>8. launch' \in [Launch -> LaunchRow]
  <2>1. Aged \in [Launch -> LaunchRow]
    BY Marks
  <2> QED
    BY <2>1, <1>2, Names DEF LaunchRow
<1>9. gen' \in [Gen -> GenRow]
  <2>1. Checkpointed \in [Gen -> GenRow]
    BY Marks
  <2> QED
    BY <2>1, Names DEF GenRow, CompleteProbeStopped
<1>10. RowsTyped'
  BY <1>8, <1>9, <1>1, <1>3, <1>4, <1>5, <1>6, <1>7 DEF RowsTyped
<1>11. OneLive'
  BY <1>1, <1>3, <1>4, <1>5, <1>6, <1>7, Fields, KernelAssumption DEF WriterInv, Live, Writable, OneLive
<1>12. ActiveRuns'
  BY <1>1, <1>3, <1>4, <1>5, <1>6, <1>7, Fields, KernelAssumption DEF WriterInv, Live, Writable, ActiveRuns
<1>13. ActivatedWrites'
  BY <1>1, <1>3, <1>4, <1>5, <1>6, <1>7, Fields, KernelAssumption DEF WriterInv, Live, Writable, ActivatedWrites
<1>14. ReservedReads'
  BY <1>1, <1>3, <1>4, <1>5, <1>6, <1>7, Fields, KernelAssumption DEF WriterInv, Live, Writable, ReservedReads
<1>15. FencedWaits'
  <2>1. \A m \in Launch : launch'[m].phase # "reconciling"
    BY <1>1, <1>3, <1>4 DEF WriterInv, OneLive, Live
  <2> QED
    BY <1>6, <2>1 DEF FencedWaits, Terminal
<1>16. GenHasLaunch'
  <2>1. \A g \in Gen : gen[g].phase = "fenced_reconciling" => g = launch[l].gen
    BY <1>1 DEF WriterInv, GenHasLaunch, OneLive, Live
  <2>2. \A g \in Gen : gen[g].phase \notin Writable
    BY <1>1 DEF WriterInv, GenHasLaunch, OneLive, Live
  <2> QED
    BY <1>1, <1>5, <2>1, <2>2 DEF Writable, GenHasLaunch
<1>17. EpochsGrow'
  BY <1>1, <1>3, <1>4, <1>5, <1>6, <1>7, Fields, KernelAssumption DEF WriterInv, Live, Writable, EpochsGrow
<1> QED
  BY <1>10, <1>11, <1>12, <1>13, <1>14, <1>15, <1>16, <1>17 DEF WriterInv

-----------------------------------------------------------------------------
(* The other steps, and all of them.                                       *)

\* The row of the Run after a reservation or a settlement.
LEMMA RunUpdates ==
  ASSUME run \in RunRow, NEW op \in Op
  PROVE  /\ Counter(op) \in Counters /\ DOMAIN Ceiling = Counters
         /\ [run EXCEPT !.reserved[Counter(op)] = @ + 1] \in RunRow
         /\ \A x \in {0, 1} : /\ Charged(op, x) \in RunRow
                              /\ Charged(op, x).status = run.status
                              /\ Charged(op, x).active = run.active
                              /\ Charged(op, x).epoch = run.epoch /\ Charged(op, x).stop = run.stop
                              /\ Charged(op, x).next = run.next
<1>1. Counter(op) \in Counters /\ DOMAIN Ceiling = Counters
  BY KernelAssumption DEF Counter, Counters
<1> DEFINE c == Counter(op)
<1>2. /\ \A x \in Int : [run.reserved EXCEPT ![c] = x] \in [Counters -> Int]
      /\ \A x \in Int : [run.consumed EXCEPT ![c] = x] \in [Counters -> Int]
      /\ run.reserved[c] \in Int /\ run.consumed[c] \in Int
  BY <1>1 DEF RunRow
<1>3. [run EXCEPT !.reserved[Counter(op)] = @ + 1] \in RunRow
  <2>1. [run.reserved EXCEPT ![c] = run.reserved[c] + 1] \in [Counters -> Int]
    BY <1>2
  <2> QED
    BY <2>1 DEF RunRow
<1>4. ASSUME NEW x \in {0, 1}
      PROVE  /\ Charged(op, x) \in RunRow /\ Charged(op, x).status = run.status
             /\ Charged(op, x).active = run.active
             /\ Charged(op, x).epoch = run.epoch /\ Charged(op, x).stop = run.stop
             /\ Charged(op, x).next = run.next
  <2>1. /\ [run.reserved EXCEPT ![c] = run.reserved[c] - 1] \in [Counters -> Int]
        /\ [run.consumed EXCEPT ![c] = run.consumed[c] + x] \in [Counters -> Int]
    BY <1>2
  <2>2. Charged(op, x) = [run EXCEPT !.reserved = [run.reserved EXCEPT ![c] = run.reserved[c] - 1],
                                     !.consumed = [run.consumed EXCEPT ![c] = run.consumed[c] + x]]
    BY DEF Charged, RunRow
  <2> QED
    BY <2>1, <2>2 DEF RunRow
<1> QED
  BY <1>1, <1>3, <1>4

\* A step that only writes of the Run what the writers do not read, and marks
\* rows or leaves them.
LEMMA MarkingKeeps ==
  ASSUME RowsTyped, WriterInv, run' \in RunRow, run'.status = run.status,
         run'.active = run.active, run'.epoch = run.epoch,
         launch' \in {launch, Revised, Aged}, gen' \in {gen, Checkpointed}, owner' \in Nat
  PROVE  RowsTyped' /\ WriterInv'
<1>1. launch' \in [Launch -> LaunchRow] /\ gen' \in [Gen -> GenRow]
  BY Marks DEF RowsTyped
<1>2. RowsKept
  <2>1. \A l \in Launch :
         /\ launch'[l].phase = launch[l].phase /\ launch'[l].gen = launch[l].gen
         /\ launch'[l].epoch = launch[l].epoch /\ launch'[l].write = launch[l].write
    BY Marks
  <2>2. \A g \in Gen : /\ gen'[g].phase = gen[g].phase /\ gen'[g].launch = gen[g].launch
                       /\ gen'[g].epoch = gen[g].epoch
    BY Marks
  <2> QED
    BY <2>1, <2>2 DEF RowsKept
<1> QED
  BY <1>1, <1>2, KeptKeeps DEF RowsTyped

\* A step of the journal.
LEMMA JournalKeepsRows ==
  ASSUME RowsTyped, WriterInv, Journal
  PROVE  RowsTyped' /\ WriterInv'
<1>0. run \in RunRow /\ owner \in Nat /\ (run.next \in Op => run.next + 1 \in Op \cup {Len(Kinds) + 1})
  BY KernelAssumption DEF RowsTyped, Op
<1>1. CASE PrepareModel \/ PrepareTool
  <2>1. PICK op \in Op : op = run.next /\ run' = [run EXCEPT !.reserved[Counter(op)] = @ + 1]
    BY <1>1 DEF PrepareModel, PrepareTool, Front, Reserve
  <2>2. run' \in RunRow /\ run'.status = run.status /\ run'.active = run.active /\ run'.epoch = run.epoch
    BY <1>0, <2>1, RunUpdates DEF RunRow
  <2>3. launch' \in {launch, Revised, Aged} /\ gen' \in {gen, Checkpointed} /\ owner' = owner
    BY <1>1 DEF PrepareModel, PrepareTool
  <2> QED
    BY <1>0, <2>2, <2>3, MarkingKeeps
<1>2. CASE DenyTool
  <2>1. run' \in RunRow /\ run'.status = run.status /\ run'.active = run.active /\ run'.epoch = run.epoch
    BY <1>0, <1>2 DEF DenyTool, Front, RunRow
  <2>2. launch' = Aged /\ gen' = Checkpointed /\ owner' = owner
    BY <1>2 DEF DenyTool
  <2> QED
    BY <1>0, <2>1, <2>2, MarkingKeeps
<1>3. CASE ClaimInvocation \/ ReleaseInvocation \/ AbandonUnknown
  <2>1. run' = run /\ launch' = launch /\ gen' = gen /\ owner' = owner
    BY <1>3 DEF ClaimInvocation, ReleaseInvocation, AbandonUnknown
  <2> QED
    BY <1>0, <2>1, MarkingKeeps
<1>4. CASE FailBeforeDispatch \/ FailWithoutRelease \/ MarkUnknown
  <2>1. PICK op \in Op, x \in {0, 1} : run' = Charged(op, x)
    BY <1>4 DEF FailBeforeDispatch, FailWithoutRelease, MarkUnknown
  <2>2. run' \in RunRow /\ run'.status = run.status /\ run'.active = run.active /\ run'.epoch = run.epoch
    BY <1>0, <2>1, RunUpdates
  <2>3. launch' = Revised /\ gen' = gen /\ owner' = owner
    BY <1>4 DEF FailBeforeDispatch, FailWithoutRelease, MarkUnknown
  <2> QED
    BY <1>0, <2>2, <2>3, MarkingKeeps
<1>5. CASE CompleteModel \/ CompleteRead
  <2>1. PICK op \in Op, n \in {run.next, run.next + 1} :
          op = run.next /\ run' = [Charged(op, 1) EXCEPT !.next = n]
    <3>1. CASE CompleteModel
      BY <3>1 DEF CompleteModel, Continues, Front
    <3>2. CASE CompleteRead
      <4>1. run.next \in Op /\ run' = [Charged(run.next, 1) EXCEPT !.next = @ + 1]
        BY <3>2 DEF CompleteRead, Continues, Front
      <4>2. Charged(run.next, 1).next = run.next
        BY <1>0, <4>1, RunUpdates
      <4> QED
        BY <4>1, <4>2
    <3> QED
      BY <1>5, <3>1, <3>2
  <2>2. Charged(op, 1) \in RunRow /\ n \in Op \cup {Len(Kinds) + 1}
    BY <1>0, <2>1, RunUpdates
  <2>3. /\ Charged(op, 1).status = run.status /\ Charged(op, 1).active = run.active
        /\ Charged(op, 1).epoch = run.epoch
    BY <1>0, <2>1, RunUpdates
  <2>4. run' \in RunRow /\ run'.status = run.status /\ run'.active = run.active /\ run'.epoch = run.epoch
    BY <2>1, <2>2, <2>3 DEF RunRow
  <2>5. launch' = Aged /\ gen' = Checkpointed /\ owner' = owner
    BY <1>5 DEF CompleteModel, CompleteRead
  <2> QED
    BY <1>0, <2>4, <2>5, MarkingKeeps
<1>6. CASE CompleteEdit
  <2>1. run.next \in Op /\ run' = [Charged(run.next, 1) EXCEPT
                 !.next = @ + 1, !.status = "queued", !.active = None]
    BY <1>6 DEF CompleteEdit, Continues, Front
  <2>2. /\ Charged(run.next, 1) \in RunRow /\ Charged(run.next, 1).next = run.next
        /\ Charged(run.next, 1).epoch = run.epoch
    BY <1>0, <2>1, RunUpdates
  <2>3. run' \in RunRow /\ run'.active = None /\ run'.status = "queued" /\ run'.epoch = run.epoch
    BY <1>0, <2>1, <2>2 DEF RunRow
  <2>4. Quiesced /\ launch' = SealedLaunch /\ gen' = SealedGen /\ owner' = owner
    BY <1>6 DEF CompleteEdit
  <2> QED
    BY <2>3, <2>4, SealKeeps
<1> QED
  BY <1>1, <1>2, <1>3, <1>4, <1>5, <1>6 DEF Journal

\* A step that stops the Run, or that the clock takes.
LEMMA StopKeepsRows ==
  ASSUME RowsTyped, WriterInv, Stop \/ DeadlinePasses \/ Restart
  PROVE  RowsTyped' /\ WriterInv'
<1>0. run \in RunRow /\ owner \in Nat
  BY DEF RowsTyped
<1>1. CASE Cancel \/ Expire \/ StopForResource \/ StopForModelFailure
  <2>1. PICK origin \in StopOrigin : run' = [run EXCEPT !.stop = origin]
    BY <1>1 DEF Cancel, Expire, StopForResource, StopForModelFailure, DeriveStop, StopOrigin
  <2>2. launch' = Revised /\ gen' = gen /\ owner' = owner
    BY <1>1 DEF Cancel, Expire, StopForResource, StopForModelFailure, DeriveStop
  <2>3. run' \in RunRow /\ run'.status = run.status /\ run'.active = run.active /\ run'.epoch = run.epoch
    BY <1>0, <2>1 DEF RunRow
  <2> QED
    BY <1>0, <2>2, <2>3, MarkingKeeps
<1>2. CASE CommitTerminalStop
  <2>1. run' = TerminalRun /\ owner' = owner /\ run.status # "waiting"
    BY <1>2 DEF CommitTerminalStop, StopCut
  <2>2. run' \in RunRow /\ run'.status \in Terminal /\ run'.active = None /\ run'.epoch = run.epoch
    BY <1>0, <2>1, TerminalTyped
  <2>3. CASE run.active # None
    <3>1. Quiesced /\ launch' = SealedLaunch /\ gen' = SealedGen
      BY <1>2, <2>3 DEF CommitTerminalStop
    <3> QED
      BY <2>1, <2>2, <3>1, SealKeeps
  <2>4. CASE run.active = None
    <3>1. launch' = Aged /\ gen' = Checkpointed
      BY <1>2, <2>4 DEF CommitTerminalStop, Quiesced
    <3>2. /\ RowsTyped'
          /\ \A l \in Launch :
              /\ launch'[l].phase = launch[l].phase /\ launch'[l].gen = launch[l].gen
              /\ launch'[l].epoch = launch[l].epoch /\ launch'[l].write = launch[l].write
          /\ \A g \in Gen : /\ gen'[g].phase = gen[g].phase /\ gen'[g].launch = gen[g].launch
                            /\ gen'[g].epoch = gen[g].epoch
      BY <1>0, <2>1, <2>2, <3>1, Marks DEF RowsTyped
    <3>3. run'.status \notin {"running", "waiting"}
      BY <2>2 DEF Terminal
    <3>4. OneLive' /\ ReservedReads'
      BY <3>2 DEF WriterInv, Live, OneLive, ReservedReads
    <3>5. \A l \in Launch : launch[l].phase \notin {"activated", "reconciling"}
      BY <2>1, <2>4, KernelAssumption DEF WriterInv, ActivatedWrites, FencedWaits
    <3>6. ActiveRuns' /\ ActivatedWrites' /\ FencedWaits'
      BY <2>2, <3>2, <3>3, <3>5 DEF ActiveRuns, ActivatedWrites, FencedWaits
    <3>7. GenHasLaunch'
      BY <3>2, <3>5 DEF WriterInv, Writable, GenHasLaunch
    <3>8. EpochsGrow'
      BY <2>2, <3>2 DEF WriterInv, EpochsGrow
    <3> QED
      BY <3>2, <3>4, <3>6, <3>7, <3>8 DEF WriterInv
  <2> QED
    BY <2>3, <2>4
<1>3. CASE DeadlinePasses \/ Restart
  <2>1. run' = run /\ launch' = launch /\ gen' = gen /\ owner' \in Nat
    BY <1>0, <1>3 DEF DeadlinePasses, Restart
  <2> QED
    BY <1>0, <2>1, MarkingKeeps
<1> QED
  BY <1>1, <1>2, <1>3 DEF Stop

\* A step of a worker or of its generation.
LEMMA WorkerKeepsRows ==
  ASSUME RowsTyped, WriterInv, Worker
  PROVE  RowsTyped' /\ WriterInv'
<1>0. run \in RunRow /\ owner \in Nat
  BY DEF RowsTyped
<1>1. ASSUME NEW l \in Launch, RecordPreparationController(l) \/ LeaseExpires(l)
      PROVE  RowsTyped' /\ WriterInv'
  <2>1. run' = run /\ gen' = gen /\ owner' = owner
    BY <1>1 DEF RecordPreparationController, LeaseExpires
  <2>2. launch' \in [Launch -> LaunchRow]
    <3>1. \/ launch' = [launch EXCEPT ![l].prep = "controller"]
          \/ launch' = [launch EXCEPT ![l].leased = FALSE]
      BY <1>1 DEF RecordPreparationController, LeaseExpires
    <3>2. /\ [launch EXCEPT ![l].prep = "controller"] \in [Launch -> LaunchRow]
          /\ [launch EXCEPT ![l].leased = FALSE] \in [Launch -> LaunchRow]
      BY DEF RowsTyped, LaunchRow
    <3> QED
      BY <3>1, <3>2
  <2>3. \A m \in Launch :
         /\ launch'[m].phase = launch[m].phase /\ launch'[m].gen = launch[m].gen
         /\ launch'[m].epoch = launch[m].epoch /\ launch'[m].write = launch[m].write
    BY <1>1 DEF RecordPreparationController, LeaseExpires, RowsTyped, LaunchRow
  <2>4. RowsKept
    BY <2>1, <2>3 DEF RowsKept
  <2> QED
    BY <2>1, <2>2, <2>4, KeptKeeps DEF RowsTyped
<1>2. ASSUME NEW l \in Launch, BeginRevocation(l) \/ BeginCheckpoint(l)
      PROVE  RowsTyped' /\ WriterInv'
  BY <1>2, WriteStateKeeps DEF BeginRevocation, BeginCheckpoint, Writable
<1>3. CASE SealGeneration
  <2>1. Quiesced /\ launch' = SealedLaunch /\ gen' = SealedGen /\ owner' = owner
    BY <1>3 DEF SealGeneration
  <2>2. run' \in RunRow /\ run'.active = None /\ run'.status = "queued" /\ run'.epoch = run.epoch
    BY <1>0, <1>3 DEF SealGeneration, RunRow
  <2> QED
    BY <2>1, <2>2, SealKeeps
<1>4. CASE BeginProbe \/ CloseProbe
  <2>1. run' = run /\ launch' = Revised /\ gen' = gen /\ owner' = owner
    BY <1>4 DEF BeginProbe, CloseProbe
  <2> QED
    BY <1>0, <2>1, MarkingKeeps
<1> QED
  BY <1>1, <1>2, <1>3, <1>4, BeginPreparationKeeps, PreparationGenerationKeeps, ReserveKeeps,
     ActivateKeeps, UnlaunchedKeeps, WorkerPreactivatedKeeps, RetirePreparationKeeps,
     RetirePreactivationKeeps, RetireQuarantinedKeeps, BeginRecoveryKeeps, CompleteProbeKeeps,
     CompleteProbeStoppedKeeps DEF Worker

LEMMA RowsInit == Init => RowsTyped /\ WriterInv
<1> SUFFICES ASSUME Init PROVE RowsTyped /\ WriterInv
  OBVIOUS
<1>1. DOMAIN Ceiling = Counters /\ 1 \in Op
  BY KernelAssumption DEF Counters, Op
<1>2. run \in RunRow
  <2>1. [c \in DOMAIN Ceiling |-> 0] \in [Counters -> Int]
    BY <1>1
  <2> QED
    BY <1>1, <2>1 DEF Init, RunRow
<1>3. launch \in [Launch -> LaunchRow] /\ gen \in [Gen -> GenRow] /\ owner \in Nat
  BY Names DEF Init, LaunchRow, GenRow
<1>4. /\ \A l \in Launch : launch[l].phase = "none" /\ launch[l].epoch = 0
      /\ \A g \in Gen : gen[g].phase = "none"
      /\ run.active = None /\ run.status = "queued" /\ run.epoch = 0
  BY DEF Init
<1>5. WriterInv
  BY <1>4 DEF WriterInv, OneLive, Live, ActiveRuns, ActivatedWrites, ReservedReads, FencedWaits,
              GenHasLaunch, EpochsGrow, Writable
<1> QED
  BY <1>2, <1>3, <1>5 DEF RowsTyped

LEMMA RowsNext == RowsTyped /\ WriterInv /\ [Next]_vars => RowsTyped' /\ WriterInv'
<1> SUFFICES ASSUME RowsTyped, WriterInv, [Next]_vars PROVE RowsTyped' /\ WriterInv'
  OBVIOUS
<1>1. CASE UNCHANGED vars
  BY <1>1, MarkingKeeps DEF vars, RowsTyped
<1> QED
  BY <1>1, JournalKeepsRows, WorkerKeepsRows, StopKeepsRows DEF Next

\* One writer, for any number of launches, generations, state owners and lost
\* workers: a launch is made only when the last one is retired, and the only
\* generation that can be written is the active worker's, at the current epoch.
THEOREM OneWriterAlways == Spec => []OneWriter
<1>1. RowsTyped /\ WriterInv => OneWriter
  <2> SUFFICES ASSUME RowsTyped, WriterInv PROVE OneWriter
    OBVIOUS
  <2>1. \A l, m \in Launch : Live(l) /\ Live(m) => l = m
    BY DEF WriterInv, OneLive
  <2>2. ASSUME NEW g \in Gen, gen[g].phase \in Writable
        PROVE  /\ run.active # None /\ run.status = "running"
               /\ launch[run.active].gen = g /\ gen[g].launch = run.active
               /\ gen[g].epoch = run.epoch /\ launch[run.active].epoch = run.epoch
               /\ launch[run.active].write = gen[g].phase
    <3>1. PICK l \in Launch : launch[l].phase = "activated" /\ launch[l].gen = g
      BY <2>2 DEF WriterInv, GenHasLaunch
    <3> QED
      BY <3>1, KernelAssumption DEF WriterInv, ActivatedWrites, ActiveRuns
  <2> QED
    BY <2>1, <2>2 DEF OneWriter
<1> QED
  BY <1>1, RowsInit, RowsNext, PTL DEF Spec

-----------------------------------------------------------------------------
(* The steps of the journal.                                               *)

\* An attempt is a pair of its operation and its number.
LEMMA AttemptsArePairs ==
  /\ \A a \in Attempts : /\ a[1] \in Op /\ a[2] \in DOMAIN att[a[1]]
                         /\ a = <<a[1], a[2]>>
  /\ \A op \in Op : \A i \in DOMAIN att[op] : <<op, i>> \in Attempts
BY DEF Attempts

\* One attempt changes.
LEMMA Changed ==
  ASSUME att \in [Op -> Seq(Attempt)], NEW op \in Op, NEW i \in DOMAIN att[op], NEW y \in Attempt,
         att' = [att EXCEPT ![op] = [att[op] EXCEPT ![i] = y]]
  PROVE  /\ att' \in [Op -> Seq(Attempt)] /\ att'[op][i] = y
         /\ \A o \in Op : Len(att'[o]) = Len(att[o]) /\ DOMAIN att'[o] = DOMAIN att[o]
         /\ \A o \in Op : \A j \in DOMAIN att[o] : o # op \/ j # i => att'[o][j] = att[o][j]
<1>1. [att[op] EXCEPT ![i] = y] \in Seq(Attempt) /\ Len([att[op] EXCEPT ![i] = y]) = Len(att[op])
  BY ExceptSeq
<1> QED
  BY <1>1

\* One attempt is added.
LEMMA Added ==
  ASSUME att \in [Op -> Seq(Attempt)], NEW op \in Op, NEW y \in Attempt,
         att' = [att EXCEPT ![op] = Append(@, y)]
  PROVE  /\ att' \in [Op -> Seq(Attempt)] /\ att'[op][Len(att[op]) + 1] = y
         /\ Len(att'[op]) = Len(att[op]) + 1 /\ DOMAIN att'[op] = DOMAIN att[op] \cup {Len(att[op]) + 1}
         /\ \A o \in Op \ {op} : att'[o] = att[o]
         /\ \A j \in DOMAIN att[op] : att'[op][j] = att[op][j]
<1>1. att'[op] = Append(att[op], y) /\ att[op] \in Seq(Attempt)
  OBVIOUS
<1>2. /\ Append(att[op], y) \in Seq(Attempt) /\ Len(Append(att[op], y)) = Len(att[op]) + 1
      /\ \A j \in 1..Len(att[op]) : Append(att[op], y)[j] = att[op][j]
      /\ Append(att[op], y)[Len(att[op]) + 1] = y
  BY <1>1, AppendProperties
<1>3. DOMAIN Append(att[op], y) = 1..(Len(att[op]) + 1) /\ DOMAIN att[op] = 1..Len(att[op])
  BY <1>1, <1>2
<1>4. 1..(Len(att[op]) + 1) = 1..Len(att[op]) \cup {Len(att[op]) + 1}
  BY <1>1
<1> QED
  BY <1>1, <1>2, <1>3, <1>4

\* The last attempt of an operation.
LEMMA LastIsThere ==
  ASSUME att \in [Op -> Seq(Attempt)], NEW op \in Op, LastPhase(op) # "none"
  PROVE  Len(att[op]) \in DOMAIN att[op] /\ Len(att[op]) \in Nat \ {0} /\ LastAtt(op) \in Attempt
         /\ LastPhase(op) = att[op][Len(att[op])].phase
<1>1. att[op] \in Seq(Attempt) /\ att[op] # <<>>
  BY DEF LastPhase
<1> QED
  BY <1>1 DEF LastPhase, LastAtt

\* The last attempt of an operation, which has not completed, gets an outcome;
\* the Run goes past it only if it has completed now.
LEMMA OutcomeKeeps ==
  ASSUME JournalInv, NEW op \in Op, NEW n, n = Len(att[op]), n \in DOMAIN att[op],
         NEW y \in Attempt, att' = [att EXCEPT ![op] = [att[op] EXCEPT ![n] = y]],
         att[op][n].phase # "completed",
         IF y.claimed THEN y.phase # "prepared" ELSE y.phase \in {"prepared", "failed"},
         y.released => y.claimed,
         run.next \in Nat, run'.next \in {run.next, run.next + 1},
         run'.next # run.next => op = run.next /\ (Kinds[op] # "model" => y.phase = "completed"),
         handles' \subseteq Op \X (1 .. MaxAttempts), owner' \in Nat
  PROVE  JournalInv'
<1>1. /\ att' \in [Op -> Seq(Attempt)] /\ att'[op][n] = y
      /\ \A o \in Op : Len(att'[o]) = Len(att[o]) /\ DOMAIN att'[o] = DOMAIN att[o]
      /\ \A o \in Op : \A j \in DOMAIN att[o] : o # op \/ j # n => att'[o][j] = att[o][j]
  BY Changed DEF JournalInv, JournalTyped
<1>2. \A o \in Op : /\ att[o] \in Seq(Attempt) /\ att'[o] \in Seq(Attempt) /\ o \in Nat
                    /\ DOMAIN att[o] = 1..Len(att[o]) /\ Len(att[o]) \in Nat
  BY <1>1 DEF JournalInv, JournalTyped, Op
<1>3. JournalTyped'
  BY <1>1 DEF JournalInv, JournalTyped
<1>4. InOrder'
  <2> SUFFICES ASSUME NEW o \in Op
               PROVE  /\ o > run'.next => att'[o] = <<>>
                      /\ Kinds[o] # "model" => Len(att'[o]) <= 1
                      /\ Kinds[o] # "model" /\ o < run'.next =>
                           \A i \in DOMAIN att'[o] : att'[o][i].phase = "completed"
    BY DEF InOrder
  <2>1. o > run'.next => att'[o] = <<>>
    <3>1. o > run'.next => Len(att[o]) = 0
      BY <1>2 DEF JournalInv, InOrder
    <3> QED
      BY <1>1, <1>2, <3>1
  <2>2. Kinds[o] # "model" => Len(att'[o]) <= 1
    BY <1>1 DEF JournalInv, InOrder
  <2>3. ASSUME Kinds[o] # "model", o < run'.next, NEW i \in DOMAIN att'[o]
        PROVE  att'[o][i].phase = "completed"
    <3>1. CASE o < run.next
      <4>1. att[o][i].phase = "completed"
        BY <1>1, <2>3, <3>1 DEF JournalInv, InOrder
      <4> QED
        BY <1>1, <2>3, <4>1
    <3>2. CASE ~(o < run.next)
      <4>1. o = run.next /\ run'.next # run.next
        BY <1>2, <2>3, <3>2
      <4>2. i = n
        BY <1>1, <1>2, <2>3, <4>1 DEF JournalInv, InOrder
      <4> QED
        BY <1>1, <2>3, <4>1, <4>2
    <3> QED
      BY <3>1, <3>2
  <2> QED
    BY <2>1, <2>2, <2>3
<1>5. Graph'
  <2> SUFFICES ASSUME NEW o \in Op, NEW i \in DOMAIN att'[o]
               PROVE  /\ IF att'[o][i].claimed THEN att'[o][i].phase # "prepared"
                                               ELSE att'[o][i].phase \in {"prepared", "failed"}
                      /\ att'[o][i].released => att'[o][i].claimed
                      /\ i < Len(att'[o]) => att'[o][i].phase \in {"failed", "unknown"}
    BY DEF Graph
  <2>1. CASE o = op /\ i = n
    BY <1>1, <1>2, <2>1
  <2>2. CASE o # op \/ i # n
    BY <1>1, <2>2 DEF JournalInv, Graph
  <2> QED
    BY <2>1, <2>2
<1> QED
  BY <1>3, <1>4, <1>5 DEF JournalInv

\* A new attempt of the operation the Run is at: the first of a tool, or the next
\* one of a model call that failed or whose outcome is unknown.
LEMMA ReserveKeepsJournal ==
  ASSUME JournalInv, run.next \in Op, Reserve(run.next), run.epoch \in Nat,
         Kinds[run.next] # "model" => att[run.next] = <<>>,
         att[run.next] # <<>> => LastPhase(run.next) \in {"failed", "unknown"},
         run'.next = run.next, handles' = handles, owner' = owner
  PROVE  JournalInv'
<1> DEFINE op == run.next
           y == [phase |-> "prepared", claimed |-> FALSE, released |-> FALSE,
                 epoch |-> run.epoch, owner |-> 0]
           n == Len(att[op]) + 1
<1>1. y \in Attempt /\ y.phase = "prepared" /\ y.claimed = FALSE /\ y.released = FALSE
  BY DEF Attempt
<1>2. att' = [att EXCEPT ![op] = Append(@, y)] /\ Len(att[op]) < MaxAttempts
  BY DEF Reserve
<1>3. att \in [Op -> Seq(Attempt)] /\ op \in Op
  BY DEF JournalInv, JournalTyped
<1> HIDE DEF y
<1>4. /\ att' \in [Op -> Seq(Attempt)] /\ att'[op][n] = y
      /\ Len(att'[op]) = n /\ DOMAIN att'[op] = DOMAIN att[op] \cup {n}
      /\ \A o \in Op \ {op} : att'[o] = att[o]
      /\ \A j \in DOMAIN att[op] : att'[op][j] = att[op][j]
  BY <1>1, <1>2, <1>3, Added
<1>5. \A o \in Op : o \in Nat /\ att[o] \in Seq(Attempt) /\ Len(att[o]) \in Nat /\ DOMAIN att[o] = 1..Len(att[o])
  BY <1>3 DEF Op
<1>6. JournalTyped'
  <2>1. \A o \in Op : Len(att'[o]) <= MaxAttempts
    BY <1>2, <1>4, <1>5, KernelAssumption DEF JournalInv, JournalTyped
  <2> QED
    BY <1>4, <2>1 DEF JournalInv, JournalTyped
<1>7. InOrder'
  <2> SUFFICES ASSUME NEW o \in Op
               PROVE  /\ o > op => att'[o] = <<>>
                      /\ Kinds[o] # "model" => Len(att'[o]) <= 1
                      /\ Kinds[o] # "model" /\ o < op =>
                           \A i \in DOMAIN att'[o] : att'[o][i].phase = "completed"
    BY DEF InOrder
  <2>1. CASE o = op
    BY <1>4, <1>5, <2>1
  <2>2. CASE o # op
    BY <1>4, <2>2 DEF JournalInv, InOrder
  <2> QED
    BY <2>1, <2>2
<1>8. Graph'
  <2> SUFFICES ASSUME NEW o \in Op, NEW i \in DOMAIN att'[o]
               PROVE  /\ IF att'[o][i].claimed THEN att'[o][i].phase # "prepared"
                                               ELSE att'[o][i].phase \in {"prepared", "failed"}
                      /\ att'[o][i].released => att'[o][i].claimed
                      /\ i < Len(att'[o]) => att'[o][i].phase \in {"failed", "unknown"}
    BY DEF Graph
  <2>1. CASE o = op /\ i = n
    BY <1>1, <1>4, <1>5, <2>1
  <2>2. CASE o = op /\ i # n
    <3>1. i \in DOMAIN att[op] /\ att'[o][i] = att[op][i]
      BY <1>4, <2>2
    <3>2. i < Len(att[op]) => att[op][i].phase \in {"failed", "unknown"}
      BY <3>1 DEF JournalInv, Graph
    <3>3. i = Len(att[op]) => att[op][i].phase \in {"failed", "unknown"}
      BY <1>5, <3>1 DEF LastPhase, LastAtt
    <3>4. att'[o][i].phase \in {"failed", "unknown"}
      BY <1>5, <3>1, <3>2, <3>3
    <3> QED
      BY <3>1, <3>4 DEF JournalInv, Graph
  <2>3. CASE o # op
    BY <1>4, <2>3 DEF JournalInv, Graph
  <2> QED
    BY <2>1, <2>2, <2>3
<1> QED
  BY <1>6, <1>7, <1>8 DEF JournalInv

\* commitTerminalStop: what was prepared has failed, and what is rolled back.
LEMMA RefundKeepsJournal ==
  ASSUME JournalInv, NEW rollback, \A a \in rollback : a \in Attempts /\ Phase(a) = "unknown",
         att' = Refunded(rollback), run'.next = run.next, handles' = handles, owner' = owner
  PROVE  /\ JournalInv'
         /\ \A o \in Op : att'[o] \in Seq(Attempt) /\ DOMAIN att'[o] = DOMAIN att[o]
         /\ \A o \in Op : \A i \in DOMAIN att[o] :
              IF att[o][i].phase = "prepared" \/ <<o, i>> \in rollback
              THEN att'[o][i] = [att[o][i] EXCEPT !.phase = "failed"]
              ELSE att'[o][i] = att[o][i]
<1>1. \A o \in Op : /\ att[o] \in Seq(Attempt) /\ Len(att[o]) \in Nat /\ DOMAIN att[o] = 1..Len(att[o])
                    /\ \A i \in DOMAIN att[o] : att[o][i] \in Attempt
  BY DEF JournalInv, JournalTyped
<1>2. \A o \in Op : \A i \in DOMAIN att[o] :
        /\ DOMAIN att'[o] = DOMAIN att[o]
        /\ IF att[o][i].phase = "prepared" \/ <<o, i>> \in rollback
           THEN att'[o][i] = [att[o][i] EXCEPT !.phase = "failed"]
           ELSE att'[o][i] = att[o][i]
  BY DEF Refunded
<1>3. \A o \in Op : \A i \in DOMAIN att[o] : [att[o][i] EXCEPT !.phase = "failed"] \in Attempt
  <2>1. \A x \in Attempt : [x EXCEPT !.phase = "failed"] \in Attempt
    BY DEF Attempt
  <2> QED
    BY <1>1, <2>1
<1>4. ASSUME NEW o \in Op
      PROVE  att'[o] \in Seq(Attempt) /\ Len(att'[o]) = Len(att[o]) /\ DOMAIN att'[o] = DOMAIN att[o]
  <2>1. att'[o] = [i \in 1..Len(att[o]) |->
           IF att[o][i].phase = "prepared" \/ <<o, i>> \in rollback
           THEN [att[o][i] EXCEPT !.phase = "failed"] ELSE att[o][i]]
    BY <1>1 DEF Refunded
  <2>2. \A i \in 1..Len(att[o]) :
          (IF att[o][i].phase = "prepared" \/ <<o, i>> \in rollback
           THEN [att[o][i] EXCEPT !.phase = "failed"] ELSE att[o][i]) \in Attempt
    BY <1>1, <1>3
  <2>3. att'[o] \in Seq(Attempt)
    BY <1>1, <2>1, <2>2, IsASeq
  <2>4. DOMAIN att'[o] = 1..Len(att[o])
    BY <2>1
  <2> QED
    BY <1>1, <2>3, <2>4
<1>5. JournalTyped'
  <2>1. att' \in [Op -> Seq(Attempt)]
    BY <1>4 DEF Refunded
  <2> QED
    BY <1>4, <2>1 DEF JournalInv, JournalTyped
<1>6. InOrder'
  <2> SUFFICES ASSUME NEW o \in Op
               PROVE  /\ o > run.next => att'[o] = <<>>
                      /\ Kinds[o] # "model" => Len(att'[o]) <= 1
                      /\ Kinds[o] # "model" /\ o < run.next =>
                           \A i \in DOMAIN att'[o] : att'[o][i].phase = "completed"
    BY DEF InOrder
  <2>1. o > run.next => att'[o] = <<>>
    <3>1. o > run.next => Len(att[o]) = 0
      BY <1>1 DEF JournalInv, InOrder
    <3> QED
      BY <1>4, <3>1
  <2>2. Kinds[o] # "model" => Len(att'[o]) <= 1
    BY <1>4 DEF JournalInv, InOrder
  <2>3. ASSUME Kinds[o] # "model", o < run.next, NEW i \in DOMAIN att'[o]
        PROVE  att'[o][i].phase = "completed"
    <3>1. i \in DOMAIN att[o] /\ att[o][i].phase = "completed"
      BY <1>4, <2>3 DEF JournalInv, InOrder
    <3>2. <<o, i>> \notin rollback
      BY <3>1 DEF Phase
    <3> QED
      BY <1>2, <3>1, <3>2
  <2> QED
    BY <2>1, <2>2, <2>3
<1>7. Graph'
  <2> SUFFICES ASSUME NEW o \in Op, NEW i \in DOMAIN att'[o]
               PROVE  /\ IF att'[o][i].claimed THEN att'[o][i].phase # "prepared"
                                               ELSE att'[o][i].phase \in {"prepared", "failed"}
                      /\ att'[o][i].released => att'[o][i].claimed
                      /\ i < Len(att'[o]) => att'[o][i].phase \in {"failed", "unknown"}
    BY DEF Graph
  <2>1. i \in DOMAIN att[o] /\ Len(att'[o]) = Len(att[o]) /\ att[o][i] \in Attempt
    BY <1>1, <1>4
  <2>2. CASE att'[o][i] = att[o][i]
    BY <2>1, <2>2 DEF JournalInv, Graph
  <2>3. CASE att'[o][i] = [att[o][i] EXCEPT !.phase = "failed"]
    BY <2>1, <2>3 DEF JournalInv, Graph, Attempt
  <2> QED
    BY <1>2, <2>1, <2>2, <2>3
<1> QED
  BY <1>2, <1>4, <1>5, <1>6, <1>7 DEF JournalInv

\* No launch is sealed by the step.
NoNewSeal == \A l \in Launch : launch'[l].write = "sealed" =>
    launch[l].write = "sealed" /\ launch'[l].epoch = launch[l].epoch

LEMMA MarksSealNothing ==
  ASSUME RowsTyped, launch' \in {launch, Revised, Aged}
  PROVE  NoNewSeal
BY Marks DEF NoNewSeal

\* An attempt that had not completed changes, and is released now only where no
\* generation of its epoch has been sealed.
LEMMA OutcomeIsAccounted ==
  ASSUME JournalInv, Accounted, NoNewSeal, NEW op \in Op, NEW n \in DOMAIN att[op],
         NEW y \in Attempt, att' = [att EXCEPT ![op] = [att[op] EXCEPT ![n] = y]],
         att[op][n].phase # "completed", y.epoch = att[op][n].epoch,
         \/ y.released => att[op][n].released
         \/ \A l \in Launch : launch[l].write = "sealed" => launch[l].epoch # y.epoch
  PROVE  Accounted'
<1>1. /\ att'[op][n] = y
      /\ \A o \in Op : DOMAIN att'[o] = DOMAIN att[o]
      /\ \A o \in Op : \A j \in DOMAIN att[o] : o # op \/ j # n => att'[o][j] = att[o][j]
  BY Changed DEF JournalInv, JournalTyped
<1> SUFFICES ASSUME NEW l \in Launch, launch'[l].write = "sealed", NEW o \in Op, NEW i \in DOMAIN att'[o],
                    Kinds[o] = "edit", att'[o][i].released, att'[o][i].epoch = launch'[l].epoch
             PROVE  att'[o][i].phase = "completed"
  BY DEF Accounted
<1>2. launch[l].write = "sealed" /\ launch'[l].epoch = launch[l].epoch /\ i \in DOMAIN att[o]
  BY <1>1 DEF NoNewSeal
<1>3. CASE o = op /\ i = n
  BY <1>1, <1>2, <1>3 DEF Accounted
<1>4. CASE o # op \/ i # n
  BY <1>1, <1>2, <1>4 DEF Accounted
<1> QED
  BY <1>3, <1>4

\* No attempt changes, or one is added that is not released.
LEMMA SameIsAccounted ==
  ASSUME Accounted, NoNewSeal,
         \A o \in Op : \A i \in DOMAIN att'[o] :
           \/ i \in DOMAIN att[o] /\ att'[o][i] = att[o][i]
           \/ ~att'[o][i].released
  PROVE  Accounted'
BY DEF Accounted, NoNewSeal

\* Every mutating tool that was released has completed: a seal is accounted for.
LEMMA SealIsAccounted ==
  ASSUME \A o \in Op : \A i \in DOMAIN att'[o] :
           Kinds[o] = "edit" /\ att'[o][i].released => att'[o][i].phase = "completed"
  PROVE  Accounted'
BY DEF Accounted

\* The Run goes on with the same journal.
LEMMA SameJournal ==
  ASSUME RowsTyped, JournalInv, att' = att, run'.next = run.next,
         handles' \subseteq handles, owner' \in Nat
  PROVE  JournalInv'
<1>1. JournalTyped'
  BY DEF JournalInv, JournalTyped
<1>2. InOrder'
  BY DEF JournalInv, InOrder
<1>3. Graph'
  BY DEF JournalInv, Graph
<1> QED
  BY <1>1, <1>2, <1>3 DEF JournalInv

LEMMA JournalKeepsJournal ==
  ASSUME RowsTyped, WriterInv, JournalInv, Accounted, Journal
  PROVE  JournalInv' /\ Accounted'
<1>0. /\ run \in RunRow /\ owner \in Nat /\ run.next \in Nat /\ run.epoch \in Nat
      /\ att \in [Op -> Seq(Attempt)] /\ handles \subseteq Op \X (1 .. MaxAttempts)
      /\ \A o \in Op : Len(att[o]) <= MaxAttempts
  BY KernelAssumption DEF RowsTyped, RunRow, Op, JournalInv, JournalTyped
<1>1. ASSUME NEW op \in Op, NEW y, LastPhase(op) # "none", y \in Attempt,
             att' = [att EXCEPT ![op] = [att[op] EXCEPT ![Len(att[op])] = y]],
             LastPhase(op) # "completed", y.epoch = LastAtt(op).epoch,
             \/ y.released => LastAtt(op).released
             \/ \A l \in Launch : launch[l].write = "sealed" => launch[l].epoch # y.epoch,
             IF y.claimed THEN y.phase # "prepared" ELSE y.phase \in {"prepared", "failed"},
             y.released => y.claimed, run'.next \in {run.next, run.next + 1},
             run'.next # run.next => op = run.next /\ (Kinds[op] # "model" => y.phase = "completed"),
             handles' \subseteq Op \X (1 .. MaxAttempts), owner' = owner
      PROVE  JournalInv' /\ (NoNewSeal => Accounted')
  <2>1. /\ Len(att[op]) \in DOMAIN att[op] /\ att[op][Len(att[op])].phase # "completed"
        /\ LastAtt(op) = att[op][Len(att[op])]
    BY <1>0, <1>1, LastIsThere DEF LastAtt
  <2>2. JournalInv'
    BY <1>0, <1>1, <2>1, OutcomeKeeps
  <2>3. NoNewSeal => Accounted'
    BY <1>0, <1>1, <2>1, OutcomeIsAccounted
  <2> QED
    BY <2>2, <2>3
<1>2. CASE PrepareModel \/ PrepareTool
  <2>1. /\ run.next \in Op /\ Reserve(run.next) /\ launch' \in {launch, Revised, Aged}
        /\ handles' = handles /\ owner' = owner
        /\ (Kinds[run.next] # "model" => att[run.next] = <<>>)
        /\ (att[run.next] # <<>> => LastPhase(run.next) \in {"failed", "unknown"})
    BY <1>2 DEF PrepareModel, PrepareTool, Front, RetryAllowed
  <2>2. run'.next = run.next
    BY <1>0, <2>1 DEF Reserve, RunRow
  <2>3. JournalInv'
    BY <1>0, <2>1, <2>2, ReserveKeepsJournal
  <2>4. \A o \in Op : \A i \in DOMAIN att'[o] :
           \/ i \in DOMAIN att[o] /\ att'[o][i] = att[o][i]
           \/ ~att'[o][i].released
    <3> DEFINE y == [phase |-> "prepared", claimed |-> FALSE, released |-> FALSE,
                     epoch |-> run.epoch, owner |-> 0]
    <3>1. y \in Attempt /\ y.released = FALSE
      BY <1>0 DEF Attempt
    <3>2. att' = [att EXCEPT ![run.next] = Append(@, y)]
      BY <2>1 DEF Reserve
    <3> HIDE DEF y
    <3> QED
      BY <1>0, <2>1, <3>1, <3>2, Added
  <2> QED
    BY <2>1, <2>3, <2>4, SameIsAccounted, MarksSealNothing
<1>3. CASE DenyTool
  <2>1. /\ run.next \in Op /\ att[run.next] = <<>> /\ launch' = Aged /\ att' = att
        /\ handles' = handles /\ owner' = owner
    BY <1>3 DEF DenyTool, Front
  <2>2. run'.next = run.next + 1
    BY <1>0, <1>3 DEF DenyTool, RunRow
  <2>3. InOrder'
    <3>1. \A o \in Op : o \in Nat /\ DOMAIN att[run.next] = {}
      BY <2>1 DEF Op
    <3> QED
      BY <1>0, <2>1, <2>2, <3>1 DEF JournalInv, InOrder
  <2>4. JournalTyped' /\ Graph'
    BY <1>0, <2>1 DEF JournalInv, JournalTyped, Graph
  <2> QED
    BY <2>1, <2>3, <2>4, SameIsAccounted, MarksSealNothing DEF JournalInv
<1>4. CASE ClaimInvocation
  <2> DEFINE op == run.next
             x == LastAtt(op)
             y == [x EXCEPT !.phase = "dispatch_claimed", !.claimed = TRUE, !.owner = owner]
  <2>1. /\ op \in Op /\ LastPhase(op) = "prepared" /\ launch' = launch /\ run' = run /\ owner' = owner
        /\ att' = [att EXCEPT ![op] = [att[op] EXCEPT ![Len(att[op])] = y]]
        /\ handles' = handles \cup {<<op, Len(att[op])>>}
    BY <1>4 DEF ClaimInvocation, LastAtt
  <2>2. x \in Attempt /\ Len(att[op]) \in 1..MaxAttempts
    BY <1>0, <2>1, LastIsThere, KernelAssumption
  <2>3. y \in Attempt /\ y.epoch = x.epoch /\ y.released = x.released /\ y.claimed /\ y.phase # "prepared"
    BY <1>0, <2>2 DEF Attempt
  <2>4. handles' \subseteq Op \X (1 .. MaxAttempts)
    BY <1>0, <2>1, <2>2
  <2> HIDE DEF y
  <2>5. JournalInv' /\ (NoNewSeal => Accounted')
    BY <1>0, <1>1, <2>1, <2>3, <2>4
  <2> QED
    BY <2>1, <2>5, MarksSealNothing
<1>5. CASE ReleaseInvocation
  <2>1. PICK h \in handles : /\ handles' = handles \ {h}
          /\ att' = IF Releasable(h) THEN [att EXCEPT ![h[1]][h[2]].released = TRUE] ELSE att
    BY <1>5 DEF ReleaseInvocation
  <2>2. launch' = launch /\ run' = run /\ owner' = owner
    BY <1>5 DEF ReleaseInvocation
  <2>3. CASE ~Releasable(h)
    <3>1. att' = att
      BY <2>1, <2>3
    <3> QED
      BY <1>0, <2>1, <2>2, <3>1, SameJournal, SameIsAccounted, MarksSealNothing
  <2>4. CASE Releasable(h)
    <3> DEFINE op == run.next
               x == LastAtt(op)
               y == [x EXCEPT !.released = TRUE]
    <3>1. /\ op = h[1] /\ op \in Op /\ h[2] = Len(att[op]) /\ LiveDispatch
          /\ x.phase = "dispatch_claimed" /\ x.epoch = run.epoch /\ Len(att[op]) # 0
      BY <1>0, <2>4 DEF Releasable, LastAtt
    <3>2. LastPhase(op) = "dispatch_claimed"
      BY <1>0, <3>1 DEF LastPhase
    <3>3. x \in Attempt /\ x.claimed /\ x = att[op][Len(att[op])] /\ Len(att[op]) \in DOMAIN att[op]
      BY <1>0, <3>1, <3>2, LastIsThere DEF LastAtt, JournalInv, Graph
    <3>4. att' = [att EXCEPT ![op] = [att[op] EXCEPT ![Len(att[op])] = y]]
      BY <2>1, <2>4, <3>1 DEF LastAtt
    <3>5. y \in Attempt /\ y.epoch = x.epoch /\ y.claimed /\ y.phase = x.phase
      BY <3>3 DEF Attempt
    <3>6. \A l \in Launch : launch[l].write = "sealed" => launch[l].epoch # run.epoch
      <4>1. run.active \in Launch /\ launch[run.active].phase = "activated" /\ run.active # None
        BY <3>1, Fields DEF LiveDispatch
      <4>2. launch[run.active].write # "sealed"
        BY <4>1 DEF WriterInv, ActivatedWrites, Writable
      <4> QED
        BY <4>1, <4>2 DEF WriterInv, EpochsGrow
    <3>7. handles' \subseteq Op \X (1 .. MaxAttempts)
      BY <1>0, <2>1
    <3> HIDE DEF y
    <3>8. JournalInv' /\ (NoNewSeal => Accounted')
      BY <1>0, <1>1, <2>2, <3>1, <3>2, <3>4, <3>5, <3>6, <3>7
    <3> QED
      BY <2>2, <3>8, MarksSealNothing
  <2> QED
    BY <2>3, <2>4
\* The outcomes: of the last attempt of op, from a phase before the outcome.
<1>6. ASSUME NEW op \in Op, NEW from \in {"prepared", "dispatch_claimed", "unknown"},
             NEW to \in {"completed", "failed", "unknown", "abandoned"},
             from = "prepared" => to = "failed",
             Settle(op, from, to), run'.next \in {run.next, run.next + 1},
             run'.next # run.next => op = run.next /\ (Kinds[op] # "model" => to = "completed"),
             handles' = handles, owner' = owner
      PROVE  JournalInv' /\ (NoNewSeal => Accounted')
  <2> DEFINE x == LastAtt(op)
             y == [x EXCEPT !.phase = to]
  <2>1. LastPhase(op) = from /\ x \in Attempt /\ x.phase = from
    BY <1>0, <1>6, LastIsThere DEF Settle, LastAtt
  <2>2. x.claimed <=> from # "prepared"
    <3>1. IF x.claimed THEN x.phase # "prepared" ELSE x.phase \in {"prepared", "failed"}
      BY <1>0, <1>6, <2>1, LastIsThere DEF LastAtt, JournalInv, Graph
    <3> QED
      BY <2>1, <3>1
  <2>3. x.released => x.claimed
    BY <1>0, <1>6, <2>1, LastIsThere DEF LastAtt, JournalInv, Graph
  <2>4. att' = [att EXCEPT ![op] = [att[op] EXCEPT ![Len(att[op])] = y]]
    BY <1>6 DEF Settle, LastAtt
  <2>5. /\ y \in Attempt /\ y.epoch = x.epoch /\ y.phase = to
        /\ y.claimed = x.claimed /\ y.released = x.released
    BY <2>1 DEF Attempt
  <2>6. IF y.claimed THEN y.phase # "prepared" ELSE y.phase \in {"prepared", "failed"}
    BY <1>6, <2>2, <2>5
  <2> HIDE DEF y
  <2> QED
    BY <1>0, <1>1, <1>6, <2>1, <2>3, <2>4, <2>5, <2>6
<1>7. CASE FailBeforeDispatch \/ FailWithoutRelease \/ MarkUnknown
  <2>1. PICK op \in Op, x \in {0, 1} : /\ run' = Charged(op, x)
          /\ \/ Settle(op, "prepared", "failed") \/ Settle(op, "dispatch_claimed", "failed")
             \/ Settle(op, "dispatch_claimed", "unknown")
    BY <1>7 DEF FailBeforeDispatch, FailWithoutRelease, MarkUnknown
  <2>2. run'.next = run.next
    BY <1>0, <2>1, RunUpdates
  <2>3. launch' = Revised /\ handles' = handles /\ owner' = owner
    BY <1>7 DEF FailBeforeDispatch, FailWithoutRelease, MarkUnknown
  <2> QED
    BY <1>6, <2>1, <2>2, <2>3, MarksSealNothing
<1>8. CASE AbandonUnknown
  <2>1. PICK op \in Op : Settle(op, "unknown", "abandoned")
    BY <1>8 DEF AbandonUnknown, Settle
  <2>2. run' = run /\ launch' = launch /\ handles' = handles /\ owner' = owner
    BY <1>8 DEF AbandonUnknown
  <2> QED
    BY <1>6, <2>1, <2>2, MarksSealNothing
<1>9. CASE CompleteModel \/ CompleteRead \/ CompleteEdit
  <2>1. /\ run.next \in Op /\ Settle(run.next, "dispatch_claimed", "completed")
        /\ handles' = handles /\ owner' = owner
    BY <1>9 DEF CompleteModel, CompleteRead, CompleteEdit, Continues, Front
  <2>2. Charged(run.next, 1) \in RunRow /\ Charged(run.next, 1).next = run.next
    BY <1>0, <2>1, RunUpdates
  <2>3. run'.next \in {run.next, run.next + 1}
    BY <1>9, <2>2 DEF CompleteModel, CompleteRead, CompleteEdit, RunRow
  <2>4. JournalInv' /\ (NoNewSeal => Accounted')
    BY <1>6, <2>1, <2>3
  <2>5. CASE CompleteModel \/ CompleteRead
    <3>1. launch' = Aged
      BY <2>5 DEF CompleteModel, CompleteRead
    <3> QED
      BY <2>4, <3>1, MarksSealNothing
  <2>6. CASE CompleteEdit
    <3>1. run'.next = run.next + 1 /\ Kinds[run.next] = "edit"
      BY <2>2, <2>6 DEF CompleteEdit, Continues, Front, RunRow
    <3>2. \A o \in Op : \A i \in DOMAIN att'[o] :
            Kinds[o] = "edit" => att'[o][i].phase = "completed"
      <4> SUFFICES ASSUME NEW o \in Op, NEW i \in DOMAIN att'[o], Kinds[o] = "edit"
                   PROVE  att'[o][i].phase = "completed"
        OBVIOUS
      <4>1. o \in Nat /\ (o < run'.next \/ o > run'.next \/ o = run'.next)
        BY <1>0, <3>1 DEF Op
      <4>2. CASE o < run'.next
        BY <2>4, <4>2 DEF JournalInv, InOrder
      <4>3. CASE o >= run'.next
        <5>1. o > run.next /\ o # run.next
          BY <1>0, <3>1, <4>1, <4>3
        <5>2. att[o] = <<>> /\ att'[o] = att[o]
          BY <1>0, <2>1, <5>1 DEF JournalInv, InOrder, Settle
        <5> QED
          BY <5>2
      <4> QED
        BY <1>0, <3>1, <4>1, <4>2, <4>3
    <3> QED
      BY <2>4, <3>2, SealIsAccounted
  <2> QED
    BY <1>9, <2>5, <2>6
<1> QED
  BY <1>2, <1>3, <1>4, <1>5, <1>7, <1>8, <1>9 DEF Journal

\* Of the worker's steps only the seal seals.
LEMMA WorkerSealsNothing ==
  ASSUME RowsTyped, Worker, ~SealGeneration
  PROVE  NoNewSeal
<1> USE DEF NoNewSeal, RowsTyped, LaunchRow
<1>1. ASSUME NEW l \in Launch, \/ BeginPreparation(l) \/ RecordPreparationController(l)
                               \/ RecordWorkerPreactivated(l) \/ RetirePreparation(l)
                               \/ LeaseExpires(l)
      PROVE  NoNewSeal
  <2>1. \A m \in Launch : m # l => launch'[m] = launch[m]
    BY <1>1 DEF BeginPreparation, RecordPreparationController, RecordWorkerPreactivated,
                RetirePreparation, LeaseExpires
  <2>2. launch'[l].write = launch[l].write /\ launch'[l].epoch = launch[l].epoch
    <3>1. CASE BeginPreparation(l)
      BY <3>1 DEF BeginPreparation
    <3>2. CASE RecordPreparationController(l)
      BY <3>2 DEF RecordPreparationController
    <3>3. CASE RecordWorkerPreactivated(l)
      BY <3>3 DEF RecordWorkerPreactivated
    <3>4. CASE RetirePreparation(l)
      <4>1. launch' = [launch EXCEPT ![l] = [@ EXCEPT !.phase = "retired", !.fresh = FALSE,
                                                      !.planned = FALSE]]
        BY <3>4 DEF RetirePreparation
      <4> QED
        BY <4>1
    <3>5. CASE LeaseExpires(l)
      BY <3>5 DEF LeaseExpires
    <3> QED
      BY <1>1, <3>1, <3>2, <3>3, <3>4, <3>5
  <2> QED
    BY <2>1, <2>2
<1>2. ASSUME NEW l \in Launch, NEW g \in Gen,
             RecordPreparationGeneration(l, g) \/ ReserveLaunch(l, g)
      PROVE  NoNewSeal
  <2>1. CASE RecordPreparationGeneration(l, g)
    <3>1. launch' = [launch EXCEPT ![l].gen = g]
      BY <2>1 DEF RecordPreparationGeneration
    <3> QED
      BY <3>1
  <2>2. CASE ReserveLaunch(l, g)
    <3>1. /\ \A m \in Launch : m # l => launch'[m] = launch[m]
          /\ launch'[l].write = "preactivated_readonly"
      BY <2>2 DEF ReserveLaunch
    <3> QED
      BY <3>1
  <2> QED
    BY <1>2, <2>1, <2>2
<1>3. ASSUME NEW l \in Launch, BeginRevocation(l) \/ BeginCheckpoint(l)
      PROVE  NoNewSeal
  BY <1>3 DEF BeginRevocation, BeginCheckpoint, WriteState
<1>4. ASSUME NEW l \in Launch, ActivateLease(l) PROVE NoNewSeal
  <2>1. \A m \in Launch : m # l => launch'[m] = Revised[m]
    BY <1>4, Marks DEF ActivateLease
  <2>2. launch'[l].write = "active"
    BY <1>4, Marks DEF ActivateLease
  <2> QED
    BY <2>1, <2>2, Marks
<1>5. ASSUME NEW l \in Launch, BeginRecovery(l) PROVE NoNewSeal
  <2>1. \A m \in Launch : m # l => launch'[m] = Revised[m]
    BY <1>5, Marks DEF BeginRecovery
  <2>2. launch'[l].write = "fenced_reconciling"
    BY <1>5, Marks DEF BeginRecovery
  <2> QED
    BY <2>1, <2>2, Marks
<1>6. ASSUME NEW l \in Launch, RetirePreactivation(l) \/ CompleteProbe(l) \/ CompleteProbeStopped(l)
      PROVE  NoNewSeal
  <2>1. \/ \A m \in Launch : launch'[m].write = Revised[m].write /\ launch'[m].epoch = Revised[m].epoch
        \/ \A m \in Launch : launch'[m].write = Aged[m].write /\ launch'[m].epoch = Aged[m].epoch
    <3>1. CASE RetirePreactivation(l)
      <4>1. launch' = [Revised EXCEPT ![l] = [@ EXCEPT !.phase = "retired", !.fresh = FALSE]]
        BY <3>1 DEF RetirePreactivation
      <4> QED
        BY <4>1, Marks
    <3>2. CASE CompleteProbe(l)
      <4>1. launch' = [Revised EXCEPT ![l].phase = "retired"]
        BY <3>2 DEF CompleteProbe
      <4> QED
        BY <4>1, Marks
    <3>3. CASE CompleteProbeStopped(l)
      BY <3>3, Marks DEF CompleteProbeStopped
    <3> QED
      BY <1>6, <3>1, <3>2, <3>3
  <2> QED
    BY <2>1, Marks
<1>7. ASSUME NEW g \in Gen, \/ RegisterGeneration(g) \/ RecordGenerationPreactivated(g)
                            \/ RetireQuarantined(g)
      PROVE  NoNewSeal
  BY <1>7 DEF RegisterGeneration, RecordGenerationPreactivated, RetireQuarantined
<1>8. CASE BeginProbe \/ CloseProbe
  BY <1>8, MarksSealNothing DEF BeginProbe, CloseProbe
<1> QED
  BY <1>1, <1>2, <1>3, <1>4, <1>5, <1>6, <1>7, <1>8 DEF Worker

\* A worker's step leaves the journal and what the Run is at, but for the end of
\* an inspection.
LEMMA WorkerLeavesJournal ==
  ASSUME RowsTyped, Worker
  PROVE  /\ owner' = owner /\ handles' = handles
         /\ \/ att' = att /\ run'.next = run.next
            \/ \E l \in Launch : CompleteProbeStopped(l)
<1> USE DEF RowsTyped, RunRow
<1>1. ASSUME NEW l \in Launch, \/ BeginPreparation(l) \/ RecordPreparationController(l)
                               \/ RecordWorkerPreactivated(l) \/ RetirePreparation(l)
                               \/ LeaseExpires(l) \/ RetirePreactivation(l)
                               \/ BeginRevocation(l) \/ BeginCheckpoint(l)
      PROVE  owner' = owner /\ handles' = handles /\ att' = att /\ run'.next = run.next
  BY <1>1 DEF BeginPreparation, RecordPreparationController, RecordWorkerPreactivated,
              RetirePreparation, LeaseExpires, RetirePreactivation, BeginRevocation,
              BeginCheckpoint, WriteState
<1>2. ASSUME NEW l \in Launch, NEW g \in Gen,
             RecordPreparationGeneration(l, g) \/ ReserveLaunch(l, g)
      PROVE  owner' = owner /\ handles' = handles /\ att' = att /\ run'.next = run.next
  BY <1>2 DEF RecordPreparationGeneration, ReserveLaunch
<1>3. ASSUME NEW l \in Launch, ActivateLease(l) \/ BeginRecovery(l) \/ CompleteProbe(l)
      PROVE  owner' = owner /\ handles' = handles /\ att' = att /\ run'.next = run.next
  BY <1>3 DEF ActivateLease, BeginRecovery, CompleteProbe
<1>4. ASSUME NEW l \in Launch, CompleteProbeStopped(l)
      PROVE  owner' = owner /\ handles' = handles
  BY <1>4 DEF CompleteProbeStopped
<1>5. ASSUME NEW g \in Gen, \/ RegisterGeneration(g) \/ RecordGenerationPreactivated(g)
                            \/ RetireQuarantined(g)
      PROVE  owner' = owner /\ handles' = handles /\ att' = att /\ run'.next = run.next
  BY <1>5 DEF RegisterGeneration, RecordGenerationPreactivated, RetireQuarantined
<1>6. CASE SealGeneration \/ BeginProbe \/ CloseProbe
  BY <1>6 DEF SealGeneration, BeginProbe, CloseProbe
<1> QED
  BY <1>1, <1>2, <1>3, <1>4, <1>5, <1>6 DEF Worker

LEMMA WorkerKeepsJournal ==
  ASSUME RowsTyped, WriterInv, JournalInv, Accounted, Worker
  PROVE  JournalInv' /\ Accounted'
<1>0. owner \in Nat /\ run \in RunRow
  BY DEF RowsTyped
<1>1. ASSUME NEW l \in Launch, CompleteProbeStopped(l) PROVE JournalInv' /\ Accounted'
  <2>1. att' = Refunded(RolledBack) /\ handles' = handles /\ owner' = owner /\ run'.next = run.next
    BY <1>0, <1>1 DEF CompleteProbeStopped, TerminalRun, RunRow
  <2>2. \A a \in RolledBack : a \in Attempts /\ Phase(a) = "unknown"
    BY DEF RolledBack, Open
  <2>3. /\ JournalInv'
        /\ \A o \in Op : att'[o] \in Seq(Attempt) /\ DOMAIN att'[o] = DOMAIN att[o]
        /\ \A o \in Op : \A i \in DOMAIN att[o] :
             IF att[o][i].phase = "prepared" \/ <<o, i>> \in RolledBack
             THEN att'[o][i] = [att[o][i] EXCEPT !.phase = "failed"]
             ELSE att'[o][i] = att[o][i]
    BY <2>1, <2>2, RefundKeepsJournal
  <2>4. ~SealGeneration
    BY <1>1 DEF CompleteProbeStopped, Inspected, SealGeneration, Quiesced
  <2>5. NoNewSeal
    BY <1>1, <2>4, WorkerSealsNothing DEF Worker
  <2>6. Accounted'
    <3> SUFFICES ASSUME NEW m \in Launch, launch'[m].write = "sealed", NEW o \in Op,
                        NEW i \in DOMAIN att'[o], Kinds[o] = "edit", att'[o][i].released,
                        att'[o][i].epoch = launch'[m].epoch
                 PROVE  att'[o][i].phase = "completed"
      BY DEF Accounted
    <3>1. i \in DOMAIN att[o] /\ att[o][i] \in Attempt
      BY <2>3 DEF JournalInv, JournalTyped
    <3>2. launch[m].write = "sealed" /\ launch'[m].epoch = launch[m].epoch
      BY <2>5 DEF NoNewSeal
    <3>3. /\ att'[o][i].released = att[o][i].released /\ att'[o][i].epoch = att[o][i].epoch
      BY <2>3, <3>1 DEF Attempt
    <3>4. att[o][i].phase = "completed"
      BY <3>1, <3>2, <3>3 DEF Accounted
    <3>5. <<o, i>> \notin RolledBack
      BY <2>2, <3>4 DEF Phase
    <3> QED
      BY <2>3, <3>1, <3>4, <3>5
  <2> QED
    BY <2>3, <2>6
<1>2. CASE SealGeneration
  <2>1. att' = att /\ run'.next = run.next /\ handles' = handles /\ owner' = owner
    BY <1>0, <1>2 DEF SealGeneration, RunRow
  <2>2. \A o \in Op : \A i \in DOMAIN att[o] :
          Kinds[o] = "edit" /\ att[o][i].released => att[o][i].phase = "completed"
    <3> SUFFICES ASSUME NEW o \in Op, NEW i \in DOMAIN att[o], Kinds[o] = "edit", att[o][i].released
                 PROVE  att[o][i].phase = "completed"
      OBVIOUS
    <3>1. <<o, i>> \in Attempts /\ att[o][i].claimed
      BY AttemptsArePairs DEF JournalInv, Graph
    <3> QED
      BY <1>2, <3>1 DEF SealGeneration, Phase
  <2> QED
    BY <1>0, <2>1, <2>2, SameJournal, SealIsAccounted
<1>3. CASE att' = att /\ run'.next = run.next /\ ~SealGeneration
  <2>1. NoNewSeal
    BY <1>3, WorkerSealsNothing
  <2>2. owner' = owner /\ handles' = handles
    BY WorkerLeavesJournal
  <2> QED
    BY <1>0, <1>3, <2>1, <2>2, SameJournal, SameIsAccounted
<1> QED
  BY <1>1, <1>2, <1>3, WorkerLeavesJournal

LEMMA StopKeepsJournal ==
  ASSUME RowsTyped, WriterInv, JournalInv, Accounted, Stop \/ DeadlinePasses \/ Restart
  PROVE  JournalInv' /\ Accounted'
<1>0. owner \in Nat /\ run \in RunRow
  BY DEF RowsTyped
<1>1. CASE Cancel \/ Expire \/ StopForResource \/ StopForModelFailure
  <2>1. att' = att /\ launch' = Revised /\ handles' = handles /\ owner' = owner
    BY <1>1 DEF Cancel, Expire, StopForResource, StopForModelFailure, DeriveStop
  <2>2. run'.next = run.next
    BY <1>0, <1>1 DEF Cancel, Expire, StopForResource, StopForModelFailure, DeriveStop, RunRow
  <2> QED
    BY <1>0, <2>1, <2>2, SameJournal, SameIsAccounted, MarksSealNothing
<1>2. CASE CommitTerminalStop
  <2>1. /\ att' = Refunded({}) /\ handles' = handles /\ owner' = owner /\ run'.next = run.next
        /\ \A a \in Attempts : Closable(a)
    BY <1>0, <1>2 DEF CommitTerminalStop, TerminalRun, RunRow
  <2>2. /\ JournalInv'
        /\ \A o \in Op : DOMAIN att'[o] = DOMAIN att[o]
        /\ \A o \in Op : \A i \in DOMAIN att[o] :
             IF att[o][i].phase = "prepared"
             THEN att'[o][i] = [att[o][i] EXCEPT !.phase = "failed"]
             ELSE att'[o][i] = att[o][i]
    <3>1. PICK none : none = {}
      OBVIOUS
    <3>2. (\A a \in none : a \in Attempts /\ Phase(a) = "unknown") /\ att' = Refunded(none)
      BY <2>1, <3>1
    <3>3. /\ JournalInv'
          /\ \A o \in Op : DOMAIN att'[o] = DOMAIN att[o]
          /\ \A o \in Op : \A i \in DOMAIN att[o] :
               IF att[o][i].phase = "prepared" \/ <<o, i>> \in none
               THEN att'[o][i] = [att[o][i] EXCEPT !.phase = "failed"]
               ELSE att'[o][i] = att[o][i]
      BY <2>1, <3>2, RefundKeepsJournal
    <3> QED
      BY <3>1, <3>3
  <2>3. \A o \in Op : \A i \in DOMAIN att'[o] :
          Kinds[o] = "edit" /\ att'[o][i].released => att'[o][i].phase = "completed"
    <3> SUFFICES ASSUME NEW o \in Op, NEW i \in DOMAIN att'[o], Kinds[o] = "edit", att'[o][i].released
                 PROVE  att'[o][i].phase = "completed"
      OBVIOUS
    <3>1. i \in DOMAIN att[o] /\ att[o][i] \in Attempt /\ <<o, i>> \in Attempts
      BY <2>2, AttemptsArePairs DEF JournalInv, JournalTyped
    <3>2. att[o][i].released
      BY <2>2, <3>1 DEF Attempt
    <3>3. att[o][i].claimed /\ att[o][i].phase # "prepared"
      BY <3>1, <3>2 DEF JournalInv, Graph
    <3>4. Closable(<<o, i>>)
      BY <2>1, <3>1
    <3>5. att[o][i].phase = "completed"
      BY <3>3, <3>4 DEF Closable, Phase, ModelUnknown
    <3> QED
      BY <2>2, <3>1, <3>5
  <2> QED
    BY <2>2, <2>3, SealIsAccounted
<1>3. CASE DeadlinePasses \/ Restart
  <2>1. att' = att /\ launch' = launch /\ handles' \subseteq handles /\ owner' \in Nat /\ run' = run
    BY <1>0, <1>3 DEF DeadlinePasses, Restart
  <2> QED
    BY <2>1, SameJournal, SameIsAccounted, MarksSealNothing
<1> QED
  BY <1>1, <1>2, <1>3 DEF Stop

LEMMA JournalInit == Init => JournalInv /\ Accounted
<1> SUFFICES ASSUME Init PROVE JournalInv /\ Accounted
  OBVIOUS
<1>1. att = [op \in Op |-> <<>>] /\ handles = {} /\ owner = 1 /\ run.next = 1
  BY DEF Init
<1>2. \A op \in Op : att[op] = <<>> /\ Len(att[op]) = 0 /\ DOMAIN att[op] = {}
  BY <1>1
<1>3. JournalTyped
  <2>1. att \in [Op -> Seq(Attempt)]
    BY <1>1
  <2> QED
    BY <1>1, <1>2, <2>1, KernelAssumption DEF JournalTyped
<1> QED
  BY <1>2, <1>3 DEF JournalInv, InOrder, Graph, Accounted

LEMMA JournalNext ==
  RowsTyped /\ WriterInv /\ JournalInv /\ Accounted /\ [Next]_vars => JournalInv' /\ Accounted'
<1> SUFFICES ASSUME RowsTyped, WriterInv, JournalInv, Accounted, [Next]_vars
             PROVE  JournalInv' /\ Accounted'
  OBVIOUS
<1>1. CASE UNCHANGED vars
  <2>1. att' = att /\ launch' = launch /\ handles' = handles /\ owner' = owner /\ run' = run
    BY <1>1 DEF vars
  <2> QED
    BY <2>1, SameJournal, SameIsAccounted, MarksSealNothing DEF RowsTyped
<1> QED
  BY <1>1, JournalKeepsJournal, WorkerKeepsJournal, StopKeepsJournal DEF Next

\* No effect without its result under a checkpoint, for any number of tools,
\* attempts, workers and owners: when a generation is sealed every edit that was
\* released is completed, and an attempt that comes later has a later epoch.
THEOREM SealedAlwaysAccounted == Spec => []SealedIsAccounted
<1>1. Accounted => SealedIsAccounted
  BY AttemptsArePairs DEF Accounted, SealedIsAccounted, Phase
<1> QED
  BY <1>1, RowsInit, RowsNext, JournalInit, JournalNext, PTL DEF Spec

\* validateJournalGraph never refuses the journal of a Run: the outcome of an
\* attempt comes after its claim, and the next attempt after the outcome.
THEOREM JournalAlwaysValid == Spec => []validateJournalGraph
<1>1. JournalInv => validateJournalGraph
  BY AttemptsArePairs DEF JournalInv, Graph, validateJournalGraph, Phase, Claimed
<1> QED
  BY <1>1, RowsInit, RowsNext, JournalInit, JournalNext, PTL DEF Spec

-----------------------------------------------------------------------------
(* The end of the Run.                                                     *)

\* TerminalIsQuiet, of each attempt.
Quiet ==
    /\ run.active = None /\ run.status = Target(run.stop)
    /\ \A l \in Launch : ~Live(l)
    /\ \A g \in Gen : gen[g].phase \in {"none", "sealed", "retired"}
    /\ \A op \in Op : \A i \in DOMAIN att[op] : att[op][i].phase \notin {"prepared", "dispatch_claimed"}
    /\ \A c \in DOMAIN Ceiling : run.reserved[c] = 0
    /\ ~(\E h \in handles : Kinds[h[1]] = "model")
EndsQuiet == run.status \in Terminal => Quiet

\* Only two steps end a Run.
LEMMA TwoEnds ==
  ASSUME RowsTyped, Next, run'.status \in Terminal, run.status \notin Terminal
  PROVE  CommitTerminalStop \/ \E l \in Launch : CompleteProbeStopped(l)
<1>0. run \in RunRow
  BY DEF RowsTyped
<1>1. ASSUME NEW s, run' = s, s.status \in {run.status, "queued", "running", "waiting"} PROVE FALSE
  BY <1>1 DEF Terminal
<1>2. CASE Journal
  <2>1. CASE CompleteModel \/ CompleteRead \/ CompleteEdit
    <3>1. run.next \in Op
      BY <2>1 DEF CompleteModel, CompleteRead, CompleteEdit, Continues, Front
    <3>2. Charged(run.next, 1) \in RunRow /\ Charged(run.next, 1).status = run.status
      BY <1>0, <3>1, RunUpdates
    <3>3. run'.status \in {run.status, "queued"}
      BY <2>1, <3>2 DEF CompleteModel, CompleteRead, CompleteEdit, RunRow
    <3> QED
      BY <1>1, <3>3
  <2>2. CASE FailBeforeDispatch \/ FailWithoutRelease \/ MarkUnknown
    <3>1. PICK op \in Op, x \in {0, 1} : run' = Charged(op, x)
      BY <2>2 DEF FailBeforeDispatch, FailWithoutRelease, MarkUnknown
    <3> QED
      BY <1>0, <1>1, <3>1, RunUpdates
  <2>3. CASE PrepareModel \/ PrepareTool
    <3>1. run'.status = run.status
      BY <1>0, <2>3 DEF PrepareModel, PrepareTool, Reserve, RunRow
    <3> QED
      BY <1>1, <3>1
  <2>4. CASE DenyTool \/ ClaimInvocation \/ ReleaseInvocation \/ AbandonUnknown
    <3>1. run'.status = run.status
      BY <1>0, <2>4 DEF DenyTool, ClaimInvocation, ReleaseInvocation, AbandonUnknown, RunRow
    <3> QED
      BY <1>1, <3>1
  <2> QED
    BY <1>2, <2>1, <2>2, <2>3, <2>4 DEF Journal
<1>3. CASE Worker
  <2>1. ASSUME NEW l \in Launch, \/ BeginPreparation(l) \/ RecordPreparationController(l)
                                 \/ RecordWorkerPreactivated(l) \/ RetirePreparation(l)
                                 \/ LeaseExpires(l) \/ RetirePreactivation(l)
                                 \/ BeginRevocation(l) \/ BeginCheckpoint(l)
        PROVE  run' = run
    BY <2>1 DEF BeginPreparation, RecordPreparationController, RecordWorkerPreactivated,
                RetirePreparation, LeaseExpires, RetirePreactivation, BeginRevocation,
                BeginCheckpoint, WriteState
  <2>2. ASSUME NEW l \in Launch, NEW g \in Gen,
               RecordPreparationGeneration(l, g) \/ ReserveLaunch(l, g)
        PROVE  run' = run
    BY <2>2 DEF RecordPreparationGeneration, ReserveLaunch
  <2>3. ASSUME NEW l \in Launch, ActivateLease(l) \/ BeginRecovery(l) \/ CompleteProbe(l)
        PROVE  run'.status \in {"queued", "running", "waiting"}
    BY <1>0, <2>3 DEF ActivateLease, BeginRecovery, CompleteProbe, RunRow
  <2>4. ASSUME NEW g \in Gen, \/ RegisterGeneration(g) \/ RecordGenerationPreactivated(g)
                              \/ RetireQuarantined(g)
        PROVE  run' = run
    BY <2>4 DEF RegisterGeneration, RecordGenerationPreactivated, RetireQuarantined
  <2>5. CASE SealGeneration \/ BeginProbe \/ CloseProbe
    <3>1. run'.status \in {run.status, "queued"}
      BY <1>0, <2>5 DEF SealGeneration, BeginProbe, CloseProbe, RunRow
    <3> QED
      BY <1>1, <3>1
  <2> QED
    BY <1>1, <1>3, <2>1, <2>2, <2>3, <2>4, <2>5 DEF Worker
<1>4. CASE Cancel \/ Expire \/ StopForResource \/ StopForModelFailure \/ DeadlinePasses \/ Restart
  <2>1. run'.status = run.status
    BY <1>0, <1>4 DEF Cancel, Expire, StopForResource, StopForModelFailure, DeriveStop,
                      DeadlinePasses, Restart, RunRow
  <2> QED
    BY <1>1, <2>1
<1> QED
  BY <1>2, <1>3, <1>4 DEF Next, Stop

\* Both of them leave the Run quiet.
LEMMA EndIsQuiet ==
  ASSUME RowsTyped, JournalInv, NEW rollback,
         \A a \in rollback : a \in Attempts /\ Phase(a) = "unknown",
         \A a \in Attempts \ rollback : Closable(a),
         BrokerQuiet, Drained, att' = Refunded(rollback), run' = TerminalRun,
         handles' = handles, owner' = owner
  PROVE  Quiet'
<1>1. /\ run'.active = None /\ run'.status = Target(run'.stop) /\ run'.next = run.next
      /\ \A c \in DOMAIN Ceiling : run'.reserved[c] = 0
  <2>1. run \in RunRow
    BY DEF RowsTyped
  <2>2. TerminalRun.next = run.next
    BY <2>1 DEF TerminalRun, RunRow
  <2> QED
    BY <2>1, <2>2, TerminalTyped
<1>2. \A l \in Launch : launch'[l].phase \in {"none", "retired"}
  BY DEF Drained
<1>3. \A g \in Gen : gen'[g].phase \in {"none", "sealed", "retired"}
  BY DEF Drained
<1>4. ASSUME NEW op \in Op, NEW i \in DOMAIN att'[op]
      PROVE  att'[op][i].phase \notin {"prepared", "dispatch_claimed"}
  <2>1. /\ i \in DOMAIN att[op]
        /\ IF att[op][i].phase = "prepared" \/ <<op, i>> \in rollback
           THEN att'[op][i] = [att[op][i] EXCEPT !.phase = "failed"]
           ELSE att'[op][i] = att[op][i]
    BY <1>1, <1>4, RefundKeepsJournal
  <2>2. att[op][i] \in Attempt
    BY <2>1 DEF JournalInv, JournalTyped
  <2>3. CASE att[op][i].phase = "prepared" \/ <<op, i>> \in rollback
    BY <2>1, <2>2, <2>3 DEF Attempt
  <2>4. CASE att[op][i].phase # "prepared" /\ <<op, i>> \notin rollback
    <3>1. Closable(<<op, i>>)
      BY <2>1, <2>4, AttemptsArePairs
    <3> QED
      BY <2>1, <2>4, <3>1 DEF Closable, ModelUnknown, Phase
  <2> QED
    BY <2>3, <2>4
<1>5. ~(\E h \in handles' : Kinds[h[1]] = "model")
  BY DEF BrokerQuiet
<1> QED
  BY <1>1, <1>2, <1>3, <1>4, <1>5 DEF Quiet, Live

\* After the end no reducer finds what it asks for: the rows stay, but for the
\* operator who abandons an unknown effect and the handles that are used up.
LEMMA EndedStays ==
  ASSUME RowsTyped, JournalInv, Quiet, run.status \in Terminal, Next
  PROVE  /\ run' = run /\ handles' \subseteq handles
         /\ \A l \in Launch : launch'[l].phase = launch[l].phase
         /\ \A g \in Gen : gen'[g].phase = gen[g].phase
         /\ att' = att \/ AbandonUnknown
<1>0. /\ run.status \notin {"queued", "running", "waiting"}
      /\ \A l \in Launch : launch[l].phase \in {"none", "retired"}
      /\ \A g \in Gen : gen[g].phase \in {"none", "sealed", "retired"}
  BY DEF Terminal, Quiet, Live
<1>1. ~LiveDispatch /\ ~CanActivate /\ ~Quiesced /\ ~Inspected
  BY <1>0 DEF LiveDispatch, CanActivate, Quiesced, Inspected
<1>2. \A op \in Op : LastPhase(op) \notin {"prepared", "dispatch_claimed"}
  <2> SUFFICES ASSUME NEW op \in Op PROVE LastPhase(op) \notin {"prepared", "dispatch_claimed"}
    OBVIOUS
  <2>1. CASE att[op] = <<>>
    BY <2>1 DEF LastPhase
  <2>2. CASE att[op] # <<>>
    <3>1. Len(att[op]) \in DOMAIN att[op]
      BY <2>2 DEF JournalInv, JournalTyped
    <3> QED
      BY <2>2, <3>1 DEF LastPhase, LastAtt, Quiet
  <2> QED
    BY <2>1, <2>2
<1>3. CASE Journal
  <2>1. ReleaseInvocation \/ AbandonUnknown
    <3>1. ~PrepareModel /\ ~PrepareTool /\ ~DenyTool /\ ~ClaimInvocation
      BY <1>1 DEF PrepareModel, PrepareTool, DenyTool, ClaimInvocation
    <3>2. ~CompleteModel /\ ~CompleteRead /\ ~CompleteEdit
      BY <1>0 DEF CompleteModel, CompleteRead, CompleteEdit, Continues
    <3>3. ~FailBeforeDispatch /\ ~FailWithoutRelease /\ ~MarkUnknown
      BY <1>2 DEF FailBeforeDispatch, FailWithoutRelease, MarkUnknown, Settle
    <3> QED
      BY <1>3, <3>1, <3>2, <3>3 DEF Journal
  <2>2. CASE ReleaseInvocation
    BY <1>1, <2>2 DEF ReleaseInvocation, Releasable
  <2>3. CASE AbandonUnknown
    BY <2>3 DEF AbandonUnknown
  <2> QED
    BY <2>1, <2>2, <2>3
<1>4. CASE Worker
  <2>1. \E l \in Launch : LeaseExpires(l)
    <3>1. \A l \in Launch : ~BeginPreparation(l) /\ ~RecordWorkerPreactivated(l) /\ ~ActivateLease(l)
      BY <1>1 DEF BeginPreparation, RecordWorkerPreactivated, ActivateLease
    <3>2. \A l \in Launch : ~RecordPreparationController(l) /\ ~RetirePreparation(l)
      BY <1>0 DEF RecordPreparationController, RetirePreparation, Bindable
    <3>3. \A l \in Launch : ~BeginRevocation(l) /\ ~BeginCheckpoint(l)
      BY <1>0 DEF BeginRevocation, BeginCheckpoint, WriteState
    <3>4. \A l \in Launch : ~RetirePreactivation(l) /\ ~BeginRecovery(l)
      BY <1>0 DEF RetirePreactivation, BeginRecovery
    <3>5. \A l \in Launch : ~CompleteProbe(l) /\ ~CompleteProbeStopped(l)
      BY <1>1 DEF CompleteProbe, CompleteProbeStopped
    <3>6. \A l \in Launch, g \in Gen : ~RecordPreparationGeneration(l, g) /\ ~ReserveLaunch(l, g)
      BY <1>0, <1>1 DEF RecordPreparationGeneration, Bindable, ReserveLaunch
    <3>7. \A g \in Gen : /\ ~RegisterGeneration(g) /\ ~RecordGenerationPreactivated(g)
                         /\ ~RetireQuarantined(g)
      BY <1>0 DEF RegisterGeneration, RecordGenerationPreactivated, RetireQuarantined
    <3>8. ~SealGeneration /\ ~BeginProbe /\ ~CloseProbe
      BY <1>0, <1>1 DEF SealGeneration, BeginProbe, CloseProbe
    <3> QED
      BY <1>4, <3>1, <3>2, <3>3, <3>4, <3>5, <3>6, <3>7, <3>8 DEF Worker
  <2>2. PICK l \in Launch : LeaseExpires(l)
    BY <2>1
  <2>3. launch' = [launch EXCEPT ![l].leased = FALSE] /\ run' = run /\ gen' = gen /\ att' = att
        /\ handles' = handles
    BY <2>2 DEF LeaseExpires
  <2>4. \A m \in Launch : launch'[m].phase = launch[m].phase
    BY <2>3 DEF RowsTyped, LaunchRow
  <2> QED
    BY <2>3, <2>4
<1>5. ~Stop
  BY <1>0 DEF Stop, Cancel, Expire, StopForResource, StopForModelFailure, CommitTerminalStop, StopCut
<1>6. CASE DeadlinePasses \/ Restart
  BY <1>6 DEF DeadlinePasses, Restart
<1> QED
  BY <1>3, <1>4, <1>5, <1>6 DEF Next

LEMMA QuietNext ==
  RowsTyped /\ WriterInv /\ JournalInv /\ EndsQuiet /\ [Next]_vars => EndsQuiet'
<1> SUFFICES ASSUME RowsTyped, WriterInv, JournalInv, EndsQuiet, [Next]_vars, run'.status \in Terminal
             PROVE  Quiet'
  BY DEF EndsQuiet
<1>1. CASE UNCHANGED vars
  BY <1>1 DEF vars, EndsQuiet, Quiet, Live
<1>2. CASE Next /\ run.status \in Terminal
  <2>1. Quiet
    BY <1>2 DEF EndsQuiet
  <2>2. /\ run' = run /\ handles' \subseteq handles
        /\ \A l \in Launch : launch'[l].phase = launch[l].phase
        /\ \A g \in Gen : gen'[g].phase = gen[g].phase
        /\ att' = att \/ AbandonUnknown
    BY <1>2, <2>1, EndedStays
  <2>3. \A op \in Op : \A i \in DOMAIN att'[op] :
          att'[op][i].phase \notin {"prepared", "dispatch_claimed"}
    <3>1. CASE att' = att
      BY <2>1, <3>1 DEF Quiet
    <3>2. CASE AbandonUnknown
      <4>1. PICK o \in Op : LastPhase(o) = "unknown"
                            /\ att' = [att EXCEPT ![o][Len(att[o])].phase = "abandoned"]
        BY <3>2 DEF AbandonUnknown
      <4>2. att \in [Op -> Seq(Attempt)]
        BY DEF JournalInv, JournalTyped
      <4>3. /\ Len(att[o]) \in DOMAIN att[o] /\ att[o][Len(att[o])] \in Attempt
        BY <4>1, <4>2 DEF LastPhase
      <4> DEFINE y == [att[o][Len(att[o])] EXCEPT !.phase = "abandoned"]
      <4>4. y \in Attempt /\ y.phase = "abandoned"
        BY <4>3 DEF Attempt
      <4>5. att' = [att EXCEPT ![o] = [att[o] EXCEPT ![Len(att[o])] = y]]
        BY <4>1
      <4> HIDE DEF y
      <4>6. /\ att'[o][Len(att[o])] = y
            /\ \A op \in Op : DOMAIN att'[op] = DOMAIN att[op]
            /\ \A op \in Op : \A j \in DOMAIN att[op] :
                 op # o \/ j # Len(att[o]) => att'[op][j] = att[op][j]
        BY <4>2, <4>3, <4>4, <4>5, Changed
      <4> QED
        BY <2>1, <4>4, <4>6 DEF Quiet
    <3> QED
      BY <2>2, <3>1, <3>2
  <2> QED
    BY <2>1, <2>2, <2>3 DEF Quiet, Live
<1>3. CASE Next /\ run.status \notin Terminal
  <2>1. CASE CommitTerminalStop
    <3>1. /\ BrokerQuiet /\ Drained /\ att' = Refunded({}) /\ run' = TerminalRun
          /\ handles' = handles /\ owner' = owner /\ \A a \in Attempts : Closable(a)
      BY <2>1 DEF CommitTerminalStop
    <3>2. /\ \A a \in {} : a \in Attempts /\ Phase(a) = "unknown"
          /\ \A a \in Attempts \ {} : Closable(a)
      BY <3>1
    <3> QED
      BY <3>1, <3>2, EndIsQuiet
  <2>2. ASSUME NEW l \in Launch, CompleteProbeStopped(l) PROVE Quiet'
    <3>1. /\ BrokerQuiet /\ Drained /\ att' = Refunded(RolledBack) /\ run' = TerminalRun
          /\ handles' = handles /\ owner' = owner
          /\ \A a \in Attempts \ RolledBack : Closable(a)
      BY <2>2 DEF CompleteProbeStopped
    <3>2. \A a \in RolledBack : a \in Attempts /\ Phase(a) = "unknown"
      BY DEF RolledBack, Open
    <3> QED
      BY <3>1, <3>2, EndIsQuiet
  <2> QED
    BY <1>3, <2>1, <2>2, TwoEnds
<1> QED
  BY <1>1, <1>2, <1>3

\* An ended Run stays quiet, for any number of workers, generations, attempts
\* and owners: the commit that ends it has drained everything, and no reducer
\* that comes later finds a row it may change.
THEOREM TerminalStaysQuiet == Spec => []TerminalIsQuiet
<1>1. Init => EndsQuiet
  BY DEF Init, EndsQuiet, Terminal
<1>2. EndsQuiet => TerminalIsQuiet
  BY AttemptsArePairs DEF EndsQuiet, Quiet, TerminalIsQuiet, Phase
<1> QED
  BY <1>1, <1>2, RowsInit, RowsNext, JournalInit, JournalNext, QuietNext, PTL DEF Spec

-----------------------------------------------------------------------------
(* A launch and its generation.                                            *)

\* The generation of a launch is where the launch says it is.
Linked(l) ==
    /\ launch[l].phase = "none" =>
         /\ launch[l].gen = None /\ launch[l].prep = "none"
         /\ launch[l].write = "none" /\ launch[l].epoch = 0
    /\ launch[l].phase = "preparing" =>
         /\ launch[l].write = "none" /\ launch[l].epoch = 0
         /\ launch[l].gen = None => launch[l].prep = "intent"
         /\ launch[l].gen \in Gen => gen[launch[l].gen].phase \in Unlaunched
    /\ launch[l].phase \in {"reserved", "preactivated"} =>
         /\ launch[l].epoch = 0 /\ launch[l].gen \in Gen
         /\ gen[launch[l].gen].phase = "preactivated_readonly"
    /\ launch[l].phase \in {"activated", "reconciling"} => launch[l].epoch > 0
    /\ launch[l].phase = "retired" =>
         \/ launch[l].write = "none" /\ launch[l].gen = None /\ launch[l].prep = "intent"
         \/ /\ launch[l].write = "none" /\ launch[l].gen \in Gen
            /\ gen[launch[l].gen].phase = "retired"
         \/ /\ launch[l].write = "preactivated_readonly" /\ launch[l].epoch = 0
            /\ launch[l].gen \in Gen /\ gen[launch[l].gen].phase \in {"quarantined", "retired"}
         \/ /\ launch[l].write = "fenced_reconciling" /\ launch[l].epoch > 0
            /\ launch[l].gen \in Gen /\ gen[launch[l].gen].phase \in {"quarantined", "retired"}
         \/ /\ launch[l].write = "sealed" /\ launch[l].epoch > 0
            /\ launch[l].gen \in Gen /\ gen[launch[l].gen].phase = "sealed"
\* No two launches have the same generation.
OwnGen == \A l, m \in Launch :
    launch[l].gen \in Gen /\ launch[m].gen = launch[l].gen => l = m
\* A generation that is given up has the launch that gave it up.
HasSource == \A g \in Gen : gen[g].phase \in {"sealed", "quarantined", "retired"} =>
    \E l \in Launch : launch[l].phase = "retired" /\ launch[l].gen = g

LinkInv == (\A l \in Launch : Linked(l)) /\ OwnGen /\ HasSource

-----------------------------------------------------------------------------
(* The history of the journal, the inspections and the end.                *)

\* A claimed model call fails only unreleased.
Unreleased == \A op \in Op : \A i \in DOMAIN att[op] :
    Kinds[op] = "model" /\ att[op][i].phase = "failed" /\ att[op][i].claimed => ~att[op][i].released
\* An edit of open effect belongs to the worker that may still have made it; ...
OpenEdits == \A op \in Op : \A i \in DOMAIN att[op] :
    Kinds[op] = "edit" /\ att[op][i].phase \in {"dispatch_claimed", "unknown"} =>
        att[op][i].epoch = run.epoch /\ run.status \in {"running", "waiting"}
\* ... one that failed after its claim was rolled back with the generation.
LostEdits == \A op \in Op : \A i \in DOMAIN att[op] :
    Kinds[op] = "edit" /\ att[op][i].phase = "failed" /\ att[op][i].claimed =>
        \E g \in Gen : gen[g].phase = "retired" /\ gen[g].epoch = att[op][i].epoch
HistoryInv == Unreleased /\ OpenEdits /\ LostEdits

ProbeInv ==
    /\ owner \in 1 .. MaxOwner
    /\ probe \in [phase : {"none", "pending", "in_flight", "exhausted"},
                  count : 0 .. ProbeLimit, owner : Nat]
    /\ run.status = "waiting" => validateWorkerProbeState

\* An ended Run was stopped, and leaves a model call to a dead claimant at most.
Resolved == run.status \in Terminal =>
    /\ run.stop # None
    /\ \A op \in Op : \A i \in DOMAIN att[op] :
         \/ att[op][i].phase \in {"completed", "failed"}
         \/ Kinds[op] = "model" /\ att[op][i].phase = "unknown" /\ att[op][i].owner < owner

-----------------------------------------------------------------------------
(* The budget.                                                             *)

OpenUnits(c) == {a \in Attempts : Counter(a[1]) = c /\ Phase(a) \in {"prepared", "dispatch_claimed"}}
SpentUnits(c) == {a \in Attempts : Counter(a[1]) = c /\ Charges(a)}
BudgetInv == \A c \in Counters :
    /\ IsFiniteSet(OpenUnits(c)) /\ IsFiniteSet(SpentUnits(c))
    /\ run.reserved[c] = Cardinality(OpenUnits(c))
    /\ run.consumed[c] = Cardinality(SpentUnits(c))
    /\ run.reserved[c] + run.consumed[c] <= Ceiling[c]

-----------------------------------------------------------------------------
(* The steps on launches and generations.                                  *)

LinkKept(l) ==
    /\ launch'[l].phase = launch[l].phase /\ launch'[l].gen = launch[l].gen
    /\ launch'[l].epoch = launch[l].epoch /\ launch'[l].write = launch[l].write
    /\ launch'[l].prep = launch[l].prep

\* A generation that a launch has is there.
LEMMA GenIsBorn ==
  ASSUME RowsTyped, WriterInv, LinkInv, NEW l \in Launch, launch[l].gen \in Gen
  PROVE  /\ gen[launch[l].gen].phase # "none"
         /\ gen[launch[l].gen].phase \in Unlaunched =>
              launch[l].phase \in {"preparing", "reserved", "preactivated"}
         /\ gen[launch[l].gen].phase \in {"quarantined", "sealed", "retired"} =>
              launch[l].phase = "retired"
<1>1. launch[l].phase \in LaunchPhase /\ Linked(l) /\ launch[l].gen # None
  BY Fields, KernelAssumption DEF LinkInv
<1>2. CASE launch[l].phase \in {"activated", "reconciling"}
  <2>1. gen[launch[l].gen].phase \in Writable \cup {"fenced_reconciling"}
    BY <1>2 DEF WriterInv, ActivatedWrites, FencedWaits
  <2> QED
    BY <1>2, <2>1 DEF Writable, Unlaunched
<1>3. CASE launch[l].phase \notin {"activated", "reconciling"}
  BY <1>1, <1>3 DEF Linked, Unlaunched, LaunchPhase
<1> QED
  BY <1>2, <1>3

LEMMA LinkedAgain ==
  ASSUME NEW l \in Launch, Linked(l), LinkKept(l),
         launch[l].gen \in Gen => gen'[launch[l].gen].phase = gen[launch[l].gen].phase
  PROVE  Linked(l)'
<1>1. launch'[l].phase = "retired" => Linked(l)'
  BY DEF Linked, LinkKept
<1>2. launch'[l].phase # "retired" => Linked(l)'
  BY DEF Linked, LinkKept
<1> QED
  BY <1>1, <1>2

LEMMA LinksKept ==
  ASSUME LinkInv, \A l \in Launch : LinkKept(l), \A g \in Gen : gen'[g].phase = gen[g].phase
  PROVE  LinkInv'
<1>1. \A l \in Launch : Linked(l)'
  BY LinkedAgain DEF LinkInv
<1>2. OwnGen'
  BY DEF LinkInv, OwnGen, LinkKept
<1>3. HasSource'
  BY DEF LinkInv, HasSource, LinkKept
<1> QED
  BY <1>1, <1>2, <1>3 DEF LinkInv

\* A step of one launch that is not retired, and of a generation that is its
\* own or nobody's.
LEMMA OneLink ==
  ASSUME LinkInv, NEW l \in Launch, NEW g \in Gen \cup {None},
         launch[l].phase # "retired",
         \A m \in Launch : m # l => LinkKept(m),
         \A h \in Gen : h # g => gen'[h].phase = gen[h].phase,
         g \in Gen => \A m \in Launch : m # l => launch[m].gen # g,
         launch'[l].gen \in {launch[l].gen, g},
         g \in Gen /\ gen'[g].phase \in {"sealed", "quarantined", "retired"} =>
            launch'[l].phase = "retired" /\ launch'[l].gen = g,
         Linked(l)'
  PROVE  LinkInv'
<1>1. ASSUME NEW m \in Launch, m # l PROVE Linked(m)'
  <2>1. launch[m].gen \in Gen => launch[m].gen # g
    BY <1>1
  <2> QED
    BY <1>1, <2>1, LinkedAgain DEF LinkInv
<1>2. OwnGen'
  BY KernelAssumption DEF LinkInv, OwnGen, LinkKept
<1>3. HasSource'
  <2> SUFFICES ASSUME NEW h \in Gen, gen'[h].phase \in {"sealed", "quarantined", "retired"}
               PROVE  \E m \in Launch : launch'[m].phase = "retired" /\ launch'[m].gen = h
    BY DEF HasSource
  <2>1. CASE h = g
    BY <2>1
  <2>2. CASE h # g
    <3>1. PICK m \in Launch : launch[m].phase = "retired" /\ launch[m].gen = h
      BY <2>2 DEF LinkInv, HasSource
    <3> QED
      BY <3>1 DEF LinkKept
  <2> QED
    BY <2>1, <2>2
<1> QED
  BY <1>1, <1>2, <1>3 DEF LinkInv

\* A step of one generation only.
LEMMA GenOnly ==
  ASSUME LinkInv, NEW g \in Gen, launch' = launch,
         \A h \in Gen : h # g => gen'[h].phase = gen[h].phase,
         \A l \in Launch : launch[l].gen = g => Linked(l)',
         gen'[g].phase \in {"sealed", "quarantined", "retired"} =>
            gen[g].phase \in {"sealed", "quarantined", "retired"}
  PROVE  LinkInv'
<1>1. ASSUME NEW m \in Launch PROVE Linked(m)'
  <2>1. CASE launch[m].gen = g
    BY <2>1
  <2>2. CASE launch[m].gen # g
    <3>1. Linked(m) /\ LinkKept(m)
      BY DEF LinkInv, LinkKept
    <3> QED
      BY <2>2, <3>1, LinkedAgain
  <2> QED
    BY <2>1, <2>2
<1>2. OwnGen' /\ HasSource'
  BY DEF LinkInv, OwnGen, HasSource
<1> QED
  BY <1>1, <1>2 DEF LinkInv

\* The marks leave the links.
LEMMA MarksKeepLinks ==
  ASSUME RowsTyped, launch' \in {launch, Revised, Aged}
  PROVE  \A l \in Launch : LinkKept(l)
<1>1. \A l \in Launch : Revised[l].prep = launch[l].prep /\ Aged[l].prep = launch[l].prep
  BY DEF RowsTyped, LaunchRow, Revised, Aged
<1> QED
  BY <1>1, Marks DEF LinkKept

\* A worker is prepared.
LEMMA PreparingLinks ==
  ASSUME RowsTyped, WriterInv, LinkInv, NEW l \in Launch,
         BeginPreparation(l) \/ RecordPreparationController(l) \/ RecordWorkerPreactivated(l)
  PROVE  LinkInv'
<1>1. gen' = gen /\ Linked(l)
  BY DEF BeginPreparation, RecordPreparationController, RecordWorkerPreactivated, LinkInv
<1>2. \A m \in Launch : m # l => LinkKept(m)
  BY DEF BeginPreparation, RecordPreparationController, RecordWorkerPreactivated, LinkKept, RowsTyped
<1>3. CASE BeginPreparation(l)
  <2>1. /\ launch'[l].phase = "preparing" /\ launch'[l].prep = "intent" /\ launch[l].phase = "none"
        /\ launch'[l].gen = launch[l].gen /\ launch'[l].write = launch[l].write
        /\ launch'[l].epoch = launch[l].epoch
    BY <1>3 DEF BeginPreparation, RowsTyped, LaunchRow
  <2>2. Linked(l)'
    BY <1>1, <2>1, KernelAssumption DEF Linked
  <2> QED
    BY <1>1, <1>2, <2>1, <2>2, OneLink, KernelAssumption
<1>4. CASE RecordPreparationController(l)
  <2>1. /\ launch[l].phase = "preparing" /\ launch'[l].phase = launch[l].phase
        /\ launch[l].gen # None
        /\ launch'[l].gen = launch[l].gen /\ launch'[l].write = launch[l].write
        /\ launch'[l].epoch = launch[l].epoch
    BY <1>4 DEF RecordPreparationController, Bindable, RowsTyped, LaunchRow
  <2>2. Linked(l)'
    BY <1>1, <2>1 DEF Linked
  <2> QED
    BY <1>1, <1>2, <2>1, <2>2, OneLink, KernelAssumption
<1>5. CASE RecordWorkerPreactivated(l)
  <2>1. /\ launch[l].phase = "reserved" /\ launch'[l].phase = "preactivated"
        /\ launch'[l].gen = launch[l].gen /\ launch'[l].write = launch[l].write
        /\ launch'[l].epoch = launch[l].epoch
    BY <1>5 DEF RecordWorkerPreactivated, RowsTyped, LaunchRow
  <2>2. Linked(l)'
    BY <1>1, <2>1 DEF Linked
  <2> QED
    BY <1>1, <1>2, <2>1, <2>2, OneLink, KernelAssumption
<1> QED
  BY <1>3, <1>4, <1>5

\* recordWorkerPreparationGeneration: nothing had the generation before it was born.
LEMMA GenerationLinks ==
  ASSUME RowsTyped, WriterInv, LinkInv, NEW l \in Launch, NEW g \in Gen,
         RecordPreparationGeneration(l, g)
  PROVE  LinkInv'
<1>1. /\ launch[l].phase = "preparing" /\ launch[l].gen = None /\ gen[g].phase = "none"
      /\ launch' = [launch EXCEPT ![l].gen = g]
      /\ gen' = [gen EXCEPT ![g] = [@ EXCEPT !.phase = "materializing", !.fresh = TRUE]]
  BY DEF RecordPreparationGeneration, Bindable
<1>2. \A m \in Launch : m # l => LinkKept(m)
  BY <1>1 DEF LinkKept, RowsTyped
<1>3. \A h \in Gen : h # g => gen'[h].phase = gen[h].phase
  BY <1>1 DEF RowsTyped
<1>4. gen'[g].phase = "materializing"
  BY <1>1 DEF RowsTyped, GenRow
<1>5. /\ launch'[l].phase = "preparing" /\ launch'[l].gen = g
      /\ launch'[l].write = launch[l].write /\ launch'[l].epoch = launch[l].epoch
  BY <1>1 DEF RowsTyped, LaunchRow
<1>6. Linked(l)'
  <2>1. Linked(l) /\ g # None
    BY KernelAssumption DEF LinkInv
  <2> QED
    BY <1>1, <1>4, <1>5, <2>1 DEF Linked, Unlaunched
<1>7. \A m \in Launch : m # l => launch[m].gen # g
  BY <1>1, GenIsBorn
<1> QED
  BY <1>1, <1>2, <1>3, <1>4, <1>5, <1>6, <1>7, OneLink

\* reserveWorkerLaunch: a generation that nothing has, or that the preparation has.
LEMMA ReserveLinks ==
  ASSUME RowsTyped, WriterInv, LinkInv, NEW l \in Launch, NEW g \in Gen, ReserveLaunch(l, g)
  PROVE  LinkInv'
<1>1. /\ gen[g].phase = "preactivated_readonly" /\ gen' = gen
      /\ launch' = [launch EXCEPT ![l] =
                    [@ EXCEPT !.phase = "reserved", !.gen = g, !.owner = owner,
                              !.write = "preactivated_readonly", !.planned = TRUE]]
  BY DEF ReserveLaunch
<1>2. launch[l].phase \in {"none", "preparing"} /\ \A m \in Launch : m # l => ~Live(m)
  BY DEF ReserveLaunch, Promotable
<1>3. \A m \in Launch : m # l => LinkKept(m)
  BY <1>1 DEF LinkKept, RowsTyped
<1>4. /\ launch'[l].phase = "reserved" /\ launch'[l].gen = g /\ launch'[l].epoch = launch[l].epoch
  BY <1>1 DEF RowsTyped, LaunchRow
<1>5. Linked(l)'
  <2>1. launch[l].epoch = 0
    BY <1>2 DEF LinkInv, Linked
  <2> QED
    BY <1>1, <1>4, <2>1 DEF Linked
<1>6. \A m \in Launch : m # l => launch[m].gen # g
  <2> SUFFICES ASSUME NEW m \in Launch, m # l, launch[m].gen = g PROVE FALSE
    OBVIOUS
  <2>1. launch[m].phase \in {"preparing", "reserved", "preactivated"}
    BY <1>1, GenIsBorn DEF Unlaunched
  <2> QED
    BY <1>2, <2>1 DEF Live
<1> QED
  BY <1>1, <1>2, <1>3, <1>4, <1>5, <1>6, OneLink

\* A step of the launch that has its generation, and of both.
LEMMA OwnLink ==
  ASSUME RowsTyped, LinkInv, NEW l \in Launch, launch[l].gen \in Gen, launch[l].phase # "retired",
         \A m \in Launch : m # l => LinkKept(m),
         \A h \in Gen : h # launch[l].gen => gen'[h].phase = gen[h].phase,
         launch'[l].gen = launch[l].gen,
         gen'[launch[l].gen].phase \in {"sealed", "quarantined", "retired"} =>
           launch'[l].phase = "retired",
         Linked(l)'
  PROVE  LinkInv'
<1>1. PICK g \in Gen : g = launch[l].gen
  OBVIOUS
<1>2. \A m \in Launch : m # l => launch[m].gen # g
  BY <1>1 DEF LinkInv, OwnGen
<1> QED
  BY <1>1, <1>2, OneLink

LEMMA ActivateLinks ==
  ASSUME RowsTyped, WriterInv, LinkInv, NEW l \in Launch, ActivateLease(l)
  PROVE  LinkInv'
<1>1. PICK e \in Nat : e = run.epoch + 1
  BY Fields
<1>2. /\ launch' = [Revised EXCEPT ![l] = [@ EXCEPT !.phase = "activated", !.epoch = e,
                                                    !.write = "active", !.leased = TRUE]]
      /\ gen' = [gen EXCEPT ![launch[l].gen] = [@ EXCEPT !.phase = "active", !.launch = l,
                                                         !.epoch = e]]
      /\ launch[l].phase = "preactivated"
  BY <1>1 DEF ActivateLease
<1>3. launch[l].gen \in Gen
  BY <1>2 DEF WriterInv, ReservedReads
<1>4. \A m \in Launch : Revised[m].prep = launch[m].prep
  BY DEF RowsTyped, LaunchRow, Revised
<1>5. \A m \in Launch : m # l => LinkKept(m)
  BY <1>2, <1>4, Marks DEF LinkKept
<1>6. /\ launch'[l].phase = "activated" /\ launch'[l].gen = launch[l].gen /\ launch'[l].epoch = e
  BY <1>2, Marks DEF LaunchRow
<1>7. /\ gen'[launch[l].gen].phase = "active"
      /\ \A h \in Gen : h # launch[l].gen => gen'[h].phase = gen[h].phase
  BY <1>2, <1>3 DEF RowsTyped, GenRow
<1>8. e > 0
  BY <1>1, Fields
<1>9. Linked(l)'
  BY <1>6, <1>8 DEF Linked
<1> QED
  BY <1>2, <1>3, <1>5, <1>6, <1>7, <1>9, OwnLink

LEMMA WriteStateLinks ==
  ASSUME RowsTyped, WriterInv, LinkInv, NEW l \in Launch, BeginRevocation(l) \/ BeginCheckpoint(l)
  PROVE  LinkInv'
<1>1. PICK to \in {"revoking", "checkpointing"} :
        /\ launch' = [launch EXCEPT ![l].write = to] /\ launch[l].phase = "activated"
        /\ gen' = [gen EXCEPT ![launch[l].gen].phase = to]
  BY DEF BeginRevocation, BeginCheckpoint, WriteState
<1>2. launch[l].gen \in Gen
  BY <1>1 DEF WriterInv, ActivatedWrites
<1>3. \A m \in Launch : m # l => LinkKept(m)
  BY <1>1 DEF LinkKept, RowsTyped
<1>4. /\ launch'[l].phase = "activated" /\ launch'[l].gen = launch[l].gen
      /\ launch'[l].epoch = launch[l].epoch
  BY <1>1 DEF RowsTyped, LaunchRow
<1>5. /\ gen'[launch[l].gen].phase = to
      /\ \A h \in Gen : h # launch[l].gen => gen'[h].phase = gen[h].phase
  BY <1>1, <1>2 DEF RowsTyped, GenRow
<1>6. Linked(l)'
  BY <1>1, <1>4 DEF Linked, LinkInv
<1> QED
  BY <1>1, <1>2, <1>3, <1>4, <1>5, <1>6, OwnLink

\* The worker of the Run is sealed with its generation.
LEMMA SealLinks ==
  ASSUME RowsTyped, WriterInv, LinkInv, Quiesced, launch' = SealedLaunch, gen' = SealedGen
  PROVE  LinkInv'
<1>1. PICK l \in Launch : l = run.active
  BY Fields DEF Quiesced
<1>2. launch[l].phase = "activated" /\ launch[l].gen \in Gen
  BY <1>1 DEF Quiesced, WriterInv, ActivatedWrites
<1>3. launch' = [Aged EXCEPT ![l] = [@ EXCEPT !.phase = "retired", !.write = "sealed", !.leased = FALSE]]
  BY <1>1 DEF SealedLaunch
<1>4. gen' = [Checkpointed EXCEPT ![launch[l].gen] = [@ EXCEPT !.phase = "sealed", !.launch = None]]
  BY <1>1 DEF SealedGen
<1>5. \A m \in Launch : Aged[m].prep = launch[m].prep
  BY DEF RowsTyped, LaunchRow, Aged
<1>6. \A m \in Launch : m # l => LinkKept(m)
  BY <1>3, <1>5, Marks DEF LinkKept
<1>7. /\ launch'[l].phase = "retired" /\ launch'[l].gen = launch[l].gen
      /\ launch'[l].epoch = launch[l].epoch /\ launch'[l].write = "sealed"
  BY <1>3, Marks DEF LaunchRow
<1>8. /\ gen'[launch[l].gen].phase = "sealed"
      /\ \A h \in Gen : h # launch[l].gen => gen'[h].phase = gen[h].phase
  BY <1>2, <1>4, Marks DEF GenRow
<1>9. Linked(l)'
  BY <1>2, <1>7, <1>8 DEF Linked, LinkInv
<1> QED
  BY <1>2, <1>6, <1>7, <1>8, <1>9, OwnLink

LEMMA RetirePreparationLinks ==
  ASSUME RowsTyped, WriterInv, LinkInv, NEW l \in Launch, RetirePreparation(l)
  PROVE  LinkInv'
<1>1. /\ launch[l].phase = "preparing"
      /\ launch' = [launch EXCEPT ![l] = [@ EXCEPT !.phase = "retired", !.fresh = FALSE,
                                                   !.planned = FALSE]]
  BY DEF RetirePreparation, Bindable
<1>2. \A m \in Launch : m # l => LinkKept(m)
  BY <1>1 DEF LinkKept, RowsTyped
<1>3. /\ launch'[l].phase = "retired" /\ launch'[l].gen = launch[l].gen
      /\ launch'[l].epoch = launch[l].epoch /\ launch'[l].write = launch[l].write
      /\ launch'[l].prep = launch[l].prep
  BY <1>1 DEF RowsTyped, LaunchRow
<1>4. CASE launch[l].gen = None
  <2>1. gen' = gen
    BY <1>4 DEF RetirePreparation
  <2>2. Linked(l)'
    BY <1>1, <1>3, <1>4, <2>1 DEF Linked, LinkInv
  <2> QED
    BY <1>1, <1>2, <1>3, <2>1, <2>2, OneLink, KernelAssumption
<1>5. CASE launch[l].gen # None
  <2>1. launch[l].gen \in Gen
    BY <1>5, Fields
  <2>2. gen' = [gen EXCEPT ![launch[l].gen].phase = "retired"]
    BY <1>5 DEF RetirePreparation
  <2>3. /\ gen'[launch[l].gen].phase = "retired"
        /\ \A h \in Gen : h # launch[l].gen => gen'[h].phase = gen[h].phase
    BY <2>1, <2>2 DEF RowsTyped, GenRow
  <2>4. Linked(l)'
    BY <1>1, <1>3, <2>1, <2>3 DEF Linked, LinkInv
  <2> QED
    BY <1>1, <1>2, <1>3, <2>1, <2>3, <2>4, OwnLink
<1> QED
  BY <1>4, <1>5

LEMMA RetirePreactivationLinks ==
  ASSUME RowsTyped, WriterInv, LinkInv, NEW l \in Launch, RetirePreactivation(l)
  PROVE  LinkInv'
<1>1. /\ launch[l].phase \in {"reserved", "preactivated"}
      /\ launch' = [Revised EXCEPT ![l] = [@ EXCEPT !.phase = "retired", !.fresh = FALSE]]
      /\ gen' = [gen EXCEPT ![launch[l].gen].phase = "quarantined"]
  BY DEF RetirePreactivation
<1>2. launch[l].gen \in Gen /\ launch[l].write = "preactivated_readonly"
  BY <1>1 DEF WriterInv, ReservedReads
<1>3. \A m \in Launch : Revised[m].prep = launch[m].prep
  BY DEF RowsTyped, LaunchRow, Revised
<1>4. \A m \in Launch : m # l => LinkKept(m)
  BY <1>1, <1>3, Marks DEF LinkKept
<1>5. /\ launch'[l].phase = "retired" /\ launch'[l].gen = launch[l].gen
      /\ launch'[l].epoch = launch[l].epoch /\ launch'[l].write = launch[l].write
  BY <1>1, Marks DEF LaunchRow
<1>6. /\ gen'[launch[l].gen].phase = "quarantined"
      /\ \A h \in Gen : h # launch[l].gen => gen'[h].phase = gen[h].phase
  BY <1>1, <1>2 DEF RowsTyped, GenRow
<1>7. Linked(l)'
  BY <1>1, <1>2, <1>5, <1>6 DEF Linked, LinkInv
<1> QED
  BY <1>1, <1>2, <1>4, <1>5, <1>6, <1>7, OwnLink

\* beginWorkerRecovery, and the two ends of the inspection.
LEMMA RecoveryLinks ==
  ASSUME RowsTyped, WriterInv, LinkInv, NEW l \in Launch,
         BeginRecovery(l) \/ CompleteProbe(l) \/ CompleteProbeStopped(l)
  PROVE  LinkInv'
<1>1. CASE BeginRecovery(l)
  <2>1. /\ launch[l].phase = "activated"
        /\ launch' = [Revised EXCEPT ![l] = [@ EXCEPT !.phase = "reconciling", !.leased = FALSE,
                                                      !.write = "fenced_reconciling"]]
        /\ gen' = [gen EXCEPT ![launch[l].gen].phase = "fenced_reconciling"]
    BY <1>1 DEF BeginRecovery
  <2>2. launch[l].gen \in Gen
    BY <2>1 DEF WriterInv, ActivatedWrites
  <2>3. \A m \in Launch : Revised[m].prep = launch[m].prep
    BY DEF RowsTyped, LaunchRow, Revised
  <2>4. \A m \in Launch : m # l => LinkKept(m)
    BY <2>1, <2>3, Marks DEF LinkKept
  <2>5. /\ launch'[l].phase = "reconciling" /\ launch'[l].gen = launch[l].gen
        /\ launch'[l].epoch = launch[l].epoch
    BY <2>1, Marks DEF LaunchRow
  <2>6. /\ gen'[launch[l].gen].phase = "fenced_reconciling"
        /\ \A h \in Gen : h # launch[l].gen => gen'[h].phase = gen[h].phase
    BY <2>1, <2>2 DEF RowsTyped, GenRow
  <2>7. Linked(l)'
    BY <2>1, <2>5 DEF Linked, LinkInv
  <2> QED
    BY <2>1, <2>2, <2>4, <2>5, <2>6, <2>7, OwnLink
<1>2. ASSUME launch[l].phase = "reconciling",
             launch' = [Revised EXCEPT ![l].phase = "retired"]
               \/ launch' = [Aged EXCEPT ![l].phase = "retired"],
             gen'[launch[l].gen].phase \in {"quarantined", "retired"},
             \A h \in Gen : h # launch[l].gen => gen'[h].phase = gen[h].phase
      PROVE  LinkInv'
  <2>1. launch[l].gen \in Gen /\ launch[l].write = "fenced_reconciling"
    BY <1>2 DEF WriterInv, FencedWaits
  <2>2. \A m \in Launch : Revised[m].prep = launch[m].prep /\ Aged[m].prep = launch[m].prep
    BY DEF RowsTyped, LaunchRow, Revised, Aged
  <2>3. \A m \in Launch : m # l => LinkKept(m)
    BY <1>2, <2>2, Marks DEF LinkKept
  <2>4. /\ launch'[l].phase = "retired" /\ launch'[l].gen = launch[l].gen
        /\ launch'[l].epoch = launch[l].epoch /\ launch'[l].write = launch[l].write
    BY <1>2, Marks DEF LaunchRow
  <2>5. Linked(l)'
    BY <1>2, <2>1, <2>4 DEF Linked, LinkInv
  <2> QED
    BY <1>2, <2>1, <2>3, <2>4, <2>5, OwnLink
<1>3. CASE CompleteProbe(l)
  <2>1. /\ launch[l].phase = "reconciling" /\ launch' = [Revised EXCEPT ![l].phase = "retired"]
        /\ gen' = [gen EXCEPT ![launch[l].gen].phase = "quarantined", ![launch[l].gen].launch = None]
    BY <1>3 DEF CompleteProbe, Fenced
  <2>2. launch[l].gen \in Gen
    BY <2>1 DEF WriterInv, FencedWaits
  <2>3. /\ gen'[launch[l].gen].phase = "quarantined"
        /\ \A h \in Gen : h # launch[l].gen => gen'[h].phase = gen[h].phase
    BY <2>1, <2>2 DEF RowsTyped, GenRow
  <2> QED
    BY <1>2, <2>1, <2>3
<1>4. CASE CompleteProbeStopped(l)
  <2>1. /\ launch[l].phase = "reconciling" /\ launch' = [Aged EXCEPT ![l].phase = "retired"]
        /\ gen' = [Checkpointed EXCEPT ![launch[l].gen].phase = "retired",
                                       ![launch[l].gen].launch = None]
    BY <1>4 DEF CompleteProbeStopped, Fenced
  <2>2. launch[l].gen \in Gen
    BY <2>1 DEF WriterInv, FencedWaits
  <2>3. /\ gen'[launch[l].gen].phase = "retired"
        /\ \A h \in Gen : h # launch[l].gen => gen'[h].phase = gen[h].phase
    BY <2>1, <2>2, Marks DEF GenRow
  <2> QED
    BY <1>2, <2>1, <2>3
<1> QED
  BY <1>1, <1>3, <1>4

LEMMA GenerationStepLinks ==
  ASSUME RowsTyped, WriterInv, LinkInv, NEW g \in Gen,
         RegisterGeneration(g) \/ RecordGenerationPreactivated(g) \/ RetireQuarantined(g)
  PROVE  LinkInv'
<1>1. launch' = launch
  BY DEF RegisterGeneration, RecordGenerationPreactivated, RetireQuarantined
<1>2. \A h \in Gen : h # g => gen'[h].phase = gen[h].phase
  BY DEF RegisterGeneration, RecordGenerationPreactivated, RetireQuarantined, RowsTyped
<1>3. CASE RegisterGeneration(g)
  <2>1. gen[g].phase = "none" /\ gen'[g].phase = "materializing"
    BY <1>3 DEF RegisterGeneration, RowsTyped, GenRow
  <2>2. \A l \in Launch : launch[l].gen # g
    BY <2>1, GenIsBorn
  <2> QED
    BY <1>1, <1>2, <2>1, <2>2, GenOnly
<1>4. CASE RecordGenerationPreactivated(g)
  <2>1. gen[g].phase = "materializing" /\ gen'[g].phase = "preactivated_readonly"
    BY <1>4 DEF RecordGenerationPreactivated, RowsTyped, GenRow
  <2>2. ASSUME NEW l \in Launch, launch[l].gen = g PROVE Linked(l)'
    <3>1. launch[l].phase = "preparing" /\ Linked(l)
      BY <2>1, <2>2, GenIsBorn DEF Unlaunched, LinkInv, Linked
    <3> QED
      BY <1>1, <2>1, <2>2, <3>1 DEF Linked, Unlaunched
  <2> QED
    BY <1>1, <1>2, <2>1, <2>2, GenOnly
<1>5. CASE RetireQuarantined(g)
  <2>1. gen[g].phase = "quarantined" /\ gen'[g].phase = "retired"
    BY <1>5 DEF RetireQuarantined, RowsTyped, GenRow
  <2>2. ASSUME NEW l \in Launch, launch[l].gen = g PROVE Linked(l)'
    <3>1. launch[l].phase = "retired" /\ Linked(l)
      BY <2>1, <2>2, GenIsBorn DEF LinkInv
    <3> QED
      BY <1>1, <2>1, <2>2, <3>1 DEF Linked
  <2> QED
    BY <1>1, <1>2, <2>1, <2>2, GenOnly
<1> QED
  BY <1>3, <1>4, <1>5

LEMMA LinkInit == Init => LinkInv
<1> SUFFICES ASSUME Init PROVE LinkInv
  OBVIOUS
<1>1. \A l \in Launch : /\ launch[l].phase = "none" /\ launch[l].gen = None
                        /\ launch[l].prep = "none" /\ launch[l].write = "none" /\ launch[l].epoch = 0
  BY DEF Init
<1>2. \A g \in Gen : gen[g].phase = "none"
  BY DEF Init
<1>3. \A l \in Launch : Linked(l)
  BY <1>1 DEF Linked
<1> QED
  BY <1>1, <1>2, <1>3, KernelAssumption DEF LinkInv, OwnGen, HasSource

LEMMA LinkNext == RowsTyped /\ WriterInv /\ LinkInv /\ [Next]_vars => LinkInv'
<1> SUFFICES ASSUME RowsTyped, WriterInv, LinkInv, [Next]_vars PROVE LinkInv'
  OBVIOUS
<1>1. ASSUME launch' \in {launch, Revised, Aged}, gen' \in {gen, Checkpointed} PROVE LinkInv'
  BY <1>1, Marks, MarksKeepLinks, LinksKept
<1>2. CASE UNCHANGED vars
  BY <1>1, <1>2 DEF vars
<1>3. CASE Journal
  <2>1. CASE CompleteEdit
    BY <2>1, SealLinks DEF CompleteEdit
  <2>2. CASE ~CompleteEdit
    <3>1. launch' \in {launch, Revised, Aged} /\ gen' \in {gen, Checkpointed}
      BY <1>3, <2>2 DEF Journal, PrepareModel, PrepareTool, DenyTool, ClaimInvocation,
         ReleaseInvocation, CompleteModel, CompleteRead, FailBeforeDispatch, FailWithoutRelease,
         MarkUnknown, AbandonUnknown
    <3> QED
      BY <1>1, <3>1
  <2> QED
    BY <2>1, <2>2
<1>4. CASE Worker
  <2>1. ASSUME NEW l \in Launch, LeaseExpires(l) PROVE LinkInv'
    <3>1. launch' = [launch EXCEPT ![l].leased = FALSE] /\ gen' = gen
      BY <2>1 DEF LeaseExpires
    <3>2. \A m \in Launch : LinkKept(m)
      BY <3>1 DEF LinkKept, RowsTyped, LaunchRow
    <3> QED
      BY <3>1, <3>2, LinksKept
  <2>2. CASE SealGeneration
    BY <2>2, SealLinks DEF SealGeneration
  <2>3. CASE BeginProbe \/ CloseProbe
    BY <1>1, <2>3 DEF BeginProbe, CloseProbe
  <2> QED
    BY <1>4, <2>1, <2>2, <2>3, PreparingLinks, GenerationLinks, ReserveLinks, ActivateLinks,
       WriteStateLinks, RetirePreparationLinks, RetirePreactivationLinks, RecoveryLinks,
       GenerationStepLinks DEF Worker
<1>5. CASE Cancel \/ Expire \/ StopForResource \/ StopForModelFailure \/ DeadlinePasses \/ Restart
  BY <1>1, <1>5 DEF Cancel, Expire, StopForResource, StopForModelFailure, DeriveStop,
                    DeadlinePasses, Restart
<1>6. CASE CommitTerminalStop
  <2>1. \/ Quiesced /\ launch' = SealedLaunch /\ gen' = SealedGen
        \/ launch' = Aged /\ gen' = Checkpointed
    BY <1>6 DEF CommitTerminalStop
  <2> QED
    BY <1>1, <2>1, SealLinks
<1> QED
  BY <1>2, <1>3, <1>4, <1>5, <1>6 DEF Next, Stop

-----------------------------------------------------------------------------
(* The steps of the journal, as the validators read it.                    *)

\* The last attempt of op turns into y.
Turned(op, y) ==
    /\ Len(att[op]) \in DOMAIN att[op] /\ LastAtt(op) \in Attempt
    /\ att' = [att EXCEPT ![op] = [att[op] EXCEPT ![Len(att[op])] = y]]

Claims(op, y) ==
    /\ LastAtt(op).phase = "prepared" /\ y.phase = "dispatch_claimed"
    /\ LastAtt(op).epoch = run.epoch /\ run.status = "running" /\ run' = run
Releases(op, y) ==
    /\ LastAtt(op).phase = "dispatch_claimed" /\ y.phase = "dispatch_claimed" /\ run' = run
Abandons(op, y) ==
    /\ LastAtt(op).phase = "unknown" /\ y.phase = "abandoned" /\ Kinds[op] = "edit" /\ run' = run
\* An outcome: a failure is free, and of a model call that was not released.
Settles(op, y) ==
    /\ LastAtt(op).phase \in {"prepared", "dispatch_claimed"}
    /\ y.phase \in {"completed", "unknown", "failed"}
    /\ y.phase # "failed" => LastAtt(op).phase = "dispatch_claimed"
    /\ y.phase = "failed" => Kinds[op] = "model" /\ ~y.released
    /\ y.claimed = LastAtt(op).claimed /\ y.released = LastAtt(op).released
    /\ run'.reserved = [run.reserved EXCEPT ![Counter(op)] = @ - 1]
    /\ run'.consumed = [run.consumed EXCEPT ![Counter(op)] = @ + IF y.phase = "failed" THEN 0 ELSE 1]

Grows(op) ==
    /\ att' = [att EXCEPT ![op] = Append(@, [phase |-> "prepared", claimed |-> FALSE,
                 released |-> FALSE, epoch |-> run.epoch, owner |-> 0])]
    /\ run.consumed[Counter(op)] + run.reserved[Counter(op)] + 1 <= Ceiling[Counter(op)]
    /\ run'.reserved = [run.reserved EXCEPT ![Counter(op)] = @ + 1]
    /\ run'.consumed = run.consumed

JournalStep ==
    \/ att' = att /\ run'.reserved = run.reserved /\ run'.consumed = run.consumed
    \/ \E op \in Op : Grows(op)
    \/ \E op \in Op, y \in Attempt :
         /\ Turned(op, y) /\ y.epoch = LastAtt(op).epoch
         /\ Claims(op, y) \/ Releases(op, y) \/ Abandons(op, y) \/ Settles(op, y)

\* The row after a settlement.
LEMMA ChargedRow ==
  ASSUME run \in RunRow, NEW op \in Op, NEW x \in {0, 1}
  PROVE  /\ Charged(op, x).reserved = [run.reserved EXCEPT ![Counter(op)] = @ - 1]
         /\ Charged(op, x).consumed = [run.consumed EXCEPT ![Counter(op)] = @ + x]
BY DEF Charged, RunRow

\* A settlement is one.
LEMMA SettlementSettles ==
  ASSUME RowsTyped, JournalInv, NEW op \in Op, NEW from \in {"prepared", "dispatch_claimed"},
         NEW to \in {"completed", "unknown", "failed"}, Settle(op, from, to),
         to # "failed" => from = "dispatch_claimed",
         to = "failed" => Kinds[op] = "model" /\ ~LastAtt(op).released,
         run'.reserved = [run.reserved EXCEPT ![Counter(op)] = @ - 1],
         run'.consumed = [run.consumed EXCEPT ![Counter(op)] = @ + IF to = "failed" THEN 0 ELSE 1]
  PROVE  JournalStep
<1>0. att \in [Op -> Seq(Attempt)] /\ LastPhase(op) = from
  BY DEF JournalInv, JournalTyped, Settle
<1> DEFINE x == LastAtt(op)
           y == [x EXCEPT !.phase = to]
<1>1. /\ Len(att[op]) \in DOMAIN att[op] /\ x \in Attempt /\ x.phase = from
      /\ x = att[op][Len(att[op])]
  BY <1>0, LastIsThere DEF LastAtt
<1>2. /\ y \in Attempt /\ y.epoch = x.epoch /\ y.phase = to
      /\ y.claimed = x.claimed /\ y.released = x.released
  BY <1>1 DEF Attempt
<1>3. att' = [att EXCEPT ![op] = [att[op] EXCEPT ![Len(att[op])] = y]]
  BY <1>1 DEF Settle
<1>4. Turned(op, y)
  BY <1>1, <1>3 DEF Turned
<1> HIDE DEF y
<1>5. Settles(op, y)
  BY <1>1, <1>2 DEF Settles
<1> QED
  BY <1>2, <1>4, <1>5 DEF JournalStep

LEMMA JournalForms ==
  ASSUME RowsTyped, WriterInv, JournalInv, Journal
  PROVE  /\ JournalStep
         /\ run'.epoch = run.epoch /\ (run'.status = run.status \/ CompleteEdit)
<1>0. /\ run \in RunRow /\ owner \in Nat /\ att \in [Op -> Seq(Attempt)]
  BY DEF RowsTyped, JournalInv, JournalTyped
<1>1. CASE PrepareModel \/ PrepareTool
  <2>1. run.next \in Op /\ Reserve(run.next)
    BY <1>1 DEF PrepareModel, PrepareTool, Front
  <2>2. /\ run'.reserved = [run.reserved EXCEPT ![Counter(run.next)] = @ + 1]
        /\ run'.consumed = run.consumed /\ run'.epoch = run.epoch /\ run'.status = run.status
    BY <1>0, <2>1 DEF Reserve, RunRow
  <2>3. Grows(run.next)
    BY <2>1, <2>2 DEF Grows, Reserve
  <2> QED
    BY <2>1, <2>2, <2>3 DEF JournalStep
<1>2. CASE DenyTool
  <2>1. att' = att
    BY <1>2 DEF DenyTool
  <2>2. /\ run'.reserved = run.reserved /\ run'.consumed = run.consumed
        /\ run'.epoch = run.epoch /\ run'.status = run.status
    BY <1>0, <1>2 DEF DenyTool, RunRow
  <2> QED
    BY <2>1, <2>2 DEF JournalStep
<1>3. CASE ClaimInvocation
  <2> DEFINE op == run.next
             x == LastAtt(op)
             y == [x EXCEPT !.phase = "dispatch_claimed", !.claimed = TRUE, !.owner = owner]
  <2>1. /\ op \in Op /\ LastPhase(op) = "prepared" /\ run' = run /\ x.epoch = run.epoch
        /\ att' = [att EXCEPT ![op] = [att[op] EXCEPT ![Len(att[op])] = y]]
        /\ run.status = "running"
    BY <1>3 DEF ClaimInvocation, LastAtt, LiveDispatch
  <2>2. x \in Attempt /\ Len(att[op]) \in DOMAIN att[op] /\ x.phase = "prepared"
    BY <1>0, <2>1, LastIsThere DEF LastAtt
  <2>3. y \in Attempt /\ y.epoch = x.epoch /\ y.phase = "dispatch_claimed"
    BY <1>0, <2>2 DEF Attempt
  <2>4. Turned(op, y)
    BY <2>1, <2>2 DEF Turned
  <2> HIDE DEF y
  <2>5. Claims(op, y)
    BY <2>1, <2>2, <2>3 DEF Claims
  <2> QED
    BY <2>1, <2>3, <2>4, <2>5 DEF JournalStep
<1>4. CASE ReleaseInvocation
  <2>1. PICK h \in handles :
          att' = IF Releasable(h) THEN [att EXCEPT ![h[1]][h[2]].released = TRUE] ELSE att
    BY <1>4 DEF ReleaseInvocation
  <2>2. run' = run
    BY <1>4 DEF ReleaseInvocation
  <2>3. CASE ~Releasable(h)
    BY <2>1, <2>2, <2>3 DEF JournalStep
  <2>4. CASE Releasable(h)
    <3> DEFINE op == run.next
               x == LastAtt(op)
               y == [x EXCEPT !.released = TRUE]
    <3>1. op = h[1] /\ h[2] = Len(att[op]) /\ x.phase = "dispatch_claimed"
      BY <2>4 DEF Releasable, LastAtt
    <3>2. op \in Op /\ Len(att[op]) # 0
      BY <3>1 DEF JournalInv, JournalTyped
    <3>3. LastPhase(op) = "dispatch_claimed"
      BY <1>0, <3>1, <3>2 DEF LastPhase
    <3>4. x \in Attempt /\ x = att[op][Len(att[op])] /\ Len(att[op]) \in DOMAIN att[op]
      BY <1>0, <3>2, <3>3, LastIsThere DEF LastAtt
    <3>5. att' = [att EXCEPT ![op] = [att[op] EXCEPT ![Len(att[op])] = y]]
      BY <2>1, <2>4, <3>1 DEF LastAtt
    <3>6. y \in Attempt /\ y.epoch = x.epoch /\ y.phase = "dispatch_claimed"
      BY <3>1, <3>4 DEF Attempt
    <3>7. Turned(op, y)
      BY <3>4, <3>5 DEF Turned
    <3> HIDE DEF y
    <3>8. Releases(op, y)
      BY <2>2, <3>1, <3>6 DEF Releases
    <3> QED
      BY <2>2, <3>2, <3>6, <3>7, <3>8 DEF JournalStep
  <2> QED
    BY <2>3, <2>4
<1>5. CASE AbandonUnknown
  <2>1. PICK op \in Op : ReplayClass(op) = "manual" /\ LastPhase(op) = "unknown"
                         /\ att' = [att EXCEPT ![op][Len(att[op])].phase = "abandoned"]
    BY <1>5 DEF AbandonUnknown
  <2>2. run' = run
    BY <1>5 DEF AbandonUnknown
  <2> DEFINE x == LastAtt(op)
             y == [x EXCEPT !.phase = "abandoned"]
  <2>3. /\ Len(att[op]) \in DOMAIN att[op] /\ x \in Attempt /\ x.phase = "unknown"
        /\ x = att[op][Len(att[op])]
    BY <1>0, <2>1, LastIsThere DEF LastAtt
  <2>4. y \in Attempt /\ y.epoch = x.epoch /\ y.phase = "abandoned"
    BY <2>3 DEF Attempt
  <2>5. Turned(op, y)
    BY <2>1, <2>3 DEF Turned
  <2> HIDE DEF y
  <2>6. Abandons(op, y)
    BY <2>1, <2>2, <2>3, <2>4 DEF Abandons, ReplayClass
  <2> QED
    BY <2>2, <2>4, <2>5, <2>6 DEF JournalStep
<1>6. CASE FailBeforeDispatch \/ FailWithoutRelease
  <2>1. PICK op \in Op, from \in {"prepared", "dispatch_claimed"} :
          /\ Kinds[op] = "model" /\ Settle(op, from, "failed") /\ run' = Charged(op, 0)
          /\ from = "prepared" \/ ~LastAtt(op).released
    BY <1>6 DEF FailBeforeDispatch, FailWithoutRelease
  <2>2. ~LastAtt(op).released
    <3>1. CASE from = "prepared"
      <4>1. /\ Len(att[op]) \in DOMAIN att[op] /\ att[op][Len(att[op])].phase = "prepared"
        BY <1>0, <2>1, <3>1, LastIsThere DEF Settle
      <4> QED
        BY <4>1 DEF JournalInv, Graph, LastAtt
    <3> QED
      BY <2>1, <3>1
  <2>3. /\ run'.reserved = [run.reserved EXCEPT ![Counter(op)] = @ - 1]
        /\ run'.consumed = [run.consumed EXCEPT ![Counter(op)] = @ + 0]
        /\ run'.epoch = run.epoch /\ run'.status = run.status
    BY <1>0, <2>1, ChargedRow, RunUpdates
  <2> QED
    BY <2>1, <2>2, <2>3, SettlementSettles
<1>7. CASE MarkUnknown
  <2>1. PICK op \in Op : Settle(op, "dispatch_claimed", "unknown") /\ run' = Charged(op, 1)
    BY <1>7 DEF MarkUnknown
  <2>2. /\ run'.reserved = [run.reserved EXCEPT ![Counter(op)] = @ - 1]
        /\ run'.consumed = [run.consumed EXCEPT ![Counter(op)] = @ + 1]
        /\ run'.epoch = run.epoch /\ run'.status = run.status
    BY <1>0, <2>1, ChargedRow, RunUpdates
  <2> QED
    BY <2>1, <2>2, SettlementSettles
<1>8. CASE CompleteModel \/ CompleteRead \/ CompleteEdit
  <2>1. run.next \in Op /\ Settle(run.next, "dispatch_claimed", "completed")
    BY <1>8 DEF CompleteModel, CompleteRead, CompleteEdit, Continues, Front
  <2>2. Charged(run.next, 1) \in RunRow
    BY <1>0, <2>1, RunUpdates
  <2>3. /\ run'.reserved = Charged(run.next, 1).reserved /\ run'.consumed = Charged(run.next, 1).consumed
        /\ run'.epoch = Charged(run.next, 1).epoch
        /\ run'.status = Charged(run.next, 1).status \/ CompleteEdit
    BY <1>8, <2>2 DEF CompleteModel, CompleteRead, CompleteEdit, RunRow
  <2>4. /\ run'.reserved = [run.reserved EXCEPT ![Counter(run.next)] = @ - 1]
        /\ run'.consumed = [run.consumed EXCEPT ![Counter(run.next)] = @ + 1]
        /\ run'.epoch = run.epoch /\ (run'.status = run.status \/ CompleteEdit)
    BY <1>0, <2>1, <2>3, ChargedRow, RunUpdates
  <2> QED
    BY <2>1, <2>4, SettlementSettles
<1> QED
  BY <1>1, <1>2, <1>3, <1>4, <1>5, <1>6, <1>7, <1>8 DEF Journal

-----------------------------------------------------------------------------
(* The history.                                                            *)

\* A retired generation stays what it is.
LEMMA RetiredStays ==
  ASSUME RowsTyped, WriterInv, LinkInv, Next, NEW g \in Gen, gen[g].phase = "retired"
  PROVE  gen'[g].phase = "retired" /\ gen'[g].epoch = gen[g].epoch
<1>1. ASSUME gen' \in {gen, Checkpointed} PROVE gen'[g].phase = "retired" /\ gen'[g].epoch = gen[g].epoch
  BY <1>1, Marks
<1>2. \A l \in Launch : launch[l].gen = g => launch[l].phase = "retired"
  BY GenIsBorn
<1>3. ASSUME NEW h \in Gen, h # g, \E r : gen' = [gen EXCEPT ![h] = r] \/ gen' = [Checkpointed EXCEPT ![h] = r]
      PROVE  gen'[g].phase = "retired" /\ gen'[g].epoch = gen[g].epoch
  BY <1>3, Marks DEF RowsTyped
<1>4. CASE Journal \/ CommitTerminalStop \/ SealGeneration
  <2>1. CASE gen' = SealedGen /\ Quiesced
    <3>1. PICK l \in Launch : l = run.active /\ launch[l].phase = "activated"
      BY <2>1, Fields DEF Quiesced
    <3>2. launch[l].gen \in Gen /\ launch[l].gen # g
      BY <1>2, <3>1 DEF WriterInv, ActivatedWrites
    <3> QED
      BY <1>3, <2>1, <3>1, <3>2 DEF SealedGen
  <2>2. gen' \in {gen, Checkpointed} \/ (gen' = SealedGen /\ Quiesced)
    BY <1>4 DEF Journal, PrepareModel, PrepareTool, DenyTool, ClaimInvocation, ReleaseInvocation,
         CompleteModel, CompleteRead, CompleteEdit, FailBeforeDispatch, FailWithoutRelease,
         MarkUnknown, AbandonUnknown, CommitTerminalStop, SealGeneration
  <2> QED
    BY <1>1, <2>1, <2>2
<1>5. ASSUME NEW l \in Launch, \/ BeginPreparation(l) \/ RecordPreparationController(l)
                               \/ RecordWorkerPreactivated(l) \/ LeaseExpires(l)
      PROVE  gen' = gen
  BY <1>5 DEF BeginPreparation, RecordPreparationController, RecordWorkerPreactivated, LeaseExpires
<1>6. ASSUME NEW l \in Launch, NEW h \in Gen, ReserveLaunch(l, h) \/ RecordPreparationGeneration(l, h)
      PROVE  gen'[g].phase = "retired" /\ gen'[g].epoch = gen[g].epoch
  <2>1. CASE ReserveLaunch(l, h)
    BY <1>1, <2>1 DEF ReserveLaunch
  <2>2. CASE RecordPreparationGeneration(l, h)
    BY <1>3, <2>2 DEF RecordPreparationGeneration
  <2> QED
    BY <1>6, <2>1, <2>2
<1>7. ASSUME NEW h \in Gen, \/ RegisterGeneration(h) \/ RecordGenerationPreactivated(h)
                            \/ RetireQuarantined(h)
      PROVE  gen'[g].phase = "retired" /\ gen'[g].epoch = gen[g].epoch
  <2>1. h # g
    BY <1>7 DEF RegisterGeneration, RecordGenerationPreactivated, RetireQuarantined
  <2>2. \A k \in Gen : k # h => gen'[k] = gen[k]
    BY <1>7 DEF RegisterGeneration, RecordGenerationPreactivated, RetireQuarantined, RowsTyped
  <2> QED
    BY <2>1, <2>2
<1>8. ASSUME NEW l \in Launch, \/ ActivateLease(l) \/ BeginRevocation(l) \/ BeginCheckpoint(l)
                               \/ RetirePreparation(l) \/ RetirePreactivation(l) \/ BeginRecovery(l)
                               \/ CompleteProbe(l) \/ CompleteProbeStopped(l)
      PROVE  gen'[g].phase = "retired" /\ gen'[g].epoch = gen[g].epoch
  <2>1. launch[l].phase \in {"preparing", "reserved", "preactivated", "activated", "reconciling"}
    BY <1>8 DEF ActivateLease, BeginRevocation, BeginCheckpoint, WriteState, RetirePreparation,
                Bindable, RetirePreactivation, BeginRecovery, CompleteProbe, CompleteProbeStopped, Fenced
  <2>2. launch[l].gen # g /\ launch[l].gen \in Gen \cup {None}
    BY <1>2, <2>1, Fields
  <2>3. gen' = gen \/ \E r : \/ gen' = [gen EXCEPT ![launch[l].gen] = r]
                             \/ gen' = [Checkpointed EXCEPT ![launch[l].gen] = r]
    <3>1. CASE ActivateLease(l) \/ RetirePreactivation(l) \/ BeginRecovery(l)
      BY <3>1 DEF ActivateLease, RetirePreactivation, BeginRecovery
    <3>2. CASE BeginRevocation(l) \/ BeginCheckpoint(l) \/ RetirePreparation(l)
      BY <3>2 DEF BeginRevocation, BeginCheckpoint, WriteState, RetirePreparation
    <3>3. CASE CompleteProbe(l)
      <4>1. gen' = [gen EXCEPT ![launch[l].gen].phase = "quarantined", ![launch[l].gen].launch = None]
        BY <3>3 DEF CompleteProbe
      <4>2. \A r, s : [[gen EXCEPT ![launch[l].gen] = r] EXCEPT ![launch[l].gen] = s]
                        = [gen EXCEPT ![launch[l].gen] = s]
        BY DEF RowsTyped
      <4> QED
        BY <4>1, <4>2, ZenonT(40)
    <3>4. CASE CompleteProbeStopped(l)
      <4>1. gen' = [Checkpointed EXCEPT ![launch[l].gen].phase = "retired",
                                        ![launch[l].gen].launch = None]
        BY <3>4 DEF CompleteProbeStopped
      <4>2. \A r, s : [[Checkpointed EXCEPT ![launch[l].gen] = r] EXCEPT ![launch[l].gen] = s]
                        = [Checkpointed EXCEPT ![launch[l].gen] = s]
        BY Marks
      <4> QED
        BY <4>1, <4>2, ZenonT(40)
    <3> QED
      BY <1>8, <3>1, <3>2, <3>3, <3>4
  <2> QED
    BY <2>2, <2>3, Marks DEF RowsTyped
<1>9. CASE BeginProbe \/ CloseProbe
  BY <1>9 DEF BeginProbe, CloseProbe
<1>10. CASE Cancel \/ Expire \/ StopForResource \/ StopForModelFailure \/ DeadlinePasses \/ Restart
  BY <1>10 DEF Cancel, Expire, StopForResource, StopForModelFailure, DeriveStop,
               DeadlinePasses, Restart
<1> QED
  BY <1>4, <1>5, <1>6, <1>7, <1>8, <1>9, <1>10 DEF Next, Worker, Stop

\* What an edit that is open, or was lost, becomes in a step that leaves the
\* attempts: the Run keeps its epoch and a status under which it may be open.
LEMMA SameHistory ==
  ASSUME HistoryInv, att' = att, run'.epoch = run.epoch,
         run'.status \in {run.status, "waiting"},
         \A g \in Gen : gen[g].phase = "retired" => gen'[g].phase = "retired" /\ gen'[g].epoch = gen[g].epoch
  PROVE  HistoryInv'
<1>1. Unreleased'
  BY DEF HistoryInv, Unreleased
<1>2. OpenEdits'
  BY DEF HistoryInv, OpenEdits
<1>3. LostEdits'
  BY DEF HistoryInv, LostEdits
<1> QED
  BY <1>1, <1>2, <1>3 DEF HistoryInv

\* The same when no edit is open.
LEMMA NoneOpenHistory ==
  ASSUME HistoryInv, att' = att,
         \A op \in Op : \A i \in DOMAIN att[op] :
           Kinds[op] = "edit" => att[op][i].phase \notin {"dispatch_claimed", "unknown"},
         \A g \in Gen : gen[g].phase = "retired" => gen'[g].phase = "retired" /\ gen'[g].epoch = gen[g].epoch
  PROVE  HistoryInv'
<1>1. Unreleased'
  BY DEF HistoryInv, Unreleased
<1>2. OpenEdits'
  BY DEF OpenEdits
<1>3. LostEdits'
  BY DEF HistoryInv, LostEdits
<1> QED
  BY <1>1, <1>2, <1>3 DEF HistoryInv

LEMMA JournalKeepsHistory ==
  ASSUME RowsTyped, WriterInv, JournalInv, JournalInv', LinkInv, HistoryInv, Journal
  PROVE  HistoryInv'
<1>1. \A g \in Gen : gen[g].phase = "retired" => gen'[g].phase = "retired" /\ gen'[g].epoch = gen[g].epoch
  BY RetiredStays DEF Next
<1>2. /\ JournalStep /\ run'.epoch = run.epoch /\ (run'.status = run.status \/ CompleteEdit)
      /\ att \in [Op -> Seq(Attempt)] /\ run.epoch \in Nat
  BY JournalForms, Fields DEF JournalInv, JournalTyped
\* Before a CompleteEdit every other edit is completed, and after it this one is.
<1>3. ASSUME CompleteEdit, NEW op \in Op, NEW i \in DOMAIN att'[op], Kinds[op] = "edit"
      PROVE  att'[op][i].phase = "completed"
  <2>1. /\ run.next \in Op /\ Settle(run.next, "dispatch_claimed", "completed")
    BY <1>3 DEF CompleteEdit, Continues, Front
  <2>2. run'.next = run.next + 1 /\ run.next \in Nat /\ op \in Nat
    <3>1. Charged(run.next, 1) \in RunRow /\ Charged(run.next, 1).next = run.next
      BY <2>1, RunUpdates DEF RowsTyped
    <3> QED
      BY <1>3, <2>1, <3>1 DEF CompleteEdit, RunRow, Op
  <2>3. CASE op < run'.next
    BY <1>3, <2>3 DEF JournalInv, InOrder
  <2>4. CASE op >= run'.next
    <3>1. op > run.next /\ op # run.next
      BY <2>2, <2>4
    <3>2. att[op] = <<>> /\ att'[op] = att[op]
      BY <1>2, <2>1, <3>1 DEF JournalInv, InOrder, Settle
    <3> QED
      BY <1>3, <3>2
  <2> QED
    BY <2>2, <2>3, <2>4
<1>4. ASSUME Unreleased', LostEdits',
             run'.status = run.status => OpenEdits'
      PROVE  HistoryInv'
  <2>1. CompleteEdit => OpenEdits'
    BY <1>3 DEF OpenEdits
  <2> QED
    BY <1>2, <1>4, <2>1 DEF HistoryInv
<1>5. CASE att' = att
  <2>1. Unreleased' /\ LostEdits'
    BY <1>1, <1>5 DEF HistoryInv, Unreleased, LostEdits
  <2>2. run'.status = run.status => OpenEdits'
    BY <1>2, <1>5 DEF HistoryInv, OpenEdits
  <2> QED
    BY <1>4, <2>1, <2>2
<1>6. ASSUME NEW op \in Op, Grows(op) PROVE HistoryInv'
  <2> DEFINE y == [phase |-> "prepared", claimed |-> FALSE, released |-> FALSE,
                   epoch |-> run.epoch, owner |-> 0]
  <2>1. y \in Attempt /\ y.phase = "prepared"
    BY <1>2 DEF Attempt
  <2>2. att' = [att EXCEPT ![op] = Append(@, y)]
    BY <1>6 DEF Grows
  <2> HIDE DEF y
  <2>3. \A o \in Op : \A i \in DOMAIN att'[o] :
          \/ i \in DOMAIN att[o] /\ att'[o][i] = att[o][i]
          \/ att'[o][i].phase = "prepared"
    BY <1>2, <2>1, <2>2, Added
  <2>4. Unreleased' /\ LostEdits'
    BY <1>1, <2>3 DEF HistoryInv, Unreleased, LostEdits
  <2>5. run'.status = run.status => OpenEdits'
    BY <1>2, <2>3 DEF HistoryInv, OpenEdits
  <2> QED
    BY <1>4, <2>4, <2>5
<1>7. ASSUME NEW op \in Op, NEW y \in Attempt, Turned(op, y), y.epoch = LastAtt(op).epoch,
             Claims(op, y) \/ Releases(op, y) \/ Abandons(op, y) \/ Settles(op, y)
      PROVE  HistoryInv'
  <2>1. PICK n \in DOMAIN att[op] : n = Len(att[op])
    BY <1>7 DEF Turned
  <2>2. att' = [att EXCEPT ![op] = [att[op] EXCEPT ![n] = y]] /\ LastAtt(op) = att[op][n]
    BY <1>7, <2>1 DEF Turned, LastAtt
  <2>3. /\ att'[op][n] = y
        /\ \A o \in Op : DOMAIN att'[o] = DOMAIN att[o]
        /\ \A o \in Op : \A j \in DOMAIN att[o] : o # op \/ j # n => att'[o][j] = att[o][j]
    BY <1>2, <2>2, Changed
  <2>4. y.phase = "failed" => Kinds[op] = "model" /\ ~y.released
    BY <1>7 DEF Claims, Releases, Abandons, Settles
  <2>5. ASSUME Kinds[op] = "edit", y.phase \in {"dispatch_claimed", "unknown"}
        PROVE  y.epoch = run.epoch /\ run.status \in {"running", "waiting"}
    <3>1. CASE Claims(op, y)
      BY <1>7, <3>1 DEF Claims
    <3>2. CASE ~Claims(op, y)
      <4>1. att[op][n].phase = "dispatch_claimed"
        BY <1>7, <2>2, <2>5, <3>2 DEF Releases, Abandons, Settles
      <4> QED
        BY <1>7, <2>2, <2>5, <4>1 DEF HistoryInv, OpenEdits
    <3> QED
      BY <3>1, <3>2
  <2>6. Unreleased'
    BY <2>3, <2>4 DEF HistoryInv, Unreleased
  <2>7. LostEdits'
    <3> SUFFICES ASSUME NEW o \in Op, NEW i \in DOMAIN att'[o], Kinds[o] = "edit",
                        att'[o][i].phase = "failed", att'[o][i].claimed
                 PROVE  \E g \in Gen : gen'[g].phase = "retired" /\ gen'[g].epoch = att'[o][i].epoch
      BY DEF LostEdits
    <3>1. att'[o][i] = att[o][i] /\ i \in DOMAIN att[o]
      BY <2>3, <2>4
    <3> QED
      BY <1>1, <3>1 DEF HistoryInv, LostEdits
  <2>8. run'.status = run.status => OpenEdits'
    <3> SUFFICES ASSUME run'.status = run.status, NEW o \in Op, NEW i \in DOMAIN att'[o],
                        Kinds[o] = "edit", att'[o][i].phase \in {"dispatch_claimed", "unknown"}
                 PROVE  att'[o][i].epoch = run'.epoch /\ run'.status \in {"running", "waiting"}
      BY DEF OpenEdits
    <3>1. CASE o = op /\ i = n
      BY <1>2, <2>3, <2>5, <3>1
    <3>2. CASE o # op \/ i # n
      BY <1>2, <2>3, <3>2 DEF HistoryInv, OpenEdits
    <3> QED
      BY <3>1, <3>2
  <2> QED
    BY <1>4, <2>6, <2>7, <2>8
<1> QED
  BY <1>2, <1>5, <1>6, <1>7 DEF JournalStep

\* The refund of commitTerminalStop, with the edits that are rolled back.
LEMMA RefundHistory ==
  ASSUME JournalInv, HistoryInv, NEW rollback,
         \A a \in rollback : a \in Attempts /\ Phase(a) = "unknown" /\ Kinds[a[1]] = "edit",
         \A a \in Attempts \ rollback : Closable(a),
         att' = Refunded(rollback), run'.next = run.next, handles' = handles, owner' = owner,
         \A g \in Gen : gen[g].phase = "retired" => gen'[g].phase = "retired" /\ gen'[g].epoch = gen[g].epoch,
         rollback # {} => \E g \in Gen : gen'[g].phase = "retired" /\ gen'[g].epoch = run.epoch
  PROVE  HistoryInv'
<1>1. /\ \A o \in Op : DOMAIN att'[o] = DOMAIN att[o]
      /\ \A o \in Op : \A i \in DOMAIN att[o] :
           IF att[o][i].phase = "prepared" \/ <<o, i>> \in rollback
           THEN att'[o][i] = [att[o][i] EXCEPT !.phase = "failed"]
           ELSE att'[o][i] = att[o][i]
  BY RefundKeepsJournal
<1>2. \A o \in Op : \A i \in DOMAIN att[o] : att[o][i] \in Attempt
  BY DEF JournalInv, JournalTyped
<1>3. Unreleased'
  <2> SUFFICES ASSUME NEW o \in Op, NEW i \in DOMAIN att'[o], Kinds[o] = "model",
                      att'[o][i].phase = "failed", att'[o][i].claimed
               PROVE  ~att'[o][i].released
    BY DEF Unreleased
  <2>1. i \in DOMAIN att[o] /\ <<o, i>> \notin rollback
    BY <1>1
  <2>2. CASE att[o][i].phase = "prepared"
    <3>1. ~att[o][i].claimed
      BY <2>1, <2>2 DEF JournalInv, Graph
    <3>2. att'[o][i] = [att[o][i] EXCEPT !.phase = "failed"] /\ att[o][i] \in Attempt
      BY <1>1, <1>2, <2>1, <2>2
    <3>3. att'[o][i].claimed = att[o][i].claimed
      BY <3>2 DEF Attempt
    <3> QED
      BY <3>1, <3>3
  <2>3. CASE att[o][i].phase # "prepared"
    BY <1>1, <2>1, <2>3 DEF HistoryInv, Unreleased
  <2> QED
    BY <2>2, <2>3
<1>4. OpenEdits'
  <2> SUFFICES ASSUME NEW o \in Op, NEW i \in DOMAIN att'[o], Kinds[o] = "edit",
                      att'[o][i].phase \in {"dispatch_claimed", "unknown"}
               PROVE  FALSE
    BY DEF OpenEdits
  <2>1. i \in DOMAIN att[o] /\ att[o][i] \in Attempt
    BY <1>1, <1>2
  <2>2. CASE att[o][i].phase = "prepared" \/ <<o, i>> \in rollback
    BY <1>1, <2>1, <2>2 DEF Attempt
  <2>3. CASE att[o][i].phase # "prepared" /\ <<o, i>> \notin rollback
    <3>1. Closable(<<o, i>>) /\ att'[o][i] = att[o][i]
      BY <1>1, <2>1, <2>3, AttemptsArePairs
    <3> QED
      BY <3>1 DEF Closable, ModelUnknown, Phase
  <2> QED
    BY <2>2, <2>3
<1>5. LostEdits'
  <2> SUFFICES ASSUME NEW o \in Op, NEW i \in DOMAIN att'[o], Kinds[o] = "edit",
                      att'[o][i].phase = "failed", att'[o][i].claimed
               PROVE  \E g \in Gen : gen'[g].phase = "retired" /\ gen'[g].epoch = att'[o][i].epoch
    BY DEF LostEdits
  <2>1. i \in DOMAIN att[o] /\ att[o][i] \in Attempt
    BY <1>1, <1>2
  <2>2. CASE <<o, i>> \in rollback
    <3>1. att[o][i].phase = "unknown" /\ att'[o][i].epoch = att[o][i].epoch
      BY <1>1, <2>1, <2>2 DEF Attempt, Phase
    <3>2. att[o][i].epoch = run.epoch
      BY <2>1, <3>1 DEF HistoryInv, OpenEdits
    <3> QED
      BY <2>2, <3>1, <3>2
  <2>3. CASE att[o][i].phase = "prepared" /\ <<o, i>> \notin rollback
    <3>1. ~att[o][i].claimed
      BY <2>1, <2>3 DEF JournalInv, Graph
    <3>2. att'[o][i].claimed = att[o][i].claimed
      BY <1>1, <2>1, <2>3 DEF Attempt
    <3> QED
      BY <3>1, <3>2
  <2>4. CASE att[o][i].phase # "prepared" /\ <<o, i>> \notin rollback
    <3>1. att'[o][i] = att[o][i]
      BY <1>1, <2>1, <2>4
    <3> QED
      BY <2>1, <3>1 DEF HistoryInv, LostEdits
  <2> QED
    BY <2>2, <2>3, <2>4
<1> QED
  BY <1>3, <1>4, <1>5 DEF HistoryInv

LEMMA WorkerKeepsHistory ==
  ASSUME RowsTyped, WriterInv, JournalInv, LinkInv, HistoryInv, Worker
  PROVE  HistoryInv'
<1>0. /\ run \in RunRow
      /\ \A g \in Gen : gen[g].phase = "retired" => gen'[g].phase = "retired" /\ gen'[g].epoch = gen[g].epoch
  BY RetiredStays DEF Next, RowsTyped
<1>1. ASSUME NEW l \in Launch, \/ BeginPreparation(l) \/ RecordPreparationController(l)
                               \/ RecordWorkerPreactivated(l) \/ RetirePreparation(l)
                               \/ LeaseExpires(l) \/ RetirePreactivation(l)
                               \/ BeginRevocation(l) \/ BeginCheckpoint(l)
      PROVE  att' = att /\ run' = run
  BY <1>1 DEF BeginPreparation, RecordPreparationController, RecordWorkerPreactivated,
              RetirePreparation, LeaseExpires, RetirePreactivation, BeginRevocation,
              BeginCheckpoint, WriteState
<1>2. ASSUME NEW l \in Launch, NEW g \in Gen,
             RecordPreparationGeneration(l, g) \/ ReserveLaunch(l, g)
      PROVE  att' = att /\ run' = run
  BY <1>2 DEF RecordPreparationGeneration, ReserveLaunch
<1>3. ASSUME NEW g \in Gen, \/ RegisterGeneration(g) \/ RecordGenerationPreactivated(g)
                            \/ RetireQuarantined(g)
      PROVE  att' = att /\ run' = run
  BY <1>3 DEF RegisterGeneration, RecordGenerationPreactivated, RetireQuarantined
<1>4. ASSUME att' = att, run' = run PROVE HistoryInv'
  BY <1>0, <1>4, SameHistory
<1>5. ASSUME NEW l \in Launch, ActivateLease(l) PROVE HistoryInv'
  <2>1. att' = att /\ run.status = "queued"
    BY <1>5 DEF ActivateLease, CanActivate
  <2>2. \A op \in Op : \A i \in DOMAIN att[op] :
          Kinds[op] = "edit" => att[op][i].phase \notin {"dispatch_claimed", "unknown"}
    BY <2>1 DEF HistoryInv, OpenEdits
  <2> QED
    BY <1>0, <2>1, <2>2, NoneOpenHistory
<1>6. ASSUME NEW l \in Launch, BeginRecovery(l) PROVE HistoryInv'
  <2>1. att' = att /\ run'.epoch = run.epoch /\ run'.status = "waiting"
    BY <1>0, <1>6 DEF BeginRecovery, RunRow
  <2> QED
    BY <1>0, <2>1, SameHistory
<1>7. ASSUME NEW l \in Launch, CompleteProbe(l) PROVE HistoryInv'
  <2>1. att' = att /\ \A a \in Open : ModelUnknown(a)
    BY <1>7 DEF CompleteProbe
  <2>2. ASSUME NEW op \in Op, NEW i \in DOMAIN att[op], Kinds[op] = "edit",
               att[op][i].phase \in {"dispatch_claimed", "unknown"}
        PROVE  FALSE
    <3>1. <<op, i>> \in Open
      BY <2>2, AttemptsArePairs DEF Open, Phase
    <3> QED
      BY <2>1, <2>2, <3>1 DEF ModelUnknown
  <2> QED
    BY <1>0, <2>1, <2>2, NoneOpenHistory
<1>8. CASE SealGeneration
  <2>1. att' = att /\ \A a \in Attempts : Kinds[a[1]] # "model" /\ att[a[1]][a[2]].claimed
                                          => Phase(a) = "completed"
    BY <1>8 DEF SealGeneration
  <2>2. ASSUME NEW op \in Op, NEW i \in DOMAIN att[op], Kinds[op] = "edit",
               att[op][i].phase \in {"dispatch_claimed", "unknown"}
        PROVE  FALSE
    <3>1. <<op, i>> \in Attempts /\ att[op][i].claimed
      BY <2>2, AttemptsArePairs DEF JournalInv, Graph
    <3> QED
      BY <2>1, <2>2, <3>1 DEF Phase
  <2> QED
    BY <1>0, <2>1, <2>2, NoneOpenHistory
<1>9. CASE BeginProbe \/ CloseProbe
  BY <1>4, <1>9 DEF BeginProbe, CloseProbe
<1>10. ASSUME NEW l \in Launch, CompleteProbeStopped(l) PROVE HistoryInv'
  <2>1. /\ att' = Refunded(RolledBack) /\ handles' = handles /\ owner' = owner /\ run'.next = run.next
        /\ \A a \in Attempts \ RolledBack : Closable(a)
        /\ launch[l].phase = "reconciling"
        /\ gen' = [Checkpointed EXCEPT ![launch[l].gen].phase = "retired",
                                       ![launch[l].gen].launch = None]
    BY <1>0, <1>10 DEF CompleteProbeStopped, Fenced, TerminalRun, RunRow
  <2>2. \A a \in RolledBack : a \in Attempts /\ Phase(a) = "unknown" /\ Kinds[a[1]] = "edit"
    BY DEF RolledBack, Open, ReplayClass
  <2>3. launch[l].gen \in Gen /\ gen[launch[l].gen].epoch = run.epoch
    BY <2>1 DEF WriterInv, FencedWaits
  <2>4. gen'[launch[l].gen].phase = "retired" /\ gen'[launch[l].gen].epoch = run.epoch
    BY <2>1, <2>3, Marks DEF GenRow
  <2> QED
    BY <1>0, <2>1, <2>2, <2>3, <2>4, RefundHistory
<1> QED
  BY <1>1, <1>2, <1>3, <1>4, <1>5, <1>6, <1>7, <1>8, <1>9, <1>10 DEF Worker

LEMMA StopKeepsHistory ==
  ASSUME RowsTyped, WriterInv, JournalInv, LinkInv, HistoryInv, Stop \/ DeadlinePasses \/ Restart
  PROVE  HistoryInv'
<1>0. /\ run \in RunRow
      /\ \A g \in Gen : gen[g].phase = "retired" => gen'[g].phase = "retired" /\ gen'[g].epoch = gen[g].epoch
  BY RetiredStays DEF Next, RowsTyped
<1>1. CASE Cancel \/ Expire \/ StopForResource \/ StopForModelFailure \/ DeadlinePasses \/ Restart
  <2>1. att' = att
    BY <1>1 DEF Cancel, Expire, StopForResource, StopForModelFailure, DeriveStop, DeadlinePasses, Restart
  <2>2. run'.epoch = run.epoch /\ run'.status = run.status
    BY <1>0, <1>1 DEF Cancel, Expire, StopForResource, StopForModelFailure, DeriveStop,
                      DeadlinePasses, Restart, RunRow
  <2> QED
    BY <1>0, <2>1, <2>2, SameHistory
<1>2. CASE CommitTerminalStop
  <2>1. /\ att' = Refunded({}) /\ handles' = handles /\ owner' = owner /\ run'.next = run.next
        /\ \A a \in Attempts : Closable(a)
    BY <1>0, <1>2 DEF CommitTerminalStop, TerminalRun, RunRow
  <2>2. PICK none : none = {}
    OBVIOUS
  <2>3. /\ att' = Refunded(none) /\ \A a \in Attempts \ none : Closable(a)
        /\ \A a \in none : a \in Attempts /\ Phase(a) = "unknown" /\ Kinds[a[1]] = "edit"
    BY <2>1, <2>2
  <2> QED
    BY <1>0, <2>1, <2>2, <2>3, RefundHistory
<1> QED
  BY <1>1, <1>2 DEF Stop

-----------------------------------------------------------------------------
(* The inspections, and what an ended Run leaves.                          *)

LEMMA ProbeInit == Init => ProbeInv
<1> SUFFICES ASSUME Init PROVE ProbeInv
  OBVIOUS
<1>1. /\ probe = [phase |-> "none", count |-> 0, owner |-> 0] /\ owner = 1 /\ run.status = "queued"
  BY DEF Init
<1>2. probe \in [phase : {"none", "pending", "in_flight", "exhausted"},
                 count : 0 .. ProbeLimit, owner : Nat]
  BY <1>1, KernelAssumption
<1> QED
  BY <1>1, <1>2, KernelAssumption DEF ProbeInv

LEMMA ProbeNext ==
  RowsTyped /\ WriterInv /\ JournalInv /\ ProbeInv /\ [Next]_vars => ProbeInv'
<1> SUFFICES ASSUME RowsTyped, WriterInv, JournalInv, ProbeInv, [Next]_vars PROVE ProbeInv'
  OBVIOUS
<1> DEFINE ProbeRow == [phase : {"none", "pending", "in_flight", "exhausted"},
                        count : 0 .. ProbeLimit, owner : Nat]
<1>0. /\ run \in RunRow /\ MaxOwner \in Nat /\ ProbeLimit \in Nat \ {0} /\ owner \in 1 .. MaxOwner
      /\ probe \in ProbeRow
  BY KernelAssumption DEF RowsTyped, ProbeInv
<1>1. ASSUME probe' = probe, run'.status = "waiting" => run.status = "waiting", owner' = owner
      PROVE  ProbeInv'
  BY <1>1 DEF ProbeInv, validateWorkerProbeState
<1>2. CASE UNCHANGED vars
  BY <1>1, <1>2 DEF vars
<1>3. CASE Journal
  <2>1. probe' = probe /\ owner' = owner
    BY <1>3 DEF Journal, PrepareModel, PrepareTool, DenyTool, ClaimInvocation, ReleaseInvocation,
         CompleteModel, CompleteRead, CompleteEdit, FailBeforeDispatch, FailWithoutRelease,
         MarkUnknown, AbandonUnknown
  <2>2. CASE CompleteEdit
    <3>1. run.next \in Op
      BY <2>2 DEF CompleteEdit, Continues, Front
    <3>2. Charged(run.next, 1) \in RunRow
      BY <1>0, <3>1, RunUpdates
    <3>3. run'.status = "queued"
      BY <2>2, <3>2 DEF CompleteEdit, RunRow
    <3> QED
      BY <1>1, <2>1, <3>3
  <2>3. CASE ~CompleteEdit
    <3>1. run'.status = run.status
      BY <1>3, <2>3, JournalForms
    <3> QED
      BY <1>1, <2>1, <3>1
  <2> QED
    BY <2>2, <2>3
<1>4. CASE Worker
  <2>1. ASSUME NEW l \in Launch, \/ BeginPreparation(l) \/ RecordPreparationController(l)
                                 \/ RecordWorkerPreactivated(l) \/ RetirePreparation(l)
                                 \/ LeaseExpires(l) \/ RetirePreactivation(l)
                                 \/ BeginRevocation(l) \/ BeginCheckpoint(l)
        PROVE  probe' = probe /\ run' = run /\ owner' = owner
    BY <2>1 DEF BeginPreparation, RecordPreparationController, RecordWorkerPreactivated,
                RetirePreparation, LeaseExpires, RetirePreactivation, BeginRevocation,
                BeginCheckpoint, WriteState
  <2>2. ASSUME NEW l \in Launch, NEW g \in Gen,
               RecordPreparationGeneration(l, g) \/ ReserveLaunch(l, g)
        PROVE  probe' = probe /\ run' = run /\ owner' = owner
    BY <2>2 DEF RecordPreparationGeneration, ReserveLaunch
  <2>3. ASSUME NEW g \in Gen, \/ RegisterGeneration(g) \/ RecordGenerationPreactivated(g)
                              \/ RetireQuarantined(g)
        PROVE  probe' = probe /\ run' = run /\ owner' = owner
    BY <2>3 DEF RegisterGeneration, RecordGenerationPreactivated, RetireQuarantined
  <2>4. ASSUME NEW l \in Launch, ActivateLease(l)
        PROVE  probe' = probe /\ run'.status = "running" /\ owner' = owner
    BY <1>0, <2>4 DEF ActivateLease, RunRow
  <2>5. CASE SealGeneration
    BY <1>0, <1>1, <2>5 DEF SealGeneration, RunRow
  <2>6. ASSUME probe' = [phase |-> "none", count |-> 0, owner |-> 0], run'.status # "waiting",
               owner' = owner
        PROVE  ProbeInv'
    <3>1. probe' \in ProbeRow
      BY <1>0, <2>6
    <3> QED
      BY <1>0, <2>6, <3>1 DEF ProbeInv
  <2>7. ASSUME NEW l \in Launch, CompleteProbe(l) \/ CompleteProbeStopped(l)
        PROVE  ProbeInv'
    <3>1. probe' = [phase |-> "none", count |-> 0, owner |-> 0] /\ owner' = owner
      BY <2>7 DEF CompleteProbe, CompleteProbeStopped, Inspected
    <3>2. run'.status # "waiting"
      <4>1. CASE CompleteProbe(l)
        BY <1>0, <4>1 DEF CompleteProbe, RunRow
      <4>2. CASE CompleteProbeStopped(l)
        BY <1>0, <4>2, TerminalTyped DEF CompleteProbeStopped, Terminal
      <4> QED
        BY <2>7, <4>1, <4>2
    <3> QED
      BY <2>6, <3>1, <3>2
  <2>8. ASSUME NEW l \in Launch, BeginRecovery(l) PROVE ProbeInv'
    <3>1. probe' = [phase |-> "pending", count |-> 0, owner |-> 0] /\ owner' = owner
      BY <2>8 DEF BeginRecovery
    <3>2. probe' \in ProbeRow /\ validateWorkerProbeState'
      BY <1>0, <3>1 DEF validateWorkerProbeState
    <3> QED
      BY <1>0, <3>1, <3>2 DEF ProbeInv
  <2>9. CASE BeginProbe
    <3>1. /\ probe' = [phase |-> "in_flight", count |-> probe.count + 1, owner |-> owner]
          /\ owner' = owner /\ probe.phase = "pending" /\ run.status = "waiting"
      BY <2>9 DEF BeginProbe
    <3>2. probe.count < ProbeLimit
      BY <3>1 DEF ProbeInv, validateWorkerProbeState
    <3>3. probe.count + 1 \in 0 .. ProbeLimit /\ probe.count + 1 > 0 /\ owner \in 1 .. owner /\ owner \in Nat
      BY <1>0, <3>2
    <3>4. probe' \in ProbeRow /\ validateWorkerProbeState'
      BY <3>1, <3>3 DEF validateWorkerProbeState
    <3> QED
      BY <1>0, <3>1, <3>4 DEF ProbeInv
  <2>10. CASE CloseProbe
    <3>1. /\ probe' = [phase |-> IF probe.count = ProbeLimit THEN "exhausted" ELSE "pending",
                       count |-> probe.count, owner |-> 0]
          /\ owner' = owner
      BY <2>10 DEF CloseProbe
    <3>2. probe.count \in 0 .. ProbeLimit /\ (probe.count # ProbeLimit => probe.count < ProbeLimit)
      BY <1>0
    <3>3. probe' \in ProbeRow /\ validateWorkerProbeState'
      BY <3>1, <3>2 DEF validateWorkerProbeState
    <3> QED
      BY <1>0, <3>1, <3>3 DEF ProbeInv
  <2> QED
    BY <1>1, <1>4, <2>1, <2>2, <2>3, <2>4, <2>5, <2>7, <2>8, <2>9, <2>10 DEF Worker
<1>5. CASE Cancel \/ Expire \/ StopForResource \/ StopForModelFailure \/ DeadlinePasses
  <2>1. probe' = probe /\ owner' = owner
    BY <1>5 DEF Cancel, Expire, StopForResource, StopForModelFailure, DeriveStop, DeadlinePasses
  <2>2. run'.status = run.status
    BY <1>0, <1>5 DEF Cancel, Expire, StopForResource, StopForModelFailure, DeriveStop,
                      DeadlinePasses, RunRow
  <2> QED
    BY <1>1, <2>1, <2>2
<1>6. CASE CommitTerminalStop
  <2>1. probe' = probe /\ owner' = owner /\ run' = TerminalRun
    BY <1>6 DEF CommitTerminalStop
  <2>2. run'.status # "waiting"
    BY <1>0, <2>1, TerminalTyped DEF Terminal
  <2> QED
    BY <1>1, <2>1, <2>2
<1>7. CASE Restart
  <2>1. probe' = probe /\ owner' = owner + 1 /\ run' = run /\ owner < MaxOwner
    BY <1>7 DEF Restart
  <2>2. owner' \in 1 .. MaxOwner
    BY <1>0, <2>1
  <2>3. validateWorkerProbeState => validateWorkerProbeState'
    <3>1. \A x \in 1 .. owner : x \in 1 .. (owner + 1)
      BY <1>0
    <3> QED
      BY <2>1, <3>1 DEF validateWorkerProbeState
  <2> QED
    BY <2>1, <2>2, <2>3 DEF ProbeInv
<1> QED
  BY <1>2, <1>3, <1>4, <1>5, <1>6, <1>7 DEF Next, Stop

\* The commit that ends the Run.
LEMMA EndIsResolved ==
  ASSUME RowsTyped, JournalInv, NEW rollback,
         \A a \in rollback : a \in Attempts /\ Phase(a) = "unknown",
         \A a \in Attempts \ rollback : Closable(a), Stopping,
         att' = Refunded(rollback), run' = TerminalRun, handles' = handles, owner' = owner
  PROVE  Resolved'
<1>1. run'.stop # None /\ run'.next = run.next
  <2>1. run \in RunRow
    BY DEF RowsTyped
  <2> QED
    BY <2>1 DEF Stopping, TerminalRun, RunRow
<1>2. ASSUME NEW op \in Op, NEW i \in DOMAIN att'[op]
      PROVE  \/ att'[op][i].phase \in {"completed", "failed"}
             \/ /\ Kinds[op] = "model" /\ att'[op][i].phase = "unknown"
                /\ att'[op][i].owner < owner'
  <2>1. /\ i \in DOMAIN att[op]
        /\ IF att[op][i].phase = "prepared" \/ <<op, i>> \in rollback
           THEN att'[op][i] = [att[op][i] EXCEPT !.phase = "failed"]
           ELSE att'[op][i] = att[op][i]
    BY <1>1, <1>2, RefundKeepsJournal
  <2>2. att[op][i] \in Attempt
    BY <2>1 DEF JournalInv, JournalTyped
  <2>3. CASE att[op][i].phase = "prepared" \/ <<op, i>> \in rollback
    BY <2>1, <2>2, <2>3 DEF Attempt
  <2>4. CASE att[op][i].phase # "prepared" /\ <<op, i>> \notin rollback
    <3>1. Closable(<<op, i>>)
      BY <2>1, <2>4, AttemptsArePairs
    <3> QED
      BY <2>1, <2>4, <3>1 DEF Closable, ModelUnknown, Phase, ClaimantDead
  <2> QED
    BY <2>3, <2>4
<1> QED
  BY <1>1, <1>2 DEF Resolved

LEMMA ResolvedNext ==
  RowsTyped /\ WriterInv /\ JournalInv /\ EndsQuiet /\ Resolved /\ [Next]_vars => Resolved'
<1> SUFFICES ASSUME RowsTyped, WriterInv, JournalInv, EndsQuiet, Resolved, [Next]_vars,
                    run'.status \in Terminal
             PROVE  Resolved'
  BY DEF Resolved
<1>1. CASE UNCHANGED vars
  BY <1>1 DEF vars, Resolved
<1>2. CASE Next /\ run.status \in Terminal
  <2>1. run' = run /\ (att' = att \/ AbandonUnknown)
    BY <1>2, EndedStays DEF EndsQuiet
  <2>2. ~AbandonUnknown
    <3> SUFFICES ASSUME NEW op \in Op, ReplayClass(op) = "manual", LastPhase(op) = "unknown"
                 PROVE  FALSE
      BY DEF AbandonUnknown
    <3>1. Len(att[op]) \in DOMAIN att[op] /\ att[op][Len(att[op])].phase = "unknown"
      BY LastIsThere DEF JournalInv, JournalTyped
    <3> QED
      BY <1>2, <3>1 DEF Resolved, ReplayClass
  <2>3. owner' \in {owner, owner + 1} /\ owner \in Nat
    <3>1. CASE Restart
      BY <3>1 DEF Restart, RowsTyped
    <3>2. CASE DeadlinePasses \/ Stop
      BY <3>2 DEF DeadlinePasses, Stop, Cancel, Expire, StopForResource, StopForModelFailure,
                  DeriveStop, CommitTerminalStop, RowsTyped
    <3>3. CASE Journal
      BY <3>3 DEF Journal, PrepareModel, PrepareTool, DenyTool, ClaimInvocation, ReleaseInvocation,
         CompleteModel, CompleteRead, CompleteEdit, FailBeforeDispatch, FailWithoutRelease,
         MarkUnknown, AbandonUnknown, RowsTyped
    <3>4. CASE Worker
      BY <3>4, WorkerLeavesJournal DEF RowsTyped
    <3> QED
      BY <1>2, <3>1, <3>2, <3>3, <3>4 DEF Next
  <2>4. \A op \in Op : \A i \in DOMAIN att[op] : att[op][i].owner \in Nat
    <3>1. \A op \in Op : \A i \in DOMAIN att[op] : att[op][i] \in Attempt
      BY DEF JournalInv, JournalTyped
    <3> QED
      BY <3>1 DEF Attempt
  <2> QED
    BY <1>2, <2>1, <2>2, <2>3, <2>4 DEF Resolved
<1>3. CASE Next /\ run.status \notin Terminal
  <2>1. CASE CommitTerminalStop
    <3>1. /\ att' = Refunded({}) /\ run' = TerminalRun /\ Stopping
          /\ handles' = handles /\ owner' = owner /\ \A a \in Attempts : Closable(a)
      BY <2>1 DEF CommitTerminalStop
    <3>2. PICK none : none = {}
      OBVIOUS
    <3>3. /\ att' = Refunded(none) /\ \A a \in Attempts \ none : Closable(a)
          /\ \A a \in none : a \in Attempts /\ Phase(a) = "unknown"
      BY <3>1, <3>2
    <3> QED
      BY <3>1, <3>3, EndIsResolved
  <2>2. ASSUME NEW l \in Launch, CompleteProbeStopped(l) PROVE Resolved'
    <3>1. /\ att' = Refunded(RolledBack) /\ run' = TerminalRun /\ Stopping
          /\ handles' = handles /\ owner' = owner
          /\ \A a \in Attempts \ RolledBack : Closable(a)
      BY <2>2 DEF CompleteProbeStopped
    <3>2. \A a \in RolledBack : a \in Attempts /\ Phase(a) = "unknown"
      BY DEF RolledBack, Open
    <3> QED
      BY <3>1, <3>2, EndIsResolved
  <2> QED
    BY <1>3, <2>1, <2>2, TwoEnds
<1> QED
  BY <1>1, <1>2, <1>3

-----------------------------------------------------------------------------
(* The budget is what the journal says.                                    *)

OpenPhases == {"prepared", "dispatch_claimed"}
Spends(op, r) == \/ r.phase \in {"completed", "unknown", "abandoned"}
                 \/ r.phase = "failed" /\ Kinds[op] = "edit" /\ r.claimed

LEMMA UnitsOf ==
  \A c, b : /\ b \in OpenUnits(c) <=> b \in Attempts /\ Counter(b[1]) = c
                                      /\ att[b[1]][b[2]].phase \in OpenPhases
            /\ b \in SpentUnits(c) <=> b \in Attempts /\ Counter(b[1]) = c
                                      /\ Spends(b[1], att[b[1]][b[2]])
<1>1. \A c, b : b \in OpenUnits(c) <=> b \in Attempts /\ Counter(b[1]) = c
                                       /\ att[b[1]][b[2]].phase \in OpenPhases
  BY DEF OpenUnits, OpenPhases, Phase
<1>2. \A c, b : b \in SpentUnits(c) <=> b \in Attempts /\ Counter(b[1]) = c
                                        /\ Spends(b[1], att[b[1]][b[2]])
  BY DEF SpentUnits, Spends, Charges, Phase, Claimed
<1> QED
  BY <1>1, <1>2

\* The same of the next state.
LEMMA UnitsOfNext ==
  \A c, b : /\ b \in OpenUnits(c)' <=> b \in Attempts' /\ Counter(b[1]) = c
                                       /\ att'[b[1]][b[2]].phase \in OpenPhases
            /\ b \in SpentUnits(c)' <=> b \in Attempts' /\ Counter(b[1]) = c
                                       /\ Spends(b[1], att'[b[1]][b[2]])
<1>1. \A c, b : b \in OpenUnits(c)' <=> b \in Attempts' /\ Counter(b[1]) = c
                                        /\ att'[b[1]][b[2]].phase \in OpenPhases
  BY DEF OpenUnits, OpenPhases, Phase
<1>2. \A c, b : b \in SpentUnits(c)' <=> b \in Attempts' /\ Counter(b[1]) = c
                                         /\ Spends(b[1], att'[b[1]][b[2]])
  BY DEF SpentUnits, Spends, Charges, Phase, Claimed
<1> QED
  BY <1>1, <1>2

\* One attempt a changes, or is new.
LEMMA OneUnit ==
  ASSUME NEW op, NEW n, NEW a, a = <<op, n>>, Attempts' = Attempts \cup {a},
         \A b \in Attempts : b # a => att'[b[1]][b[2]] = att[b[1]][b[2]], NEW c
  PROVE  /\ OpenUnits(c)' = IF Counter(op) = c /\ att'[op][n].phase \in OpenPhases
                            THEN OpenUnits(c) \cup {a} ELSE OpenUnits(c) \ {a}
         /\ SpentUnits(c)' = IF Counter(op) = c /\ Spends(op, att'[op][n])
                             THEN SpentUnits(c) \cup {a} ELSE SpentUnits(c) \ {a}
<1>1. a[1] = op /\ a[2] = n
  OBVIOUS
<1>2. \A b : b \in OpenUnits(c)' <=> IF b = a THEN Counter(op) = c /\ att'[op][n].phase \in OpenPhases
                                     ELSE b \in OpenUnits(c)
  BY <1>1, UnitsOf, UnitsOfNext
<1>3. \A b : b \in SpentUnits(c)' <=> IF b = a THEN Counter(op) = c /\ Spends(op, att'[op][n])
                                      ELSE b \in SpentUnits(c)
  <2> SUFFICES ASSUME NEW b
               PROVE  b \in SpentUnits(c)' <=> IF b = a THEN Counter(op) = c /\ Spends(op, att'[op][n])
                                               ELSE b \in SpentUnits(c)
    OBVIOUS
  <2>1. CASE b = a
    BY <1>1, <2>1, UnitsOfNext
  <2>2. CASE b # a
    <3>1. b \in Attempts' <=> b \in Attempts
      BY <2>2
    <3>2. b \in Attempts => att'[b[1]][b[2]] = att[b[1]][b[2]]
      BY <2>2
    <3> QED
      BY <2>2, <3>1, <3>2, UnitsOf, UnitsOfNext
  <2> QED
    BY <2>1, <2>2
<1>4. OpenUnits(c)' = IF Counter(op) = c /\ att'[op][n].phase \in OpenPhases
                      THEN OpenUnits(c) \cup {a} ELSE OpenUnits(c) \ {a}
  BY <1>2
<1>5. SpentUnits(c)' = IF Counter(op) = c /\ Spends(op, att'[op][n])
                       THEN SpentUnits(c) \cup {a} ELSE SpentUnits(c) \ {a}
  BY <1>3
<1> QED
  BY <1>4, <1>5

\* The attempts and their domains.
LEMMA TurnedAttempts ==
  ASSUME att \in [Op -> Seq(Attempt)], NEW op \in Op, NEW y \in Attempt, Turned(op, y),
         NEW n, n = Len(att[op])
  PROVE  /\ Attempts' = Attempts \cup {<<op, n>>} /\ <<op, n>> \in Attempts /\ att'[op][n] = y
         /\ att[op][n] = LastAtt(op)
         /\ \A b \in Attempts : b # <<op, n>> => att'[b[1]][b[2]] = att[b[1]][b[2]]
<1>1. n \in DOMAIN att[op] /\ att' = [att EXCEPT ![op] = [att[op] EXCEPT ![n] = y]]
  BY DEF Turned
<1>2. /\ att'[op][n] = y
      /\ \A o \in Op : DOMAIN att'[o] = DOMAIN att[o]
      /\ \A o \in Op : \A j \in DOMAIN att[o] : o # op \/ j # n => att'[o][j] = att[o][j]
  BY <1>1, Changed
<1>3. <<op, n>> \in Attempts
  BY <1>1, AttemptsArePairs
<1>4. Attempts' = Attempts
  <2>1. Attempts' = UNION {{o} \X DOMAIN att'[o] : o \in Op}
    BY DEF Attempts
  <2>2. {{o} \X DOMAIN att'[o] : o \in Op} = {{o} \X DOMAIN att[o] : o \in Op}
    BY <1>2
  <2> QED
    BY <2>1, <2>2 DEF Attempts
<1>5. ASSUME NEW b \in Attempts, b # <<op, n>> PROVE att'[b[1]][b[2]] = att[b[1]][b[2]]
  <2>1. b[1] \in Op /\ b[2] \in DOMAIN att[b[1]] /\ b = <<b[1], b[2]>>
    BY AttemptsArePairs
  <2>2. b[1] # op \/ b[2] # n
    BY <1>5, <2>1
  <2> QED
    BY <1>2, <2>1, <2>2
<1>6. Attempts' = Attempts \cup {<<op, n>>}
  BY <1>3, <1>4
<1> QED
  BY <1>2, <1>3, <1>5, <1>6 DEF LastAtt

LEMMA GrownAttempts ==
  ASSUME att \in [Op -> Seq(Attempt)], NEW op \in Op, NEW y \in Attempt,
         att' = [att EXCEPT ![op] = Append(@, y)], NEW n, n = Len(att[op]) + 1
  PROVE  /\ Attempts' = Attempts \cup {<<op, n>>} /\ <<op, n>> \notin Attempts /\ att'[op][n] = y
         /\ \A b \in Attempts : att'[b[1]][b[2]] = att[b[1]][b[2]]
<1>1. /\ att'[op][n] = y /\ DOMAIN att'[op] = DOMAIN att[op] \cup {n}
      /\ \A o \in Op \ {op} : att'[o] = att[o]
      /\ \A j \in DOMAIN att[op] : att'[op][j] = att[op][j]
  BY Added
<1>2. <<op, n>> \notin Attempts
  <2>1. n \notin DOMAIN att[op]
    OBVIOUS
  <2> QED
    BY <2>1, AttemptsArePairs
<1>3. ASSUME NEW b \in Attempts PROVE att'[b[1]][b[2]] = att[b[1]][b[2]]
  <2>1. b[1] \in Op /\ b[2] \in DOMAIN att[b[1]]
    BY AttemptsArePairs
  <2> QED
    BY <1>1, <2>1
<1>4. Attempts' = Attempts \cup {<<op, n>>}
  <2>1. ASSUME NEW b \in Attempts' PROVE b \in Attempts \cup {<<op, n>>}
    <3>1. PICK o \in Op : b \in {o} \X DOMAIN att'[o]
      BY <2>1 DEF Attempts
    <3>2. b = <<o, b[2]>> /\ b[2] \in DOMAIN att'[o]
      BY <3>1
    <3>3. b[2] \in DOMAIN att[o] \/ (o = op /\ b[2] = n)
      BY <1>1, <3>2
    <3>4. b[2] \in DOMAIN att[o] => <<o, b[2]>> \in Attempts
      BY AttemptsArePairs
    <3> QED
      BY <3>2, <3>3, <3>4
  <2>2. ASSUME NEW b \in Attempts PROVE b \in Attempts'
    <3>1. PICK o \in Op : b \in {o} \X DOMAIN att[o]
      BY <2>2 DEF Attempts
    <3>2. b \in {o} \X DOMAIN att'[o]
      BY <1>1, <3>1
    <3> QED
      BY <3>2 DEF Attempts
  <2>3. <<op, n>> \in Attempts'
    <3>1. <<op, n>> \in {op} \X DOMAIN att'[op]
      BY <1>1
    <3> QED
      BY <3>1 DEF Attempts
  <2> QED
    BY <2>1, <2>2, <2>3
<1> QED
  BY <1>1, <1>2, <1>3, <1>4

BudgetOf(c) ==
    /\ IsFiniteSet(OpenUnits(c)) /\ IsFiniteSet(SpentUnits(c))
    /\ run.reserved[c] = Cardinality(OpenUnits(c))
    /\ run.consumed[c] = Cardinality(SpentUnits(c))
    /\ run.reserved[c] + run.consumed[c] <= Ceiling[c]

LEMMA SameBudget ==
  ASSUME BudgetInv, att' = att, run'.reserved = run.reserved, run'.consumed = run.consumed
  PROVE  BudgetInv'
<1>1. Attempts' = Attempts
  BY DEF Attempts
<1>2. \A c : OpenUnits(c)' = OpenUnits(c) /\ SpentUnits(c)' = SpentUnits(c)
  <2> SUFFICES ASSUME NEW c PROVE OpenUnits(c)' = OpenUnits(c) /\ SpentUnits(c)' = SpentUnits(c)
    OBVIOUS
  <2>1. \A b : b \in OpenUnits(c)' <=> b \in OpenUnits(c)
    BY <1>1, UnitsOf, UnitsOfNext
  <2>2. \A b : b \in SpentUnits(c)' <=> b \in SpentUnits(c)
    BY <1>1, UnitsOf, UnitsOfNext
  <2> QED
    BY <2>1, <2>2
<1> QED
  BY <1>2 DEF BudgetInv

LEMMA GrowsBudget ==
  ASSUME RowsTyped, JournalInv, BudgetInv, NEW op \in Op, Grows(op)
  PROVE  BudgetInv'
<1>0. /\ att \in [Op -> Seq(Attempt)] /\ run.epoch \in Nat /\ DOMAIN Ceiling = Counters
      /\ run.reserved \in [Counters -> Int] /\ run.consumed \in [Counters -> Int]
      /\ Ceiling \in [Counters -> Nat]
  BY Fields, KernelAssumption DEF JournalInv, JournalTyped, RowsTyped, RunRow, Counters
<1> DEFINE y == [phase |-> "prepared", claimed |-> FALSE, released |-> FALSE,
                 epoch |-> run.epoch, owner |-> 0]
           n == Len(att[op]) + 1
<1>1. y \in Attempt /\ y.phase \in OpenPhases /\ ~Spends(op, y)
  BY <1>0 DEF Attempt, OpenPhases, Spends
<1>2. att' = [att EXCEPT ![op] = Append(@, y)]
  BY DEF Grows
<1> HIDE DEF y
<1>3. PICK a : a = <<op, n>>
  OBVIOUS
<1>4. /\ Attempts' = Attempts \cup {a} /\ a \notin Attempts /\ att'[op][n] = y
      /\ \A b \in Attempts : att'[b[1]][b[2]] = att[b[1]][b[2]]
  BY <1>0, <1>1, <1>2, <1>3, GrownAttempts
<1> HIDE DEF n
<1> SUFFICES ASSUME NEW c \in Counters PROVE BudgetOf(c)'
  BY DEF BudgetInv, BudgetOf
<1>5. /\ OpenUnits(c)' = IF Counter(op) = c THEN OpenUnits(c) \cup {a} ELSE OpenUnits(c) \ {a}
      /\ SpentUnits(c)' = SpentUnits(c) \ {a}
  BY <1>1, <1>3, <1>4, OneUnit
<1>6. a \notin OpenUnits(c) /\ a \notin SpentUnits(c)
  BY <1>4, UnitsOf
<1>7. SpentUnits(c)' = SpentUnits(c) /\ (Counter(op) # c => OpenUnits(c)' = OpenUnits(c))
  BY <1>5, <1>6
<1>8. BudgetOf(c)
  BY DEF BudgetInv, BudgetOf
<1>9. CASE Counter(op) = c
  <2>1. IsFiniteSet(OpenUnits(c)') /\ Cardinality(OpenUnits(c)') = Cardinality(OpenUnits(c)) + 1
    <3>1. IsFiniteSet(OpenUnits(c))
      BY <1>8 DEF BudgetOf
    <3>2. /\ IsFiniteSet(OpenUnits(c) \cup {a})
          /\ Cardinality(OpenUnits(c) \cup {a}) =
               IF a \in OpenUnits(c) THEN Cardinality(OpenUnits(c)) ELSE Cardinality(OpenUnits(c)) + 1
      BY <3>1, FS_AddElement
    <3> QED
      BY <1>5, <1>6, <1>9, <3>2
  <2>2. run'.reserved[c] = run.reserved[c] + 1 /\ run'.consumed[c] = run.consumed[c]
        /\ run.consumed[c] + run.reserved[c] + 1 <= Ceiling[c]
    BY <1>0, <1>9 DEF Grows
  <2>3. run.reserved[c] \in Int /\ run.consumed[c] \in Int /\ Ceiling[c] \in Int
    BY <1>0
  <2> QED
    BY <1>7, <1>8, <2>1, <2>2, <2>3 DEF BudgetOf
<1>10. CASE Counter(op) # c
  <2>1. run'.reserved[c] = run.reserved[c] /\ run'.consumed[c] = run.consumed[c]
    BY <1>0, <1>10 DEF Grows
  <2> QED
    BY <1>7, <1>8, <1>10, <2>1 DEF BudgetOf
<1> QED
  BY <1>9, <1>10

LEMMA TurnedBudget ==
  ASSUME RowsTyped, JournalInv, BudgetInv, NEW op \in Op, NEW y \in Attempt, Turned(op, y),
         Claims(op, y) \/ Releases(op, y) \/ Abandons(op, y) \/ Settles(op, y)
  PROVE  BudgetInv'
<1>0. /\ att \in [Op -> Seq(Attempt)] /\ Counter(op) \in Counters
      /\ run.reserved \in [Counters -> Int] /\ run.consumed \in [Counters -> Int]
      /\ Ceiling \in [Counters -> Nat]
  BY KernelAssumption DEF JournalInv, JournalTyped, RowsTyped, RunRow, Counters, Counter
<1>1. PICK n, a : n = Len(att[op]) /\ a = <<op, n>>
  OBVIOUS
<1>2. PICK x : x = LastAtt(op)
  OBVIOUS
<1>3. /\ Attempts' = Attempts \cup {a} /\ a \in Attempts /\ att'[op][n] = y /\ att[op][n] = x
      /\ \A b \in Attempts : b # a => att'[b[1]][b[2]] = att[b[1]][b[2]]
  BY <1>0, <1>1, <1>2, TurnedAttempts
<1> SUFFICES ASSUME NEW c \in Counters PROVE BudgetOf(c)'
  BY DEF BudgetInv, BudgetOf
<1>4. /\ OpenUnits(c)' = IF Counter(op) = c /\ y.phase \in OpenPhases
                         THEN OpenUnits(c) \cup {a} ELSE OpenUnits(c) \ {a}
      /\ SpentUnits(c)' = IF Counter(op) = c /\ Spends(op, y)
                          THEN SpentUnits(c) \cup {a} ELSE SpentUnits(c) \ {a}
  BY <1>1, <1>3, OneUnit
<1>5. /\ a \in OpenUnits(c) <=> Counter(op) = c /\ x.phase \in OpenPhases
      /\ a \in SpentUnits(c) <=> Counter(op) = c /\ Spends(op, x)
  <2>1. a[1] = op /\ a[2] = n
    BY <1>1
  <2> QED
    BY <1>3, <2>1, UnitsOf
<1>6. BudgetOf(c)
  BY DEF BudgetInv, BudgetOf
<1>7. ASSUME OpenUnits(c)' = OpenUnits(c), SpentUnits(c)' = SpentUnits(c),
             run'.reserved[c] = run.reserved[c], run'.consumed[c] = run.consumed[c]
      PROVE  BudgetOf(c)'
  BY <1>6, <1>7 DEF BudgetOf
<1>8. CASE Counter(op) # c
  <2>1. OpenUnits(c)' = OpenUnits(c) /\ SpentUnits(c)' = SpentUnits(c)
    BY <1>4, <1>5, <1>8
  <2>2. run'.reserved[c] = run.reserved[c] /\ run'.consumed[c] = run.consumed[c]
    BY <1>0, <1>8 DEF Claims, Releases, Abandons, Settles
  <2> QED
    BY <1>7, <2>1, <2>2
<1>9. CASE Counter(op) = c /\ (Claims(op, y) \/ Releases(op, y) \/ Abandons(op, y))
  <2>1. \/ x.phase \in OpenPhases /\ y.phase \in OpenPhases
        \/ x.phase = "unknown" /\ y.phase = "abandoned"
    BY <1>2, <1>9 DEF Claims, Releases, Abandons, OpenPhases
  <2>2. /\ x.phase \in OpenPhases <=> y.phase \in OpenPhases
        /\ Spends(op, x) <=> Spends(op, y)
    BY <2>1 DEF OpenPhases, Spends
  <2>3. OpenUnits(c)' = OpenUnits(c) /\ SpentUnits(c)' = SpentUnits(c)
    BY <1>4, <1>5, <1>9, <2>2
  <2>4. run' = run
    BY <1>9 DEF Claims, Releases, Abandons
  <2> QED
    BY <1>7, <2>3, <2>4
<1>10. CASE Counter(op) = c /\ Settles(op, y)
  <2>1. /\ x.phase \in OpenPhases /\ ~Spends(op, x) /\ y.phase \notin OpenPhases
        /\ Spends(op, y) <=> y.phase # "failed"
    BY <1>2, <1>10 DEF Settles, OpenPhases, Spends
  <2>2. /\ a \in OpenUnits(c) /\ OpenUnits(c)' = OpenUnits(c) \ {a}
        /\ a \notin SpentUnits(c)
    BY <1>4, <1>5, <1>10, <2>1
  <2>3. IsFiniteSet(OpenUnits(c)) /\ IsFiniteSet(SpentUnits(c))
    BY <1>6 DEF BudgetOf
  <2>4. IsFiniteSet(OpenUnits(c)') /\ Cardinality(OpenUnits(c)') = Cardinality(OpenUnits(c)) - 1
    <3>1. /\ IsFiniteSet(OpenUnits(c) \ {a})
          /\ Cardinality(OpenUnits(c) \ {a}) =
               IF a \in OpenUnits(c) THEN Cardinality(OpenUnits(c)) - 1 ELSE Cardinality(OpenUnits(c))
      BY <2>3, FS_RemoveElement
    <3> QED
      BY <2>2, <3>1
  <2>5. run.reserved[c] \in Int /\ run.consumed[c] \in Int /\ Ceiling[c] \in Int
    BY <1>0
  <2>6. run'.reserved[c] = run.reserved[c] - 1
    BY <1>0, <1>10 DEF Settles
  <2>7. CASE y.phase = "failed"
    <3>1. SpentUnits(c)' = SpentUnits(c)
      BY <1>4, <2>1, <2>2, <2>7
    <3>2. run'.consumed[c] = run.consumed[c]
      BY <1>0, <1>10, <2>7 DEF Settles
    <3> QED
      BY <1>6, <2>4, <2>5, <2>6, <3>1, <3>2 DEF BudgetOf
  <2>8. CASE y.phase # "failed"
    <3>1. SpentUnits(c)' = SpentUnits(c) \cup {a}
      BY <1>4, <1>10, <2>1, <2>8
    <3>2. /\ IsFiniteSet(SpentUnits(c) \cup {a})
          /\ Cardinality(SpentUnits(c) \cup {a}) =
               IF a \in SpentUnits(c) THEN Cardinality(SpentUnits(c)) ELSE Cardinality(SpentUnits(c)) + 1
      BY <2>3, FS_AddElement
    <3>3. IsFiniteSet(SpentUnits(c)') /\ Cardinality(SpentUnits(c)') = Cardinality(SpentUnits(c)) + 1
      BY <2>2, <3>1, <3>2
    <3>4. run'.consumed[c] = run.consumed[c] + 1
      BY <1>0, <1>10, <2>8 DEF Settles
    <3> QED
      BY <1>6, <2>4, <2>5, <2>6, <3>3, <3>4 DEF BudgetOf
  <2> QED
    BY <2>7, <2>8
<1> QED
  BY <1>8, <1>9, <1>10

\* The end: nothing is reserved, and what was spent stays spent.
LEMMA RefundBudget ==
  ASSUME RowsTyped, JournalInv, BudgetInv, NEW rollback,
         \A a \in rollback : a \in Attempts /\ Phase(a) = "unknown" /\ Kinds[a[1]] = "edit",
         \A a \in Attempts \ rollback : Closable(a),
         att' = Refunded(rollback), run' = TerminalRun, handles' = handles, owner' = owner
  PROVE  BudgetInv'
<1>0. /\ run \in RunRow /\ DOMAIN Ceiling = Counters /\ Ceiling \in [Counters -> Nat]
      /\ run.reserved \in [Counters -> Int] /\ run.consumed \in [Counters -> Int]
  BY KernelAssumption DEF RowsTyped, RunRow, Counters
<1>1. /\ run'.next = run.next /\ run'.consumed = run.consumed
      /\ \A c \in Counters : run'.reserved[c] = 0
  <2>1. TerminalRun.next = run.next /\ TerminalRun.consumed = run.consumed
    BY <1>0 DEF TerminalRun, RunRow
  <2> QED
    BY <1>0, <2>1, TerminalTyped
<1>2. /\ \A o \in Op : DOMAIN att'[o] = DOMAIN att[o]
      /\ \A o \in Op : \A i \in DOMAIN att[o] :
           IF att[o][i].phase = "prepared" \/ <<o, i>> \in rollback
           THEN att'[o][i] = [att[o][i] EXCEPT !.phase = "failed"]
           ELSE att'[o][i] = att[o][i]
  BY <1>1, RefundKeepsJournal
<1>3. Attempts' = Attempts
  <2>1. Attempts' = UNION {{o} \X DOMAIN att'[o] : o \in Op}
    BY DEF Attempts
  <2>2. {{o} \X DOMAIN att'[o] : o \in Op} = {{o} \X DOMAIN att[o] : o \in Op}
    BY <1>2
  <2> QED
    BY <2>1, <2>2 DEF Attempts
<1>4. ASSUME NEW b \in Attempts
      PROVE  /\ att'[b[1]][b[2]].phase \notin OpenPhases
             /\ Spends(b[1], att'[b[1]][b[2]]) <=> Spends(b[1], att[b[1]][b[2]])
  <2>1. PICK o \in Op : \E i : i \in DOMAIN att[o] /\ b = <<o, i>> /\ o = b[1] /\ i = b[2]
    BY AttemptsArePairs
  <2> PICK i : i \in DOMAIN att[o] /\ b = <<o, i>> /\ o = b[1] /\ i = b[2]
    BY <2>1
  <2>2. att[o][i] \in Attempt
    BY <2>1 DEF JournalInv, JournalTyped
  <2>3. CASE b \in rollback
    <3>1. Kinds[o] = "edit" /\ att[o][i].phase = "unknown"
      BY <2>1, <2>3 DEF Phase
    <3>2. att[o][i].claimed
      BY <2>1, <3>1 DEF JournalInv, Graph
    <3>3. att'[o][i] = [att[o][i] EXCEPT !.phase = "failed"]
      BY <1>2, <2>1, <2>3
    <3>4. att'[o][i].phase = "failed" /\ att'[o][i].claimed = att[o][i].claimed
      BY <2>2, <3>3 DEF Attempt
    <3> QED
      BY <2>1, <3>1, <3>2, <3>4 DEF OpenPhases, Spends
  <2>4. CASE b \notin rollback /\ att[o][i].phase = "prepared"
    <3>1. ~att[o][i].claimed
      BY <2>1, <2>4 DEF JournalInv, Graph
    <3>2. att'[o][i] = [att[o][i] EXCEPT !.phase = "failed"]
      BY <1>2, <2>1, <2>4
    <3>3. att'[o][i].phase = "failed" /\ att'[o][i].claimed = att[o][i].claimed
      BY <2>2, <3>2 DEF Attempt
    <3> QED
      BY <2>1, <2>4, <3>1, <3>3 DEF OpenPhases, Spends
  <2>5. CASE b \notin rollback /\ att[o][i].phase # "prepared"
    <3>1. Closable(b) /\ att'[o][i] = att[o][i]
      BY <1>2, <2>1, <2>5
    <3>2. att[o][i].phase \notin OpenPhases
      BY <2>1, <2>5, <3>1 DEF Closable, ModelUnknown, Phase, OpenPhases
    <3> QED
      BY <2>1, <3>1, <3>2
  <2> QED
    BY <2>3, <2>4, <2>5
<1> SUFFICES ASSUME NEW c \in Counters PROVE BudgetOf(c)'
  BY DEF BudgetInv, BudgetOf
<1>5. OpenUnits(c)' = {}
  BY <1>3, <1>4, UnitsOfNext
<1>6. SpentUnits(c)' = SpentUnits(c)
  <2>1. \A b : b \in SpentUnits(c)' <=> b \in SpentUnits(c)
    BY <1>3, <1>4, UnitsOf, UnitsOfNext
  <2> QED
    BY <2>1
<1>7. BudgetOf(c)
  BY DEF BudgetInv, BudgetOf
<1>8. run.reserved[c] \in Nat /\ run.consumed[c] \in Int /\ Ceiling[c] \in Int
  BY <1>0, <1>7, FS_CardinalityType DEF BudgetOf
<1>9. IsFiniteSet(OpenUnits(c)') /\ Cardinality(OpenUnits(c)') = 0
  BY <1>5, FS_EmptySet
<1> QED
  BY <1>1, <1>6, <1>7, <1>8, <1>9 DEF BudgetOf

LEMMA BudgetInit == Init => BudgetInv
<1> SUFFICES ASSUME Init, NEW c \in Counters PROVE BudgetOf(c)
  BY DEF BudgetInv, BudgetOf
<1>1. att = [op \in Op |-> <<>>] /\ run.reserved[c] = 0 /\ run.consumed[c] = 0 /\ Ceiling[c] \in Nat
  BY KernelAssumption DEF Init, Counters
<1>2. \A op \in Op : DOMAIN att[op] = {}
  BY <1>1
<1>3. Attempts = {}
  BY <1>2, AttemptsArePairs
<1>4. OpenUnits(c) = {} /\ SpentUnits(c) = {}
  BY <1>3 DEF OpenUnits, SpentUnits
<1> QED
  BY <1>1, <1>4, FS_EmptySet DEF BudgetOf

LEMMA BudgetNext ==
  RowsTyped /\ WriterInv /\ JournalInv /\ BudgetInv /\ [Next]_vars => BudgetInv'
<1> SUFFICES ASSUME RowsTyped, WriterInv, JournalInv, BudgetInv, [Next]_vars PROVE BudgetInv'
  OBVIOUS
<1>0. run \in RunRow
  BY DEF RowsTyped
<1>1. ASSUME att' = att, run' = run PROVE BudgetInv'
  BY <1>1, SameBudget
<1>2. CASE UNCHANGED vars
  BY <1>1, <1>2 DEF vars
<1>3. CASE Journal
  <2>1. JournalStep
    BY <1>3, JournalForms
  <2> QED
    BY <2>1, SameBudget, GrowsBudget, TurnedBudget DEF JournalStep
<1>4. CASE Worker
  <2>1. ASSUME NEW l \in Launch, \/ BeginPreparation(l) \/ RecordPreparationController(l)
                                 \/ RecordWorkerPreactivated(l) \/ RetirePreparation(l)
                                 \/ LeaseExpires(l) \/ RetirePreactivation(l)
                                 \/ BeginRevocation(l) \/ BeginCheckpoint(l)
        PROVE  att' = att /\ run' = run
    BY <2>1 DEF BeginPreparation, RecordPreparationController, RecordWorkerPreactivated,
                RetirePreparation, LeaseExpires, RetirePreactivation, BeginRevocation,
                BeginCheckpoint, WriteState
  <2>2. ASSUME NEW l \in Launch, NEW g \in Gen,
               RecordPreparationGeneration(l, g) \/ ReserveLaunch(l, g)
        PROVE  att' = att /\ run' = run
    BY <2>2 DEF RecordPreparationGeneration, ReserveLaunch
  <2>3. ASSUME NEW g \in Gen, \/ RegisterGeneration(g) \/ RecordGenerationPreactivated(g)
                              \/ RetireQuarantined(g)
        PROVE  att' = att /\ run' = run
    BY <2>3 DEF RegisterGeneration, RecordGenerationPreactivated, RetireQuarantined
  <2>4. ASSUME NEW l \in Launch, ActivateLease(l) \/ BeginRecovery(l) \/ CompleteProbe(l)
        PROVE  att' = att /\ run'.reserved = run.reserved /\ run'.consumed = run.consumed
    BY <1>0, <2>4 DEF ActivateLease, BeginRecovery, CompleteProbe, RunRow
  <2>5. CASE SealGeneration \/ BeginProbe \/ CloseProbe
    <3>1. att' = att /\ run'.reserved = run.reserved /\ run'.consumed = run.consumed
      BY <1>0, <2>5 DEF SealGeneration, BeginProbe, CloseProbe, RunRow
    <3> QED
      BY <3>1, SameBudget
  <2>6. ASSUME NEW l \in Launch, CompleteProbeStopped(l) PROVE BudgetInv'
    <3>1. /\ att' = Refunded(RolledBack) /\ run' = TerminalRun
          /\ handles' = handles /\ owner' = owner
          /\ \A a \in Attempts \ RolledBack : Closable(a)
      BY <2>6 DEF CompleteProbeStopped
    <3>2. \A a \in RolledBack : a \in Attempts /\ Phase(a) = "unknown" /\ Kinds[a[1]] = "edit"
      BY DEF RolledBack, Open, ReplayClass
    <3> QED
      BY <3>1, <3>2, RefundBudget
  <2> QED
    BY <1>1, <1>4, <2>1, <2>2, <2>3, <2>4, <2>5, <2>6, SameBudget DEF Worker
<1>5. CASE Cancel \/ Expire \/ StopForResource \/ StopForModelFailure \/ DeadlinePasses \/ Restart
  <2>1. att' = att
    BY <1>5 DEF Cancel, Expire, StopForResource, StopForModelFailure, DeriveStop, DeadlinePasses, Restart
  <2>2. run'.reserved = run.reserved /\ run'.consumed = run.consumed
    BY <1>0, <1>5 DEF Cancel, Expire, StopForResource, StopForModelFailure, DeriveStop,
                      DeadlinePasses, Restart, RunRow
  <2> QED
    BY <2>1, <2>2, SameBudget
<1>6. CASE CommitTerminalStop
  <2>1. /\ att' = Refunded({}) /\ run' = TerminalRun
        /\ handles' = handles /\ owner' = owner /\ \A a \in Attempts : Closable(a)
    BY <1>6 DEF CommitTerminalStop
  <2>2. PICK none : none = {}
    OBVIOUS
  <2>3. /\ att' = Refunded(none) /\ \A a \in Attempts \ none : Closable(a)
        /\ \A a \in none : a \in Attempts /\ Phase(a) = "unknown" /\ Kinds[a[1]] = "edit"
    BY <2>1, <2>2
  <2> QED
    BY <2>1, <2>3, RefundBudget
<1> QED
  BY <1>2, <1>3, <1>4, <1>5, <1>6 DEF Next, Stop

-----------------------------------------------------------------------------
(* The validators accept the rows.                                         *)

RecoveryInv ==
    /\ RowsTyped /\ WriterInv /\ JournalInv /\ Accounted /\ LinkInv /\ HistoryInv
    /\ ProbeInv /\ EndsQuiet /\ Resolved /\ BudgetInv

LEMMA RecoveryInit == Init => RecoveryInv
<1> SUFFICES ASSUME Init PROVE RecoveryInv
  OBVIOUS
<1>1. HistoryInv
  <2>1. \A op \in Op : DOMAIN att[op] = {}
    BY DEF Init
  <2> QED
    BY <2>1 DEF HistoryInv, Unreleased, OpenEdits, LostEdits
<1>2. EndsQuiet /\ Resolved
  BY DEF Init, EndsQuiet, Resolved, Terminal
<1> QED
  BY <1>1, <1>2, RowsInit, JournalInit, LinkInit, ProbeInit, BudgetInit DEF RecoveryInv

LEMMA RecoveryNext == RecoveryInv /\ [Next]_vars => RecoveryInv'
<1> SUFFICES ASSUME RecoveryInv, [Next]_vars PROVE RecoveryInv'
  OBVIOUS
<1>1. RowsTyped' /\ WriterInv' /\ JournalInv' /\ Accounted'
  BY RowsNext, JournalNext DEF RecoveryInv
<1>2. LinkInv' /\ ProbeInv' /\ EndsQuiet' /\ Resolved' /\ BudgetInv'
  BY LinkNext, ProbeNext, QuietNext, ResolvedNext, BudgetNext DEF RecoveryInv
<1>3. HistoryInv'
  <2>1. CASE UNCHANGED vars
    <3>1. att' = att /\ run' = run /\ gen' = gen
      BY <2>1 DEF vars
    <3> QED
      BY <3>1, SameHistory DEF RecoveryInv
  <2>2. CASE Next
    BY <1>1, <2>2, JournalKeepsHistory, WorkerKeepsHistory, StopKeepsHistory DEF RecoveryInv, Next
  <2> QED
    BY <2>1, <2>2
<1> QED
  BY <1>1, <1>2, <1>3 DEF RecoveryInv

\* Launches and generations.
LEMMA PreparationsAccepted ==
  ASSUME RecoveryInv, Recoverable PROVE validateWorkerPreparationHistory
<1> SUFFICES ASSUME NEW l \in Launch
             PROVE  /\ launch[l].phase = "preparing" =>
                         /\ launch[l].owner = owner /\ launch[l].fresh
                         /\ run.status = "queued" /\ run.active = None
                         /\ launch[l].gen # None => gen[launch[l].gen].phase \in Unlaunched
                    /\ launch[l].prep = "controller" => launch[l].gen # None
                    /\ PreparationRetired(l) => validateWorkerPreparationRetirement(l)
  BY DEF validateWorkerPreparationHistory
<1>1. /\ Linked(l) /\ launch[l].gen \in Gen \cup {None} /\ launch[l].phase \in LaunchPhase
      /\ None \notin Gen
  BY Fields, KernelAssumption DEF RecoveryInv, LinkInv
<1>2. launch[l].phase = "preparing" =>
        /\ launch[l].owner = owner /\ launch[l].fresh
        /\ run.status = "queued" /\ run.active = None
        /\ launch[l].gen # None => gen[launch[l].gen].phase \in Unlaunched
  BY <1>1 DEF Recoverable, Linked
<1>3. launch[l].prep = "controller" => launch[l].gen # None
  <2>1. launch[l].phase \in {"activated", "reconciling"} => launch[l].gen # None
    BY <1>1 DEF RecoveryInv, WriterInv, ActivatedWrites, FencedWaits
  <2> QED
    BY <1>1, <2>1 DEF Linked, LaunchPhase
<1>4. PreparationRetired(l) => validateWorkerPreparationRetirement(l)
  BY <1>1 DEF PreparationRetired, Retired, validateWorkerPreparationRetirement,
              validateUnallocatedPreparation, Linked
<1> QED
  BY <1>2, <1>3, <1>4

LEMMA PointersAccepted == ASSUME RecoveryInv PROVE assertClosedGenerationPointers
<1> SUFFICES ASSUME NEW g \in Gen, gen[g].phase = "retired"
             PROVE  Of(g) \cap Unretired = {} /\ (run.active # None => launch[run.active].gen # g)
  BY DEF assertClosedGenerationPointers
<1>1. \A l \in Launch : launch[l].gen = g => launch[l].phase = "retired"
  BY GenIsBorn DEF RecoveryInv
<1>2. Of(g) \cap Unretired = {}
  BY <1>1 DEF Of, Unretired, Live
<1>3. run.active # None => run.active \in Launch /\ launch[run.active].phase = "activated"
  BY Fields DEF RecoveryInv, WriterInv, ActiveRuns
<1> QED
  BY <1>1, <1>2, <1>3

LEMMA SourcesAccepted ==
  ASSUME RecoveryInv
  PROVE  readRetiredGenerationSource /\ validateRetainedWorkerQuarantines
<1>1. ASSUME NEW g \in Gen, gen[g].phase \in {"retired", "quarantined"}
      PROVE  \E l \in Of(g) \cap Retired :
               \/ gen[g].phase = "retired" /\ PreparationRetired(l)
               \/ launch[l].write = "preactivated_readonly" /\ launch[l].epoch = 0
               \/ launch[l].write = "fenced_reconciling" /\ launch[l].epoch > 0
  <2>1. PICK l \in Launch : launch[l].phase = "retired" /\ launch[l].gen = g
    BY <1>1 DEF RecoveryInv, LinkInv, HasSource
  <2>2. l \in Of(g) \cap Retired
    BY <2>1 DEF Of, Retired
  <2>3. Linked(l) /\ g # None
    BY KernelAssumption DEF RecoveryInv, LinkInv
  <2> QED
    BY <1>1, <2>1, <2>2, <2>3 DEF Linked, PreparationRetired
<1>2. readRetiredGenerationSource
  BY <1>1 DEF readRetiredGenerationSource
<1>3. validateRetainedWorkerQuarantines
  BY <1>1 DEF validateRetainedWorkerQuarantines, validatePreactivationQuarantine
<1> QED
  BY <1>2, <1>3

LEMMA SealsAccepted == ASSUME RecoveryInv PROVE validateRetainedWorkerSeal
<1> DEFINE sealed == {l \in Retired : launch[l].write = "sealed"}
<1>1. ASSUME NEW l \in sealed PROVE gen[launch[l].gen].phase = "sealed"
  <2>1. Linked(l) /\ launch[l].phase = "retired" /\ launch[l].write = "sealed"
    BY DEF Retired, RecoveryInv, LinkInv
  <2> QED
    BY <2>1 DEF Linked
<1>2. ASSUME NEW g \in Gen, gen[g].phase = "sealed"
      PROVE  Cardinality(Of(g) \cap sealed) = 1 /\ \A l \in Of(g) : launch[l].epoch > 0
  <2>1. PICK l \in Launch : launch[l].phase = "retired" /\ launch[l].gen = g
    BY <1>2 DEF RecoveryInv, LinkInv, HasSource
  <2>2. Linked(l) /\ g # None
    BY KernelAssumption DEF RecoveryInv, LinkInv
  <2>3. launch[l].write = "sealed" /\ launch[l].epoch > 0
    BY <1>2, <2>1, <2>2 DEF Linked
  <2>4. \A m \in Launch : launch[m].gen = g => m = l
    BY <2>1 DEF RecoveryInv, LinkInv, OwnGen
  <2>5. Of(g) = {l} /\ l \in sealed
    BY <2>1, <2>3, <2>4 DEF Of, Retired
  <2>6. Of(g) \cap sealed = {l}
    BY <2>5
  <2> HIDE DEF sealed
  <2>7. Cardinality(Of(g) \cap sealed) = 1
    BY <2>6, FS_Singleton
  <2> QED
    BY <2>3, <2>5, <2>7
<1> QED
  BY <1>1, <1>2 DEF validateRetainedWorkerSeal

LEMMA LaunchesAccepted == ASSUME RecoveryInv PROVE validateLaunchGraph
<1>1. ASSUME NEW l \in Unretired, launch[l].phase # "preparing"
      PROVE  /\ launch[l].gen \in Born
             /\ launch[l].phase = "activated" =>
                  /\ gen[launch[l].gen].phase \in Writable
                  /\ gen[launch[l].gen].phase = launch[l].write
                  /\ gen[launch[l].gen].launch = l /\ gen[launch[l].gen].epoch = launch[l].epoch
             /\ launch[l].phase = "reconciling" => gen[launch[l].gen].phase = "fenced_reconciling"
  <2>1. /\ l \in Launch
        /\ launch[l].phase \in {"reserved", "preactivated", "activated", "reconciling"}
    BY <1>1, Fields DEF Unretired, Live, LaunchPhase, RecoveryInv
  <2>2. launch[l].gen \in Gen
    BY <2>1 DEF RecoveryInv, WriterInv, ReservedReads, ActivatedWrites, FencedWaits
  <2>3. launch[l].gen \in Born
    BY <2>1, <2>2, GenIsBorn DEF RecoveryInv, Born
  <2>4. launch[l].phase = "activated" =>
          /\ gen[launch[l].gen].phase \in Writable /\ gen[launch[l].gen].phase = launch[l].write
          /\ gen[launch[l].gen].launch = l /\ gen[launch[l].gen].epoch = launch[l].epoch
    BY <2>1 DEF RecoveryInv, WriterInv, ActivatedWrites
  <2>5. launch[l].phase = "reconciling" => gen[launch[l].gen].phase = "fenced_reconciling"
    BY <2>1 DEF RecoveryInv, WriterInv, FencedWaits
  <2> QED
    BY <2>3, <2>4, <2>5
<1>2. IF run.status = "running"
      THEN /\ run.active # None /\ launch[run.active].phase = "activated"
           /\ launch[run.active].epoch = run.epoch
      ELSE run.active = None
  <2>1. run.active \in Launch \cup {None}
    BY Fields DEF RecoveryInv
  <2> QED
    BY <2>1 DEF RecoveryInv, WriterInv, ActiveRuns, ActivatedWrites
<1> QED
  BY <1>1, <1>2 DEF validateLaunchGraph

\* The wait.
LEMMA WaitAccepted == ASSUME RecoveryInv PROVE validateWorkerRecoveryWait
<1> DEFINE reconciling == {l \in Launch : Fenced(l)}
           fenced == {g \in Gen : gen[g].phase = "fenced_reconciling"}
<1>1. CASE run.status # "waiting"
  <2>1. reconciling = {}
    BY <1>1 DEF RecoveryInv, WriterInv, FencedWaits, Fenced
  <2>2. fenced = {}
    BY <1>1 DEF RecoveryInv, WriterInv, FencedWaits, GenHasLaunch
  <2> QED
    BY <1>1, <2>1, <2>2 DEF validateWorkerRecoveryWait
<1>2. CASE run.status = "waiting"
  <2>1. PICK l \in Launch : launch[l].phase = "reconciling"
    BY <1>2 DEF RecoveryInv, WriterInv, FencedWaits
  <2>2. PICK g \in Gen : g = launch[l].gen
    BY <2>1 DEF RecoveryInv, WriterInv, FencedWaits
  <2>3. /\ launch[l].write = "fenced_reconciling" /\ launch[l].epoch = run.epoch
        /\ gen[g].phase = "fenced_reconciling" /\ gen[g].launch = l /\ gen[g].epoch = run.epoch
    BY <2>1, <2>2 DEF RecoveryInv, WriterInv, FencedWaits
  <2>4. \A m \in Launch : Live(m) => m = l
    BY <2>1 DEF RecoveryInv, WriterInv, OneLive, Live
  <2>5. reconciling = {l} /\ Unretired = {l}
    BY <2>1, <2>4 DEF Fenced, Unretired, Live
  <2>6. fenced = {g}
    <3>1. \A h \in Gen : gen[h].phase = "fenced_reconciling" => h = g
      BY <2>2, <2>4 DEF RecoveryInv, WriterInv, GenHasLaunch, Live
    <3> QED
      BY <2>3, <3>1
  <2>7. run.active = None
    BY <1>2 DEF RecoveryInv, WriterInv, ActiveRuns
  <2>8. validateWorkerProbeState
    BY <1>2 DEF RecoveryInv, ProbeInv
  <2> HIDE DEF reconciling, fenced
  <2>9. Cardinality(reconciling) = 1 /\ Cardinality(fenced) = 1
    BY <2>5, <2>6, FS_Singleton
  <2>10. \A m \in reconciling, h \in fenced :
           /\ launch[m].epoch = run.epoch /\ launch[m].write = "fenced_reconciling"
           /\ launch[m].gen = h /\ gen[h].launch = m /\ gen[h].epoch = launch[m].epoch
    BY <2>2, <2>3, <2>5, <2>6
  <2>11. Unretired = reconciling
    BY <2>5
  <2> QED
    BY <1>2, <2>7, <2>8, <2>9, <2>10, <2>11 DEF validateWorkerRecoveryWait, reconciling, fenced
<1> QED
  BY <1>1, <1>2

\* The journal and its budget.
LEMMA HistoryAccepted ==
  ASSUME RecoveryInv
  PROVE  /\ validateJournalGraph /\ validateInstalledModelNoReleaseHistory
         /\ validatePrivateToolRollbackHistory /\ validateInstalledBrokerAmbiguityHistory
         /\ validateInstalledBrokerTerminalHistory
<1>1. \A a \in Attempts : a[1] \in Op /\ a[2] \in DOMAIN att[a[1]]
  BY AttemptsArePairs
<1>2. validateJournalGraph
  BY <1>1 DEF RecoveryInv, JournalInv, Graph, validateJournalGraph, Phase, Claimed
<1>3. validateInstalledModelNoReleaseHistory
  BY <1>1 DEF RecoveryInv, HistoryInv, Unreleased, validateInstalledModelNoReleaseHistory, Phase, Claimed
<1>4. validatePrivateToolRollbackHistory
  BY <1>1 DEF RecoveryInv, HistoryInv, LostEdits, validatePrivateToolRollbackHistory, Phase, Claimed
<1>5. validateInstalledBrokerAmbiguityHistory
  BY <1>1 DEF RecoveryInv, JournalInv, Graph, validateInstalledBrokerAmbiguityHistory, ModelUnknown,
              Phase, Claimed
<1>6. validateInstalledBrokerTerminalHistory
  BY <1>1 DEF RecoveryInv, Resolved, validateInstalledBrokerTerminalHistory, ModelUnknown, Phase,
              ClaimantDead
<1> QED
  BY <1>2, <1>3, <1>4, <1>5, <1>6

LEMMA BudgetAccepted ==
  ASSUME RecoveryInv
  PROVE  /\ validateJournalArtifactsAndBudgets
         /\ \A c \in DOMAIN Ceiling : run.reserved[c] + run.consumed[c] <= Ceiling[c]
<1>1. DOMAIN Ceiling = Counters
  BY KernelAssumption DEF Counters
<1>2. \A c : /\ Units(c, {a \in Attempts : Phase(a) \in {"prepared", "dispatch_claimed"}})
                  = Cardinality(OpenUnits(c))
             /\ Units(c, {a \in Attempts : Charges(a)}) = Cardinality(SpentUnits(c))
  <2> SUFFICES ASSUME NEW c
               PROVE  /\ Units(c, {a \in Attempts : Phase(a) \in {"prepared", "dispatch_claimed"}})
                           = Cardinality(OpenUnits(c))
                      /\ Units(c, {a \in Attempts : Charges(a)}) = Cardinality(SpentUnits(c))
    OBVIOUS
  <2>1. {a \in {b \in Attempts : Phase(b) \in {"prepared", "dispatch_claimed"}} : Counter(a[1]) = c}
          = OpenUnits(c)
    BY DEF OpenUnits
  <2>2. {a \in {b \in Attempts : Charges(b)} : Counter(a[1]) = c} = SpentUnits(c)
    BY DEF SpentUnits
  <2> QED
    BY <2>1, <2>2 DEF Units
<1> QED
  BY <1>1, <1>2 DEF validateJournalArtifactsAndBudgets, RecoveryInv, BudgetInv

\* The end.
LEMMA StopAccepted == ASSUME RecoveryInv, Recoverable PROVE validateStopRecovery
<1>1. run.stop \in {"budget", "runtime"} => run.status # "waiting" /\ SettledHistory
  BY DEF Recoverable
<1>2. ASSUME run.status \in Terminal
      PROVE  /\ run.stop # None /\ run.status = Target(run.stop) /\ run.active = None
             /\ \A c \in DOMAIN Ceiling : run.reserved[c] = 0
             /\ Unretired = {} /\ \A g \in Born : gen[g].phase \in {"sealed", "retired"}
             /\ assertRetiredGenerationCut
             /\ \A a \in Attempts : Phase(a) \in {"completed", "failed"} \/ ModelUnknown(a)
  <2>1. Quiet /\ run.stop # None
    BY <1>2 DEF RecoveryInv, EndsQuiet, Resolved
  <2>2. Unretired = {} /\ \A g \in Born : gen[g].phase \in {"sealed", "retired"}
    BY <2>1 DEF Quiet, Unretired, Born
  <2>3. assertRetiredGenerationCut
    <3> SUFFICES ASSUME NEW l \in Launch, launch[l].phase = "retired", launch[l].gen # None
                 PROVE  \/ gen[launch[l].gen].phase = "retired"
                        \/ gen[launch[l].gen].phase = "sealed" /\ launch[l].write = "sealed"
      BY DEF assertRetiredGenerationCut, Retired
    <3>1. Linked(l)
      BY DEF RecoveryInv, LinkInv
    <3> QED
      BY <2>1, <3>1 DEF Linked, Quiet
  <2>4. \A a \in Attempts : Phase(a) \in {"completed", "failed"} \/ ModelUnknown(a)
    <3>1. \A a \in Attempts : a[1] \in Op /\ a[2] \in DOMAIN att[a[1]]
      BY AttemptsArePairs
    <3> QED
      BY <1>2, <3>1 DEF RecoveryInv, Resolved, Phase, ModelUnknown
  <2> QED
    BY <2>1, <2>2, <2>3, <2>4 DEF Quiet
<1> QED
  BY <1>1, <1>2 DEF validateStopRecovery

\* The rows that the reducers write always recover, for any operations, budgets,
\* launches, generations, attempts, inspections and owners: every validator that
\* a supervisor runs over them accepts them, and the budget is what the journal
\* says and within its ceiling.
THEOREM RecoveryAlwaysAccepts == Spec => []RecoveryAccepts
<1>1. RecoveryInv => RecoveryAccepts
  <2> SUFFICES ASSUME RecoveryInv PROVE RecoveryAccepts
    OBVIOUS
  <2>1. Recoverable => readRecoveryClosure
    BY PreparationsAccepted, PointersAccepted, SourcesAccepted, SealsAccepted, LaunchesAccepted,
       WaitAccepted, HistoryAccepted, BudgetAccepted, StopAccepted DEF readRecoveryClosure
  <2> QED
    BY <2>1, BudgetAccepted DEF RecoveryAccepts
<1> QED
  BY <1>1, RecoveryInit, RecoveryNext, PTL DEF Spec

\* Whether the deadline of the Run has passed is one Boolean.
LateTyped == late \in BOOLEAN

\* Every row has the fields it should have: no counter of the budget falls below
\* zero, however attempts are retried, failed, marked and refunded.
THEOREM RowsAlwaysTyped == Spec => []TypeOK
<1>1. RecoveryInv /\ LateTyped => TypeOK
  <2> SUFFICES ASSUME RecoveryInv, LateTyped PROVE TypeOK
    OBVIOUS
  <2>1. \A c \in Counters : run.reserved[c] \in Nat /\ run.consumed[c] \in Nat
    BY FS_CardinalityType DEF RecoveryInv, BudgetInv
  <2>2. run \in RunRow
    BY DEF RecoveryInv, RowsTyped
  <2>3. run.reserved \in [Counters -> Nat] /\ run.consumed \in [Counters -> Nat]
    BY <2>1, <2>2 DEF RunRow
  <2>4. run \in [status : {"queued", "running", "waiting"} \cup Terminal,
                 epoch : Nat, active : Launch \cup {None}, stop : StopOrigin \cup {None},
                 next : Op \cup {Len(Kinds) + 1},
                 reserved : [{"modelTokens", "toolCalls"} -> Nat],
                 consumed : [{"modelTokens", "toolCalls"} -> Nat]]
    BY <2>2, <2>3 DEF RunRow, Counters
  <2>5. att \in [Op -> Seq(Attempt)] /\ handles \subseteq Op \X (1 .. MaxAttempts)
    BY DEF RecoveryInv, JournalInv, JournalTyped
  <2>6. launch \in [Launch -> LaunchRow] /\ gen \in [Gen -> GenRow]
    BY DEF RecoveryInv, RowsTyped
  <2>7. /\ owner \in 1 .. MaxOwner
        /\ probe \in [phase : {"none", "pending", "in_flight", "exhausted"},
                      count : 0 .. ProbeLimit, owner : Nat]
    BY DEF RecoveryInv, ProbeInv
  <2> QED
    BY <2>4, <2>5, <2>6, <2>7 DEF TypeOK, LaunchRow, GenRow, LateTyped
<1>2. Init => LateTyped
  BY DEF Init, LateTyped
<1>3. LateTyped /\ [Next]_vars => LateTyped'
  <2> SUFFICES ASSUME late \in BOOLEAN, [Next]_vars PROVE late' \in BOOLEAN
    BY DEF LateTyped
  <2>1. CASE Journal
    BY <2>1 DEF Journal, PrepareModel, PrepareTool, DenyTool, ClaimInvocation, ReleaseInvocation,
         CompleteModel, CompleteRead, CompleteEdit, FailBeforeDispatch, FailWithoutRelease,
         MarkUnknown, AbandonUnknown
  <2>2. CASE Worker
    BY <2>2, ZenonT(40) DEF Worker, BeginPreparation, RecordPreparationController, RecordWorkerPreactivated,
         ActivateLease, BeginRevocation, BeginCheckpoint, WriteState, RetirePreparation,
         RetirePreactivation, BeginRecovery, CompleteProbe, CompleteProbeStopped, LeaseExpires,
         RecordPreparationGeneration, ReserveLaunch, RegisterGeneration,
         RecordGenerationPreactivated, RetireQuarantined, SealGeneration, BeginProbe, CloseProbe
  <2>3. CASE Stop \/ DeadlinePasses \/ Restart
    BY <2>3 DEF Stop, Cancel, Expire, StopForResource, StopForModelFailure, DeriveStop,
         CommitTerminalStop, DeadlinePasses, Restart
  <2>4. CASE UNCHANGED vars
    BY <2>4 DEF vars
  <2> QED
    BY <2>1, <2>2, <2>3, <2>4 DEF Next
<1> QED
  BY <1>1, <1>2, <1>3, RecoveryInit, RecoveryNext, PTL DEF Spec
=============================================================================
