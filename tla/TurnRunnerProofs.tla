-------------------------- MODULE TurnRunnerProofs --------------------------
(* What a turn keeps for any bounds, any results and any policy: what the    *)
(* session file holds, and what a turn leaves behind when it ends.  Where    *)
(* the turn is says how the last record of the session was made, so the      *)
(* invariant ties each place to the record that was appended last.           *)
EXTENDS TurnRunner, FiniteSetTheorems, SequenceTheorems, TLAPS

USE BoundsAssumption

\* ---- the inductive invariant -------------------------------------------------

Kinds == {"user", "message", "call", "tool"}
Rec == [kind : Kinds, res : ToolResult \cup {"none"}]
SessionRow == [status : {"idle", "running"}, turn : Nat, recs : Seq(Rec)]
Locals == [run : Nat, i : Nat, retries : Nat, compactions : Nat, suppressed : BOOLEAN,
           ckpt : BOOLEAN, opened : BOOLEAN, uses : BOOLEAN, completed : BOOLEAN,
           edited : BOOLEAN, action : {"none", "message", "call"},
           decision : {"none", "allow", "deny", "policy-deny", "error"},
           res : ToolResult \cup {"none"}, last : ToolResult \cup {"none"},
           count : Nat, plan : BOOLEAN, denials : Nat,
           prev : [status : {"idle", "running"}, turn : Nat, len : Nat], produced : Nat]

\* The places of a turn: before its first record, in the loop with the session
\* between two actions, at a call, and settling its transaction.
Opening == {"begin", "checkpoint", "user", "open"}
Between == {"open", "loop", "compact", "complete", "request", "overflow", "act"}
AtCall  == {"decide", "run", "running", "store"}
InLoop  == {"loop", "compact", "complete", "request", "overflow", "act", "acted", "judge", "final",
            "finalize"} \cup AtCall
Settling == {"edits", "verdict", "ask", "apply", "stop"}
Early   == {"idle", "begin", "checkpoint", "finally", "reset"}
Places  == Opening \cup InLoop \cup Settling \cup Early

TurnTyped ==
    /\ conf \in Conf /\ signal \in BOOLEAN
    /\ mem \in SessionRow /\ disk \in SessionRow
    /\ tx \in [state : TxState, implicit : BOOLEAN]
    /\ pc \in Places /\ t \in Locals
    /\ pc \in {"act", "acted"} => t.action \in {"message", "call"}

Ordered(recs) == \A k \in 1 .. Len(recs) - 1 : Follows(recs[k], recs[k + 1])
EndsWith(recs, K) == recs # <<>> /\ recs[Len(recs)].kind \in K

\* Once the checkpoint is there the object and the file are one until a save
\* fails, and the last record is what the place needs before the next one.
SessionInv ==
    /\ Ordered(mem.recs) /\ Ordered(disk.recs)
    /\ pc \in {"user"} \cup Between \cup InLoop \cup Settling => mem = disk
    /\ pc \in Between => EndsWith(mem.recs, {"user", "tool"})
    /\ pc = "acted" => EndsWith(mem.recs, {t.action})
    /\ pc \in AtCall => EndsWith(mem.recs, {"call"})
    /\ pc = "judge" => EndsWith(mem.recs, {"tool"})

\* The results of this turn that the file holds, and the places of a turn before
\* its first record, with its records in order, and when it is over.
Stored == Cardinality(ToolsSince(t.prev.len))
Fresh  == {"begin", "checkpoint", "user"}
Middle == {"open"} \cup InLoop \cup Settling
Ending == {"finally", "reset", "idle"}

\* A save that failed leaves the object one record ahead of the file.
Ahead(e) == mem.recs = Append(disk.recs, e)

\* Every result is in the file, or would be with the next save; or the last one
\* is not, because its save failed, and the object may still have it.
Kept == /\ Stored = t.produced
        /\ mem.recs = disk.recs \/ \E e \in Rec : Ahead(e) /\ (e.kind # "tool" \/ t.prev.len > Len(disk.recs))
Lost == /\ conf.faults /\ Stored + 1 = t.produced /\ EndsWith(disk.recs, {"call"})
        /\ \/ mem.recs = disk.recs
           \/ \E e \in Rec : Ahead(e) /\ e.kind = "tool" /\ t.prev.len <= Len(disk.recs)

\* A result is produced in the step that leads to its storing.
StoredInv ==
    /\ mem.recs = disk.recs \/ (conf.faults /\ \E e \in Rec : Ahead(e))
    /\ pc \in Fresh => /\ t.produced = 0
                       /\ Len(mem.recs) <= t.prev.len /\ t.prev.len <= Len(disk.recs) + 1
    /\ pc \in Middle => /\ t.prev.len <= Len(disk.recs)
                        /\ Stored + (IF pc = "store" THEN 1 ELSE 0) = t.produced
    /\ pc \in Ending => Kept \/ Lost

\* A turn without a checkpoint has not been in the loop: it has added no record,
\* and what it changed in the object is put back when it ends.
EarlyInv ==
    /\ t.opened => t.ckpt
    /\ ~t.ckpt => pc \in Early /\ Len(mem.recs) = t.prev.len
    /\ ~t.ckpt /\ pc \in {"begin", "idle"} => mem.turn = t.prev.turn /\ mem.status = t.prev.status
    /\ pc = "idle" => mem = disk \/ conf.faults

\* A transaction that a turn opened stays in staging until the turn settles it;
\* any other implicit one was left by a turn that could not.
Settled == tx.implicit => \/ tx.state \in {"approved", "partial"}
                          \/ conf.applyPolicy = "manual-only" /\ tx.state = "validated"
TxInv ==
    /\ pc \in Opening => ~t.opened
    /\ pc \in {"finalize", "edits", "verdict", "ask", "apply"} => t.opened
    /\ t.completed => pc \in {"finally", "reset", "idle"}
    /\ t.opened /\ (pc \in Settling \cup {"reset"} \/ (pc = "finally" /\ t.completed)) => tx.state # "staging"
    /\ ~conf.faults =>
          /\ ~t.opened \/ pc \in {"stop", "reset", "idle"} => Settled
          /\ t.opened /\ pc \in InLoop => tx.state = "staging"
          /\ pc = "verdict" => tx.state = "validated"
          /\ pc = "apply" => tx.state = "approved"
          /\ pc = "finally" => Settled \/ Stale

TurnInv == TurnTyped /\ SessionInv /\ StoredInv /\ EarlyInv /\ TxInv

\* ---- types -----------------------------------------------------------------------

\* What the properties need to know of the locals that a step leaves alone.
Keeps(u) ==
    /\ u.run = t.run /\ u.prev = t.prev /\ u.opened = t.opened /\ u.ckpt = t.ckpt
    /\ u.completed = t.completed /\ u.produced = t.produced

\* The unwinding to the finally block drops what belongs to the call alone.
LEMMA LeaveMeans ==
  ASSUME NEW u \in Locals, Leave(u)
  PROVE  /\ t' \in Locals /\ pc' = "finally"
         /\ t'.run = u.run /\ t'.prev = u.prev /\ t'.opened = u.opened /\ t'.ckpt = u.ckpt
         /\ t'.completed = u.completed /\ t'.produced = u.produced
BY DEF Leave, Set, Go, Locals

\* A saved record is in the object, and in the file if the save succeeds.
LEMMA Appended ==
  ASSUME NEW m \in SessionRow, NEW e \in Rec
  PROVE  /\ [m EXCEPT !.recs = Append(@, e)] \in SessionRow
         /\ [m EXCEPT !.recs = Append(@, e)].recs = Append(m.recs, e)
<1>1. m.recs \in Seq(Rec)
  BY DEF SessionRow
<1>2. Append(m.recs, e) \in Seq(Rec)
  BY <1>1
<1> QED
  BY <1>2 DEF SessionRow

LEMMA TypedInit == Init => TurnTyped
<1> SUFFICES ASSUME Init PROVE TurnTyped
  OBVIOUS
<1>1. mem \in SessionRow /\ disk \in SessionRow
  BY DEF Init, SessionRow
<1>2. t \in Locals
  BY DEF Init, NoTurn, Locals
<1> QED
  BY <1>1, <1>2 DEF Init, TurnTyped, NoTx, TxState, Places, Early

LEMMA RowBoth ==
  ASSUME NEW m \in SessionRow, NEW st \in {"idle", "running"}, NEW n \in Nat
  PROVE  [m EXCEPT !.status = st, !.turn = n] = [status |-> st, turn |-> n, recs |-> m.recs]
<1>1. m = [status |-> m.status, turn |-> m.turn, recs |-> m.recs]
      /\ m.status \in {"idle", "running"} /\ m.turn \in Nat /\ m.recs \in Seq(Rec)
  BY DEF SessionRow
<1>2. [m EXCEPT !.status = st] = [status |-> st, turn |-> m.turn, recs |-> m.recs]
  BY <1>1
<1>3. PICK u : u = [m EXCEPT !.status = st]
  OBVIOUS
<1>4. u = [status |-> st, turn |-> m.turn, recs |-> m.recs]
  BY <1>2, <1>3
<1>5. [u EXCEPT !.turn = n] = [status |-> st, turn |-> n, recs |-> m.recs]
  BY <1>4
<1> QED
  BY <1>3, <1>5

\* Status and turn are written without touching the records.
LEMMA RowWritten ==
  ASSUME NEW m \in SessionRow, NEW st \in {"idle", "running"}, NEW n \in Nat
  PROVE  /\ [m EXCEPT !.status = st] \in SessionRow
         /\ [m EXCEPT !.status = st].recs = m.recs
         /\ [m EXCEPT !.status = st, !.turn = n] \in SessionRow
         /\ [m EXCEPT !.status = st, !.turn = n].recs = m.recs
         /\ [m EXCEPT !.status = st, !.turn = n].status = st
         /\ [m EXCEPT !.status = st, !.turn = n].turn = n
<1>1. m = [status |-> m.status, turn |-> m.turn, recs |-> m.recs]
      /\ m.status \in {"idle", "running"} /\ m.turn \in Nat /\ m.recs \in Seq(Rec)
  BY DEF SessionRow
<1>2. [m EXCEPT !.status = st] = [status |-> st, turn |-> m.turn, recs |-> m.recs]
  BY <1>1
<1>3. [m EXCEPT !.status = st, !.turn = n] = [status |-> st, turn |-> n, recs |-> m.recs]
  BY RowBoth
<1> QED
  BY <1>1, <1>2, <1>3 DEF SessionRow

LEMMA EntryTyped ==
  /\ \A k \in Kinds : Entry(k) \in Rec /\ Entry(k).kind = k
  /\ \A r \in ToolResult \cup {"none"} : Answer(r) \in Rec /\ Answer(r).kind = "tool"
BY DEF Entry, Answer, Rec, Kinds

\* A save that may fail: the object always, the file only if it succeeds.
LEMMA Saved ==
  ASSUME mem \in SessionRow, disk \in SessionRow, NEW e \in Rec, NEW ok \in BOOLEAN, Append1(e, ok)
  PROVE  /\ mem' \in SessionRow /\ disk' \in SessionRow
         /\ mem'.recs = Append(mem.recs, e)
         /\ ok => disk' = mem'
         /\ ~ok => disk' = disk
BY Appended DEF Append1, Save

LEMMA TypedStep == ASSUME TurnTyped, Step PROVE TurnTyped'
<1>1. /\ conf \in Conf /\ signal \in BOOLEAN /\ mem \in SessionRow /\ disk \in SessionRow
      /\ tx \in [state : TxState, implicit : BOOLEAN] /\ pc \in Places /\ t \in Locals
  BY DEF TurnTyped
<1>2. MaySave \subseteq BOOLEAN
  BY DEF MaySave
<1>3. conf' = conf /\ signal' = signal
  BY DEF Step, Begin, Checkpoint, AppendUser, OpenTurnTx, LoopHead, ThresholdCompact, CompleteModel, ModelReturns,
     OverflowRetry, RecordAction, TakeAction, Authorize, Refuse, RunTool, ToolReturns, StoreResult, Judge, FinishTurn, FinalizeTx,
     EmptyDiff, ValidateTx, RefuseTx, PassTx, ApproveTx, ApplyTx, Stop, AbortStale, Reset, Fault, TxCall, AbortTx,
     Stopped, Quiet
<1>4. mem' \in SessionRow /\ disk' \in SessionRow
  <2>1. ASSUME NEW e \in Rec, NEW ok \in MaySave, Append1(e, ok) PROVE mem' \in SessionRow /\ disk' \in SessionRow
    BY <1>1, <1>2, <2>1, Saved
  <2>2. CASE AppendUser
    <3>1. Entry("user") \in Rec
      BY EntryTyped DEF Kinds
    <3> QED
      BY <1>1, <2>1, <2>2, <3>1 DEF AppendUser, Stopped, Quiet
  <2>3. CASE RecordAction
    <3>1. pc = "act" => Entry(t.action) \in Rec
      BY EntryTyped DEF Kinds, TurnTyped
    <3> QED
      BY <1>1, <2>1, <2>3, <3>1 DEF RecordAction, At, Stopped, Quiet
  <2>4. CASE StoreResult
    <3>1. Answer(t.res) \in Rec
      BY <1>1, EntryTyped DEF Locals
    <3> QED
      BY <2>1, <2>4, <3>1 DEF StoreResult
  <2>5. CASE Begin
    <3>1. mem.turn \in Nat /\ mem.turn + 1 \in Nat
      BY <1>1 DEF SessionRow
    <3>2. [mem EXCEPT !.status = "running", !.turn = mem.turn + 1] \in SessionRow
      BY <1>1, <3>1, RowWritten
    <3> QED
      BY <1>1, <2>5, <3>2 DEF Begin, Stopped, Quiet
  <2>6. CASE Reset
    <3>1. t.prev.status \in {"idle", "running"} /\ t.prev.turn \in Nat
      BY <1>1 DEF Locals
    <3>2. [mem EXCEPT !.status = "idle"] \in SessionRow /\ Restored \in SessionRow
      BY <1>1, <3>1, RowWritten DEF Restored
    <3> QED
      BY <1>1, <2>6, <3>2 DEF Reset, Save
  <2>7. CASE \/ Checkpoint \/ OpenTurnTx \/ LoopHead \/ ThresholdCompact \/ CompleteModel \/ ModelReturns
             \/ OverflowRetry \/ TakeAction \/ Authorize \/ RunTool \/ ToolReturns \/ Judge
    BY <1>1, <2>7 DEF Checkpoint, OpenTurnTx, LoopHead, ThresholdCompact, CompleteModel, ModelReturns,
       OverflowRetry, TakeAction, Authorize, RunTool, ToolReturns, Judge, Stopped, Quiet, MutateSession
  <2>8. CASE \/ FinishTurn \/ FinalizeTx \/ EmptyDiff \/ ValidateTx \/ RefuseTx \/ PassTx \/ ApproveTx
             \/ ApplyTx \/ Stop \/ AbortStale \/ Fault("checkpoint") \/ Fault("open")
    BY <1>1, <2>8 DEF FinishTurn, FinalizeTx, EmptyDiff, ValidateTx, RefuseTx, PassTx, ApproveTx,
       ApplyTx, Stop, AbortStale, Fault, Quiet, MutateSession, TxCall, AbortTx
  <2> QED
    BY <2>2, <2>3, <2>4, <2>5, <2>6, <2>7, <2>8 DEF Step
<1>5. tx' \in [state : TxState, implicit : BOOLEAN]
  <2>1. NoTx \in [state : TxState, implicit : BOOLEAN]
    BY DEF NoTx, TxState
  <2>2. \A s \in TxState : [tx EXCEPT !.state = s] \in [state : TxState, implicit : BOOLEAN]
    BY <1>1
  <2>3. tx' = tx \/ tx' = NoTx \/ tx' = [state |-> "staging", implicit |-> TRUE]
        \/ \E s \in TxState : tx' = [tx EXCEPT !.state = s]
    <3>1. CASE \/ Begin \/ Checkpoint \/ AppendUser \/ OpenTurnTx \/ LoopHead \/ ThresholdCompact \/ CompleteModel
               \/ ModelReturns \/ OverflowRetry \/ RecordAction \/ TakeAction \/ Authorize \/ RunTool
               \/ ToolReturns \/ StoreResult \/ Judge
      BY <3>1 DEF Begin, Checkpoint, AppendUser, OpenTurnTx, LoopHead, ThresholdCompact, CompleteModel,
         ModelReturns, OverflowRetry, RecordAction, TakeAction, Authorize, RunTool, ToolReturns, StoreResult,
         Judge, Stopped, Quiet
    <3>2. CASE \/ FinishTurn \/ FinalizeTx \/ EmptyDiff \/ ValidateTx \/ RefuseTx \/ PassTx \/ ApproveTx
               \/ ApplyTx \/ Stop \/ AbortStale \/ Reset \/ Fault("checkpoint") \/ Fault("open")
      BY <3>2 DEF FinishTurn, FinalizeTx, EmptyDiff, ValidateTx, RefuseTx, PassTx, ApproveTx,
         ApplyTx, Stop, AbortStale, Reset, Fault, Quiet, TxCall, AbortTx, TxState
    <3> QED
      BY <3>1, <3>2 DEF Step
  <2>4. [state |-> "staging", implicit |-> TRUE] \in [state : TxState, implicit : BOOLEAN]
    BY DEF TxState
  <2> QED
    BY <1>1, <2>1, <2>2, <2>3, <2>4, Zenon
<1>6. t' \in Locals /\ pc' \in Places /\ (pc' \in {"act", "acted"} => t'.action \in {"message", "call"})
  <2>t. t \in Locals /\ pc \in Places
    BY <1>1
  <2>1. ASSUME Throw PROVE t' \in Locals /\ pc' = "finally"
    BY <2>1, <2>t, LeaveMeans DEF Throw
  <2>2. ASSUME Stopped PROVE t' \in Locals /\ pc' = "finally"
    BY <2>2, <2>1 DEF Stopped
  <2>3. CASE Begin \/ Checkpoint \/ AppendUser \/ OpenTurnTx
    <3>1. /\ [t EXCEPT !.ckpt = TRUE] \in Locals /\ [t EXCEPT !.uses = TRUE] \in Locals
          /\ [t EXCEPT !.uses = TRUE, !.opened = TRUE] \in Locals
      BY <2>t DEF Locals
    <3>2. /\ t' \in {t, [t EXCEPT !.ckpt = TRUE], [t EXCEPT !.uses = TRUE], [t EXCEPT !.uses = TRUE, !.opened = TRUE]}
             \/ t' \in Locals
          /\ pc' \in {"checkpoint", "user", "open", "loop", "finally"}
      BY <2>1, <2>2, <2>3 DEF Begin, Checkpoint, AppendUser, OpenTurnTx, Set, Go
    <3> QED
      BY <2>t, <3>1, <3>2 DEF Places, Opening, InLoop, Early
  <2>4. CASE LoopHead
    BY <2>1, <2>2, <2>4, <2>t DEF LoopHead, Set, Go, Locals, Places, InLoop, Early
  <2>5. CASE ThresholdCompact
    <3>1. [t EXCEPT !.compactions = 1] \in Locals /\ [t EXCEPT !.suppressed = TRUE] \in Locals
      BY <2>t DEF Locals
    <3> QED
      BY <2>1, <2>2, <2>5, <2>t, <3>1 DEF ThresholdCompact, Set, Go, Places, InLoop, Early
  <2>6. CASE CompleteModel \/ ModelReturns
    BY <2>1, <2>2, <2>6, <2>t DEF CompleteModel, ModelReturns, Set, Go, Locals, Places, InLoop, Early
  <2>7. CASE OverflowRetry
    BY <2>1, <2>2, <2>7, <2>t DEF OverflowRetry, Set, Go, Locals, Places, InLoop, Early
  <2>8. CASE RecordAction
    BY <2>1, <2>2, <2>8, <2>t DEF RecordAction, At, Set, Go, Locals, Places, InLoop, Early, TurnTyped
  <2>9. CASE TakeAction
    BY <2>1, <2>2, <2>9, <2>t DEF TakeAction, Set, Go, Locals, Places, InLoop, AtCall, Early
  <2>10. ASSUME NEW d \in {"deny", "policy-deny", "error"}, Refuse(d) PROVE t' \in Locals /\ pc' = "store"
    <3>1. PICK r \in Denial : t' = [t EXCEPT !.decision = d, !.res = r, !.produced = @ + 1] /\ pc' = "store"
      BY <2>10 DEF Refuse, Set, Go
    <3>2. r \in ToolResult \cup {"none"} /\ t.produced + 1 \in Nat
      BY <2>t DEF ToolResult, Locals
    <3>3. [t EXCEPT !.decision = d, !.res = r, !.produced = @ + 1] \in Locals
      BY <2>t, <3>2 DEF Locals
    <3> QED
      BY <3>1, <3>3
  <2>11. CASE Authorize
    <3>1. CASE \E pre \in {"deny", "none"}, policy \in {"allow", "deny", "ask"},
                  hook \in {"allow", "deny", "none"}, user \in {"allow", "deny"} :
                 LET d == Decision(pre, policy, hook, user)
                 IN  /\ ~signal /\ Quiet
                     /\ IF d = "allow" THEN Set([t EXCEPT !.decision = d], "run") ELSE Refuse(d)
      <4>1. \A pre \in {"deny", "none"}, policy \in {"allow", "deny", "ask"},
               hook \in {"allow", "deny", "none"}, user \in {"allow", "deny"} :
              Decision(pre, policy, hook, user) \in {"allow", "deny", "policy-deny"}
        BY DEF Decision
      <4>2. \/ \E d \in {"deny", "policy-deny"} : Refuse(d)
            \/ Set([t EXCEPT !.decision = "allow"], "run")
        BY <3>1, <4>1
      <4> QED
        BY <2>10, <2>t, <4>2 DEF Set, Go, Locals, Places, InLoop, AtCall
    <3> QED
      BY <2>2, <2>10, <2>11, <3>1 DEF Authorize, Places, InLoop, AtCall, Early
  <2>12. CASE RunTool \/ ToolReturns \/ StoreResult
    <3>1. CASE RunTool \/ StoreResult
      BY <2>1, <2>2, <2>t, <3>1 DEF RunTool, StoreResult, Set, Go, Places, InLoop, AtCall, Early
    <3>2. CASE ToolReturns
      <4>1. ASSUME NEW r \in ToolResult \cup {"none"}, NEW e \in BOOLEAN
            PROVE [t EXCEPT !.res = r, !.edited = @ \/ e, !.produced = @ + 1] \in Locals
        <5>1. (t.edited \/ e) \in BOOLEAN /\ t.produced + 1 \in Nat
          BY <2>t DEF Locals
        <5> QED
          BY <2>t, <5>1, ZenonT(40) DEF Locals
      <4>2. Result \cup (IF conf.plan THEN {"draft", "ready"} ELSE {}) \subseteq ToolResult \cup {"none"}
        BY DEF ToolResult
      <4> QED
        BY <2>2, <3>2, <4>1, <4>2, ZenonT(40) DEF ToolReturns, Set, Go, Places, InLoop, AtCall, Early
    <3> QED
      BY <2>12, <3>1, <3>2
  <2>13. CASE Judge
    <3> DEFINE next(same) == [t EXCEPT !.count = Repeats, !.last = t.res, !.denials = @ + same,
                                     !.decision = "none", !.res = "none",
                                     !.plan = @ \/ t.res \in {"draft", "ready"}]
    <3>1. Repeats \in Nat
      BY <2>t DEF Repeats, Locals
    <3>2. ASSUME NEW same \in {0, 1} PROVE next(same) \in Locals /\ next(same).i \in Nat
      <4>1. t.denials + same \in Nat /\ (t.plan \/ t.res \in {"draft", "ready"}) \in BOOLEAN
        BY <2>t DEF Locals
      <4> QED
        BY <2>t, <3>1, <4>1, ZenonT(40) DEF Locals
    <3>3. \A u \in Locals : [u EXCEPT !.i = @ + 1] \in Locals
      BY DEF Locals
    <3>4. PICK same \in {0, 1} :
            \/ Throw
            \/ t' = next(same) /\ pc' = "final"
            \/ t' = [next(same) EXCEPT !.i = @ + 1] /\ pc' = "loop"
      BY <2>13 DEF Judge, Set, Go
    <3> HIDE DEF next
    <3> QED
      BY <2>1, <3>2, <3>3, <3>4 DEF Places, InLoop, Early
  <2>14. CASE FinishTurn \/ PassTx \/ AbortStale \/ Reset \/ Fault("checkpoint") \/ Fault("open")
    BY <2>1, <2>14, <2>t DEF FinishTurn, PassTx, AbortStale, Reset, Fault, Set, Go, Places, InLoop, Settling, Early
  <2>15. CASE FinalizeTx \/ EmptyDiff \/ ValidateTx \/ RefuseTx \/ ApproveTx \/ ApplyTx
    BY <2>1, <2>15, <2>t DEF FinalizeTx, EmptyDiff, ValidateTx, RefuseTx, ApproveTx, ApplyTx, TxCall, AbortTx, Set, Go, Places, Settling, Early
  <2>16. CASE Stop
    <3>1. [t EXCEPT !.completed = TRUE] \in Locals
      BY <2>t DEF Locals
    <3> QED
      BY <2>16, <3>1, LeaveMeans DEF Stop, Places, Early
  <2> QED
    BY <2>3, <2>4, <2>5, <2>6, <2>7, <2>8, <2>9, <2>11, <2>12, <2>13, <2>14, <2>15, <2>16 DEF Step
<1> QED
  BY <1>1, <1>3, <1>4, <1>5, <1>6 DEF TurnTyped

\* A turn begins with fresh locals that remember the session as it is.
LEMMA StartMeans ==
  ASSUME TurnTyped, StartTurn
  PROVE  /\ t' \in Locals /\ pc = "idle" /\ pc' = "begin" /\ mem' = mem /\ disk' = disk /\ tx' = tx /\ conf' = conf
         /\ t'.prev = [status |-> mem.status, turn |-> mem.turn, len |-> Len(mem.recs)]
         /\ ~t'.ckpt /\ ~t'.opened /\ ~t'.completed /\ t'.produced = 0
<1>1. t.run + 1 \in Nat
  BY DEF TurnTyped, Locals
<1>2. [status |-> mem.status, turn |-> mem.turn, len |-> Len(mem.recs)]
        \in [status : {"idle", "running"}, turn : Nat, len : Nat]
  <2>1. mem.recs \in Seq(Rec) /\ mem.status \in {"idle", "running"} /\ mem.turn \in Nat
    BY DEF TurnTyped, SessionRow
  <2> QED
    BY <2>1
<1>3. NoTurn \in Locals /\ ~NoTurn.ckpt /\ ~NoTurn.opened /\ ~NoTurn.completed /\ NoTurn.produced = 0
  BY DEF NoTurn, Locals
<1>4. PICK u \in [status : {"idle", "running"}, turn : Nat, len : Nat] :
        u = [status |-> mem.status, turn |-> mem.turn, len |-> Len(mem.recs)]
  BY <1>2
<1>5. t' = [NoTurn EXCEPT !.run = t.run + 1, !.prev = u]
  BY <1>4 DEF StartTurn, Set
<1>6. t' \in Locals /\ t'.prev = u /\ ~t'.ckpt /\ ~t'.opened /\ ~t'.completed /\ t'.produced = 0
  BY <1>1, <1>3, <1>5 DEF Locals
<1> QED
  BY <1>4, <1>6 DEF StartTurn, At, Set, Go

LEMMA TypedNext == TurnTyped /\ [Next]_vars => TurnTyped'
<1> SUFFICES ASSUME TurnTyped, [Next]_vars PROVE TurnTyped'
  OBVIOUS
<1>1. CASE Step
  BY <1>1, TypedStep
<1>2. CASE StartTurn
  BY <1>2, StartMeans DEF StartTurn, TurnTyped, Places, Opening
<1>3. CASE Cancel
  BY <1>3 DEF Cancel, TurnTyped
<1>4. CASE UserOpensTx \/ UserSettlesTx
  <2>1. /\ conf' = conf /\ signal' = signal /\ mem' = mem /\ disk' = disk /\ pc' = pc /\ t' = t
        /\ tx' = [state |-> "staging", implicit |-> FALSE] \/ tx' = [state |-> "none", implicit |-> FALSE]
    BY <1>4 DEF UserOpensTx, UserSettlesTx, NoTx
  <2>2. tx' \in [state : TxState, implicit : BOOLEAN]
    <3>1. /\ [state |-> "staging", implicit |-> FALSE] \in [state : TxState, implicit : BOOLEAN]
          /\ [state |-> "none", implicit |-> FALSE] \in [state : TxState, implicit : BOOLEAN]
      BY DEF TxState
    <3> QED
      BY <2>1, <3>1, Zenon
  <2> QED
    BY <2>1, <2>2 DEF TurnTyped
<1>5. CASE UNCHANGED vars
  BY <1>5 DEF vars, TurnTyped
<1> QED
  BY <1>1, <1>2, <1>3, <1>4, <1>5 DEF Next

\* ---- the locals of a step ----------------------------------------------------------

\* What a step of the turn does to the locals that the properties are about.
LEMMA LocalsStep ==
  ASSUME TurnTyped, Step
  PROVE  /\ t'.run = t.run /\ t'.prev = t.prev
         /\ t'.opened = t.opened \/ (t'.opened /\ pc = "open" /\ pc' = "loop" /\ tx'.state = "staging" /\ tx'.implicit)
         /\ t'.ckpt = t.ckpt \/ (t'.ckpt /\ pc = "checkpoint" /\ pc' = "user")
         /\ t'.completed = t.completed \/ (pc = "stop" /\ pc' = "finally")
         /\ t'.produced = IF pc' = "store" THEN t.produced + 1 ELSE t.produced
<1>1. t \in Locals
  BY DEF TurnTyped
<1>2. ASSUME Throw PROVE Keeps(t') /\ pc' = "finally"
  BY <1>1, <1>2, LeaveMeans DEF Throw, Keeps
<1>3. ASSUME Stopped PROVE Keeps(t') /\ pc' = "finally"
  BY <1>2, <1>3 DEF Stopped
<1>4. CASE Begin \/ AppendUser \/ LoopHead
  <2>1. t' = t \/ t' = [t EXCEPT !.retries = 0] \/ (Keeps(t') /\ pc' = "finally")
    BY <1>2, <1>3, <1>4 DEF Begin, AppendUser, LoopHead, Set
  <2>2. pc' # "store"
    BY <1>2, <1>3, <1>4 DEF Begin, AppendUser, LoopHead, Set, Go
  <2> QED
    BY <1>1, <2>1, <2>2 DEF Keeps, Locals
<1>5. CASE Checkpoint
  BY <1>1, <1>3, <1>5 DEF Checkpoint, At, Set, Go, Keeps, Locals
<1>6. CASE OpenTurnTx
  <2>1. \/ Keeps(t') /\ pc' = "finally"
        \/ pc' = "loop" /\ (t' = t \/ t' = [t EXCEPT !.uses = TRUE])
        \/ /\ pc = "open" /\ pc' = "loop" /\ t' = [t EXCEPT !.uses = TRUE, !.opened = TRUE]
           /\ tx' = [state |-> "staging", implicit |-> TRUE]
    BY <1>3, <1>6 DEF OpenTurnTx, At, Set, Go
  <2>2. CASE pc' = "loop" /\ (t' = t \/ t' = [t EXCEPT !.uses = TRUE])
    BY <1>1, <2>2 DEF Locals
  <2>3. CASE /\ pc = "open" /\ pc' = "loop" /\ t' = [t EXCEPT !.uses = TRUE, !.opened = TRUE]
             /\ tx' = [state |-> "staging", implicit |-> TRUE]
    <3>1. /\ t'.run = t.run /\ t'.prev = t.prev /\ t'.opened /\ t'.ckpt = t.ckpt
          /\ t'.completed = t.completed /\ t'.produced = t.produced
      BY <1>1, <2>3 DEF Locals
    <3> QED
      BY <2>3, <3>1
  <2> QED
    BY <2>1, <2>2, <2>3 DEF Keeps
<1>7. CASE ThresholdCompact \/ CompleteModel \/ ModelReturns
  <2>1. \/ t' = t \/ t' = [t EXCEPT !.compactions = 1] \/ t' = [t EXCEPT !.suppressed = TRUE]
        \/ \E a \in {"message", "call"} : t' = [t EXCEPT !.action = a]
        \/ Keeps(t')
    BY <1>2, <1>3, <1>7 DEF ThresholdCompact, CompleteModel, ModelReturns, Set
  <2>2. pc' # "store"
    BY <1>2, <1>3, <1>7 DEF ThresholdCompact, CompleteModel, ModelReturns, Set, Go
  <2> QED
    BY <1>1, <2>1, <2>2 DEF Keeps, Locals
<1>8. CASE OverflowRetry \/ RecordAction \/ TakeAction
  <2>1. t' = t \/ t' = [t EXCEPT !.retries = @ + 1] \/ t' = [t EXCEPT !.action = "none"] \/ Keeps(t')
    BY <1>2, <1>3, <1>8 DEF OverflowRetry, RecordAction, TakeAction, Set
  <2>2. pc' # "store"
    BY <1>2, <1>3, <1>8 DEF OverflowRetry, RecordAction, TakeAction, Set, Go
  <2> QED
    BY <1>1, <2>1, <2>2 DEF Keeps, Locals
<1>9. CASE Authorize
  <2>1. \/ Keeps(t') /\ pc' = "finally"
        \/ t' = [t EXCEPT !.decision = "allow"] /\ pc' = "run"
        \/ \E d \in {"allow", "deny", "policy-deny", "error"} : Refuse(d)
    <3>1. \A pre \in {"deny", "none"}, policy \in {"allow", "deny", "ask"},
             hook \in {"allow", "deny", "none"}, user \in {"allow", "deny"} :
            Decision(pre, policy, hook, user) \in {"allow", "deny", "policy-deny", "error"}
      BY DEF Decision
    <3>2. CASE Stopped \/ (~signal /\ Refuse("error") /\ Quiet)
      BY <1>3, <3>2
    <3>3. CASE \E pre \in {"deny", "none"}, policy \in {"allow", "deny", "ask"},
                  hook \in {"allow", "deny", "none"}, user \in {"allow", "deny"} :
                 LET d == Decision(pre, policy, hook, user)
                 IN  /\ ~signal /\ Quiet
                     /\ IF d = "allow" THEN Set([t EXCEPT !.decision = d], "run") ELSE Refuse(d)
      <4>1. \/ \E d \in {"allow", "deny", "policy-deny", "error"} : Refuse(d)
            \/ Set([t EXCEPT !.decision = "allow"], "run")
        BY <3>1, <3>3
      <4> QED
        BY <4>1 DEF Set, Go
    <3> QED
      BY <1>9, <3>2, <3>3 DEF Authorize
  <2>2. ASSUME NEW d \in {"allow", "deny", "policy-deny", "error"}, Refuse(d)
        PROVE  pc' = "store" /\ \E r \in Denial : t' = [t EXCEPT !.decision = d, !.res = r, !.produced = @ + 1]
    BY <2>2 DEF Refuse, Set, Go
  <2>3. CASE \E d \in {"allow", "deny", "policy-deny", "error"} : Refuse(d)
    <3>1. PICK d \in {"allow", "deny", "policy-deny", "error"}, r \in Denial : t' = [t EXCEPT !.decision = d, !.res = r, !.produced = @ + 1] /\ pc' = "store"
      BY <2>2, <2>3
    <3> QED
      BY <1>1, <3>1 DEF Locals
  <2> QED
    BY <1>1, <2>1, <2>3 DEF Keeps, Locals
<1>10. CASE RunTool \/ StoreResult
  <2>1. (t' = t \/ Keeps(t')) /\ pc' # "store"
    BY <1>2, <1>3, <1>10 DEF RunTool, StoreResult, Set, Go
  <2> QED
    BY <2>1 DEF Keeps
<1>11. CASE ToolReturns
  <2>1. \/ Keeps(t') /\ pc' = "finally"
        \/ pc' = "store" /\ \E r, e : t' = [t EXCEPT !.res = r, !.edited = @ \/ e, !.produced = @ + 1]
    BY <1>3, <1>11 DEF ToolReturns, Set, Go
  <2>2. CASE pc' = "store"
    <3>1. PICK r, e : t' = [t EXCEPT !.res = r, !.edited = @ \/ e, !.produced = @ + 1]
      BY <2>1, <2>2
    <3> QED
      BY <1>1, <2>2, <3>1 DEF Locals
  <2> QED
    BY <2>1, <2>2 DEF Keeps
<1>12. CASE Judge
  <2> DEFINE next(same) == [t EXCEPT !.count = Repeats, !.last = t.res, !.denials = @ + same,
                                   !.decision = "none", !.res = "none",
                                   !.plan = @ \/ t.res \in {"draft", "ready"}]
  <2>1. PICK same \in {0, 1} :
          \/ Throw
          \/ t' = next(same) /\ pc' = "final"
          \/ t' = [next(same) EXCEPT !.i = @ + 1] /\ pc' = "loop"
    BY <1>12 DEF Judge, Set, Go
  <2>2. Keeps(next(same)) /\ Keeps([next(same) EXCEPT !.i = @ + 1])
    <3>1. Keeps(next(same)) /\ DOMAIN next(same) = DOMAIN t
      BY <1>1 DEF Keeps, Locals
    <3>2. DOMAIN t = {"run", "i", "retries", "compactions", "suppressed", "ckpt", "opened", "uses", "completed",
                      "edited", "action", "decision", "res", "last", "count", "plan", "denials", "prev", "produced"}
      BY <1>1 DEF Locals
    <3>3. PICK u : u = next(same)
      OBVIOUS
    <3>4. Keeps([u EXCEPT !.i = @ + 1])
      BY <3>1, <3>2, <3>3 DEF Keeps
    <3> QED
      BY <3>1, <3>3, <3>4
  <2>3. Keeps(t') /\ pc' # "store"
    <3> HIDE DEF next
    <3> QED
      BY <1>2, <2>1, <2>2
  <2> QED
    BY <2>3 DEF Keeps
<1>13. CASE FinishTurn \/ PassTx \/ AbortStale \/ Reset \/ Fault("checkpoint") \/ Fault("open")
  <2>1. (t' = t \/ Keeps(t')) /\ pc' # "store"
    BY <1>2, <1>13 DEF FinishTurn, PassTx, AbortStale, Reset, Fault, Set, Go
  <2> QED
    BY <2>1 DEF Keeps
<1>14. CASE FinalizeTx \/ EmptyDiff \/ ValidateTx \/ RefuseTx \/ ApproveTx \/ ApplyTx
  <2>1. (t' = t \/ Keeps(t')) /\ pc' # "store"
    BY <1>2, <1>14 DEF FinalizeTx, EmptyDiff, ValidateTx, RefuseTx, ApproveTx, ApplyTx, TxCall, AbortTx, Set, Go
  <2> QED
    BY <2>1 DEF Keeps
<1>15. CASE Stop
  <2>1. [t EXCEPT !.completed = TRUE] \in Locals
    BY <1>1 DEF Locals
  <2>2. /\ pc = "stop" /\ pc' = "finally"
        /\ t'.run = t.run /\ t'.prev = t.prev /\ t'.opened = t.opened /\ t'.ckpt = t.ckpt /\ t'.produced = t.produced
    BY <1>1, <1>15, <2>1, LeaveMeans DEF Stop, At, Locals
  <2> QED
    BY <2>2
<1> QED
  BY <1>4, <1>5, <1>6, <1>7, <1>8, <1>9, <1>10, <1>11, <1>12, <1>13, <1>14, <1>15 DEF Step

\* ---- the session -----------------------------------------------------------------------

LEMMA OrderedAppend ==
  ASSUME NEW s \in Seq(Rec), NEW e \in Rec, Ordered(s), s = <<>> \/ Follows(s[Len(s)], e)
  PROVE  Ordered(Append(s, e)) /\ \A K : e.kind \in K => EndsWith(Append(s, e), K)
<1>1. /\ Len(Append(s, e)) = Len(s) + 1 /\ Append(s, e)[Len(s) + 1] = e /\ Append(s, e) # <<>>
      /\ \A k \in 1 .. Len(s) : Append(s, e)[k] = s[k]
  BY AppendProperties
<1>2. Len(s) \in Nat /\ (s # <<>> => Len(s) > 0) /\ (s = <<>> => Len(s) = 0)
  BY EmptySeq
<1>3. Ordered(Append(s, e))
  <2> SUFFICES ASSUME NEW k \in 1 .. Len(Append(s, e)) - 1 PROVE Follows(Append(s, e)[k], Append(s, e)[k + 1])
    BY DEF Ordered
  <2>1. k \in 1 .. Len(s)
    BY <1>1, <1>2
  <2>2. CASE k = Len(s)
    BY <1>1, <1>2, <2>1, <2>2
  <2>3. CASE k # Len(s)
    <3>1. k \in 1 .. Len(s) - 1 /\ k + 1 \in 1 .. Len(s)
      BY <1>2, <2>1, <2>3
    <3>2. Follows(s[k], s[k + 1])
      BY <3>1 DEF Ordered
    <3> QED
      BY <1>1, <2>1, <3>1, <3>2
  <2> QED
    BY <2>2, <2>3
<1>4. \A K : e.kind \in K => EndsWith(Append(s, e), K)
  BY <1>1 DEF EndsWith
<1> QED
  BY <1>3, <1>4

LEMMA SessionStep == ASSUME TurnTyped, SessionInv, Step PROVE SessionInv'
<1>1. /\ mem \in SessionRow /\ disk \in SessionRow /\ mem.recs \in Seq(Rec) /\ disk.recs \in Seq(Rec) /\ t \in Locals
      /\ MaySave \subseteq BOOLEAN
  BY DEF TurnTyped, SessionRow, MaySave
<1>2. ASSUME pc' = "finally", mem' = mem, disk' = disk PROVE SessionInv'
  BY <1>2 DEF SessionInv, Between, InLoop, Settling, AtCall
<1>3. ASSUME Throw PROVE pc' = "finally"
  BY <1>3 DEF Throw, Leave, Set, Go
<1>4. ASSUME Stopped PROVE SessionInv'
  BY <1>2, <1>3, <1>4 DEF Stopped, Quiet
<1>5. ASSUME Throw, mem' = mem, disk' = disk PROVE SessionInv'
  BY <1>2, <1>3, <1>5
<1>6. ASSUME NEW e \in Rec, NEW ok \in BOOLEAN, Append1(e, ok), mem = disk,
             mem.recs = <<>> \/ Follows(mem.recs[Len(mem.recs)], e)
      PROVE  /\ Ordered(mem.recs)' /\ Ordered(disk.recs)' /\ (ok => mem' = disk')
             /\ \A K : e.kind \in K => EndsWith(mem'.recs, K)
  <2>1. /\ mem'.recs = Append(mem.recs, e)
        /\ ok => disk' = mem'
        /\ ~ok => disk' = disk
    BY <1>1, <1>6, Saved
  <2>2. /\ Ordered(Append(mem.recs, e)) /\ Ordered(disk.recs)
        /\ \A K : e.kind \in K => EndsWith(Append(mem.recs, e), K)
    BY <1>1, <1>6, OrderedAppend DEF SessionInv
  <2>3. disk'.recs = Append(mem.recs, e) \/ disk'.recs = disk.recs
    BY <1>6, <2>1
  <2> QED
    BY <2>1, <2>2, <2>3 DEF Ordered
<1>7. CASE Begin
  <2>1. CASE ~signal /\ mem' = [mem EXCEPT !.status = "running", !.turn = @ + 1] /\ Set(t, "checkpoint") /\ UNCHANGED disk
    <3>1. mem'.recs = mem.recs /\ pc' = "checkpoint"
      BY <1>1, <2>1 DEF Set, Go, SessionRow
    <3> QED
      BY <2>1, <3>1 DEF SessionInv, Between, InLoop, Settling, AtCall
  <2> QED
    BY <1>4, <1>7, <2>1 DEF Begin
<1>8. CASE Checkpoint
  <2>1. CASE MutateSession /\ pc' = "user"
    BY <2>1 DEF MutateSession, SessionInv, Between, InLoop, Settling, AtCall
  <2> QED
    BY <1>4, <1>8, <2>1 DEF Checkpoint, Set, Go
<1>9. CASE AppendUser
  <2>1. ASSUME NEW ok \in MaySave, At("user"), Append1(Entry("user"), ok), IF ok THEN Set(t, "open") ELSE Throw
        PROVE SessionInv'
    <3>1. Entry("user") \in Rec /\ Entry("user").kind = "user" /\ mem = disk
      BY <2>1, EntryTyped DEF Kinds, SessionInv, At
    <3>2. mem.recs = <<>> \/ Follows(mem.recs[Len(mem.recs)], Entry("user"))
      <4>1. mem.recs # <<>> => mem.recs[Len(mem.recs)] \in Rec
        BY <1>1, EmptySeq
      <4> QED
        BY <3>1, <4>1 DEF Follows, Rec, Kinds
    <3>3. /\ Ordered(mem.recs)' /\ Ordered(disk.recs)' /\ (ok => mem' = disk')
          /\ EndsWith(mem'.recs, {"user", "tool"})
      BY <1>1, <1>6, <2>1, <3>1, <3>2
    <3>4. (ok /\ pc' = "open") \/ pc' = "finally"
      BY <1>3, <2>1 DEF Set, Go
    <3> QED
      BY <3>3, <3>4 DEF SessionInv, Between, InLoop, Settling, AtCall
  <2> QED
    BY <1>4, <1>9, <2>1 DEF AppendUser
<1>10. CASE RecordAction
  <2>1. ASSUME NEW ok \in MaySave, At("act"), Append1(Entry(t.action), ok), IF ok THEN Set(t, "acted") ELSE Throw
        PROVE SessionInv'
    <3>1. /\ t.action \in {"message", "call"} /\ Entry(t.action) \in Rec /\ Entry(t.action).kind = t.action
          /\ mem = disk /\ EndsWith(mem.recs, {"user", "tool"})
      BY <2>1, EntryTyped DEF Kinds, SessionInv, At, TurnTyped, Between, InLoop
    <3>2. Follows(mem.recs[Len(mem.recs)], Entry(t.action))
      BY <3>1 DEF Follows, EndsWith
    <3>3. /\ Ordered(mem.recs)' /\ Ordered(disk.recs)' /\ (ok => mem' = disk')
          /\ EndsWith(mem'.recs, {t.action})
      BY <1>1, <1>6, <2>1, <3>1, <3>2
    <3>4. (ok /\ pc' = "acted" /\ t' = t) \/ pc' = "finally"
      BY <1>3, <2>1 DEF Set, Go
    <3> QED
      BY <3>3, <3>4 DEF SessionInv, Between, InLoop, Settling, AtCall
  <2> QED
    BY <1>4, <1>5, <1>10, <2>1 DEF RecordAction, Quiet
<1>11. CASE StoreResult
  <2>1. PICK ok \in MaySave : At("store") /\ Append1(Answer(t.res), ok) /\ IF ok THEN Set(t, "judge") ELSE Throw
    BY <1>11 DEF StoreResult
  <2>2. /\ Answer(t.res) \in Rec /\ Answer(t.res).kind = "tool"
        /\ mem = disk /\ EndsWith(mem.recs, {"call"})
    BY <1>1, <2>1, EntryTyped DEF SessionInv, At, AtCall, InLoop, Locals
  <2>3. Follows(mem.recs[Len(mem.recs)], Answer(t.res))
    BY <2>2 DEF Follows, EndsWith
  <2>4. /\ Ordered(mem.recs)' /\ Ordered(disk.recs)' /\ (ok => mem' = disk')
        /\ EndsWith(mem'.recs, {"tool"})
    BY <1>1, <1>6, <2>1, <2>2, <2>3
  <2>5. (ok /\ pc' = "judge") \/ pc' = "finally"
    BY <1>3, <2>1 DEF Set, Go
  <2> QED
    BY <2>4, <2>5 DEF SessionInv, Between, InLoop, Settling, AtCall
<1>12. CASE OpenTurnTx
  <2>1. CASE pc = "open" /\ pc' = "loop" /\ mem' \in {mem, disk} /\ disk' = disk
    BY <2>1 DEF SessionInv, Between, InLoop, Settling, AtCall
  <2> QED
    BY <1>4, <1>12, <2>1 DEF OpenTurnTx, At, Set, Go, MutateSession, Quiet
<1>13. CASE LoopHead \/ ThresholdCompact \/ CompleteModel \/ ModelReturns \/ OverflowRetry
  <2>1. CASE pc \in Between /\ pc' \in Between /\ mem' \in {mem, disk} /\ disk' = disk
    BY <2>1 DEF SessionInv, Between, InLoop, Settling, AtCall
  <2> QED
    BY <1>4, <1>5, <1>13, <2>1 DEF LoopHead, ThresholdCompact, CompleteModel, ModelReturns, OverflowRetry, At, Set, Go,
       MutateSession, Quiet, Between
<1>14. CASE TakeAction
  <2>1. CASE /\ pc = "acted" /\ mem' = mem /\ disk' = disk
             /\ (pc' = "final" \/ (pc' = "decide" /\ t.action = "call"))
    BY <2>1 DEF SessionInv, Between, InLoop, Settling, AtCall
  <2> QED
    BY <1>4, <1>5, <1>14, <2>1 DEF TakeAction, At, Set, Go, Quiet
<1>15. CASE Authorize \/ RunTool \/ ToolReturns
  <2>1. CASE pc \in AtCall /\ pc' \in AtCall /\ mem' = mem /\ disk' = disk
    BY <2>1 DEF SessionInv, Between, InLoop, Settling, AtCall
  <2> QED
    BY <1>4, <1>15, <2>1 DEF Authorize, Refuse, RunTool, ToolReturns, At, Set, Go, Quiet, AtCall
<1>16. CASE Judge
  <2>1. CASE pc = "judge" /\ pc' \in {"loop", "final"} /\ mem' = mem /\ disk' = disk
    BY <2>1 DEF SessionInv, EndsWith, Between, InLoop, Settling, AtCall
  <2> QED
    BY <1>5, <1>16, <2>1 DEF Judge, At, Set, Go, Quiet
<1>17. CASE \/ FinishTurn \/ FinalizeTx \/ EmptyDiff \/ ValidateTx \/ RefuseTx \/ PassTx \/ ApproveTx \/ ApplyTx
  <2>1. CASE pc \in {"final", "finalize"} \cup Settling /\ pc' \in {"finalize"} \cup Settling /\ mem' \in {mem, disk} /\ disk' = disk
    BY <2>1 DEF SessionInv, Between, InLoop, Settling, AtCall
  <2> QED
    BY <1>5, <1>17, <2>1 DEF FinishTurn, FinalizeTx, EmptyDiff, ValidateTx, RefuseTx, PassTx, ApproveTx, ApplyTx,
       TxCall, AbortTx, At, Set, Go, Quiet, MutateSession, Settling
<1>18. CASE Stop
  BY <1>2, <1>18 DEF Stop, Leave, Set, Go, Quiet
<1>19. CASE AbortStale
  <2>1. pc' \in {"reset", "idle"} /\ mem' \in {mem, disk} /\ disk' = disk
    BY <1>19 DEF AbortStale, Set, Go, Quiet, MutateSession
  <2> QED
    BY <2>1 DEF SessionInv, Between, InLoop, Settling, AtCall
<1>20. CASE Reset
  <2>1. mem'.recs = mem.recs /\ disk'.recs \in {mem.recs, disk.recs} /\ pc' = "idle"
    BY <1>1, <1>20 DEF Reset, Save, Restored, Set, Go, SessionRow
  <2> QED
    BY <2>1 DEF SessionInv, Between, InLoop, Settling, AtCall
<1>21. CASE Fault("checkpoint") \/ Fault("open")
  BY <1>5, <1>21 DEF Fault, Quiet
<1> QED
  BY <1>7, <1>8, <1>9, <1>10, <1>11, <1>12, <1>13, <1>14, <1>15, <1>16, <1>17, <1>18, <1>19, <1>20, <1>21 DEF Step

\* ---- the results that are kept -----------------------------------------------------------

\* What the file holds of this turn's results while it is not written.
LEMMA Unwritten ==
  ASSUME TurnTyped
  PROVE  /\ Stored \in Nat
         /\ t'.prev = t.prev /\ disk'.recs = disk.recs => Stored' = Stored
<1>1. IsFiniteSet(ToolsSince(t.prev.len))
  <2>1. t.prev.len + 1 \in Int /\ Len(disk.recs) \in Int
    BY DEF TurnTyped, Locals, SessionRow
  <2>2. IsFiniteSet(t.prev.len + 1 .. Len(disk.recs))
    BY <2>1, FS_Interval
  <2>3. ToolsSince(t.prev.len) \subseteq t.prev.len + 1 .. Len(disk.recs)
    BY DEF ToolsSince
  <2> QED
    BY <2>2, <2>3, FS_Subset
<1>2. Stored \in Nat
  BY <1>1, FS_CardinalityType DEF Stored
<1>3. ASSUME t'.prev = t.prev, disk'.recs = disk.recs PROVE ToolsSince(t.prev.len)' = ToolsSince(t.prev.len)
  BY <1>3 DEF ToolsSince
<1> QED
  BY <1>2, <1>3 DEF Stored

\* One more record: a result counts if it belongs to this turn.
LEMMA Written ==
  ASSUME TurnTyped, NEW e \in Rec, t'.prev = t.prev, disk'.recs = Append(disk.recs, e)
  PROVE  /\ Len(disk'.recs) = Len(disk.recs) + 1
         /\ Stored' = Stored + (IF e.kind = "tool" /\ t.prev.len <= Len(disk.recs) THEN 1 ELSE 0)
<1> DEFINE n == t.prev.len
           last == Len(disk.recs) + 1
<1>1. disk.recs \in Seq(Rec) /\ n \in Nat /\ Stored \in Nat
  BY Unwritten DEF TurnTyped, SessionRow, Locals
<1>2. /\ Len(disk'.recs) = last /\ disk'.recs[last] = e /\ Len(disk.recs) \in Nat
      /\ \A k \in 1 .. Len(disk.recs) : disk'.recs[k] = disk.recs[k]
  BY <1>1, AppendProperties
<1>3. ToolsSince(n) = {k \in n + 1 .. Len(disk.recs) : disk.recs[k].kind = "tool"}
  BY DEF ToolsSince
<1>4. ToolsSince(n)' = {k \in n + 1 .. last : disk'.recs[k].kind = "tool"}
  BY <1>2 DEF ToolsSince
<1>5. IsFiniteSet(ToolsSince(n)) /\ last \notin ToolsSince(n)
  <2>1. IsFiniteSet(n + 1 .. Len(disk.recs))
    <3>1. n + 1 \in Int /\ Len(disk.recs) \in Int
      BY <1>1, <1>2
    <3> QED
      BY <3>1, FS_Interval
  <2>2. ToolsSince(n) \subseteq n + 1 .. Len(disk.recs)
    BY <1>3
  <2>3. last \notin n + 1 .. Len(disk.recs)
    BY <1>1, <1>2
  <2>4. IsFiniteSet(ToolsSince(n))
    BY <2>1, <2>2, FS_Subset
  <2> QED
    BY <2>2, <2>3, <2>4
<1>6. \A k \in n + 1 .. Len(disk.recs) : disk'.recs[k] = disk.recs[k]
  BY <1>1, <1>2
<1>7. CASE n <= Len(disk.recs)
  <2>1. n + 1 .. last = (n + 1 .. Len(disk.recs)) \cup {last}
    BY <1>1, <1>2, <1>7
  <2>2. ToolsSince(n)' = IF e.kind = "tool" THEN ToolsSince(n) \cup {last} ELSE ToolsSince(n)
    BY <1>2, <1>3, <1>4, <1>6, <2>1
  <2>3. Cardinality(ToolsSince(n) \cup {last}) = Cardinality(ToolsSince(n)) + 1
    BY <1>5, FS_AddElement
  <2> QED
    BY <1>1, <1>2, <1>7, <2>2, <2>3 DEF Stored
<1>8. CASE n > Len(disk.recs)
  <2>1. n + 1 .. last = {} /\ n + 1 .. Len(disk.recs) = {}
    BY <1>1, <1>2, <1>8
  <2>2. ToolsSince(n)' = {} /\ ToolsSince(n) = {}
    BY <1>3, <1>4, <2>1
  <2> QED
    BY <1>1, <1>2, <1>8, <2>2 DEF Stored
<1> QED
  BY <1>1, <1>2, <1>7, <1>8

\* Before the first record of the turn the file holds no result of it.
LEMMA FreshStored ==
  ASSUME TurnTyped, StoredInv, pc \in Fresh
  PROVE  Stored = 0 /\ Stored = t.produced /\ Kept
<1>1. mem.recs \in Seq(Rec) /\ disk.recs \in Seq(Rec) /\ t.prev.len \in Nat
  BY DEF TurnTyped, SessionRow, Locals
<1>2. Len(disk.recs) <= t.prev.len /\ (\A e \in Rec : Ahead(e) => t.prev.len > Len(disk.recs))
  <2>1. \A e \in Rec : Ahead(e) => Len(mem.recs) = Len(disk.recs) + 1
    BY <1>1, AppendProperties DEF Ahead
  <2>2. Len(mem.recs) \in Nat /\ Len(disk.recs) \in Nat /\ Len(mem.recs) <= t.prev.len
    BY <1>1 DEF StoredInv
  <2> QED
    BY <1>1, <2>1, <2>2 DEF StoredInv
<1>3. ToolsSince(t.prev.len) = {}
  BY <1>1, <1>2 DEF ToolsSince
<1>4. Stored = 0 /\ t.produced = 0
  BY <1>3, FS_EmptySet DEF Stored, StoredInv
<1> QED
  BY <1>2, <1>4 DEF Kept, StoredInv

\* A step that writes no record, and the place it leads to.
LEMMA QuietStored ==
  ASSUME TurnTyped, SessionInv, StoredInv, conf' = conf, t'.prev = t.prev,
         t'.produced = (IF pc' = "store" THEN t.produced + 1 ELSE t.produced),
         mem'.recs = mem.recs, disk'.recs = disk.recs,
         \/ pc \in Fresh /\ pc' \in Fresh \cup {"finally"}
         \/ pc \in Middle \ {"store"} /\ pc' \in Middle \cup {"finally"}
         \/ pc \in Ending /\ pc' \in Ending
  PROVE  StoredInv'
<1>1. Stored' = Stored /\ Stored \in Nat /\ t.produced \in Nat
  BY Unwritten DEF TurnTyped, Locals
<1>2. \A e : Ahead(e)' <=> Ahead(e)
  BY DEF Ahead
<1>3. conf' = conf /\ t'.produced = t.produced => (Kept' <=> Kept) /\ (Lost' <=> Lost)
  BY <1>1, <1>2 DEF Kept, Lost, EndsWith
<1>4. mem'.recs = disk'.recs \/ (conf'.faults /\ \E e \in Rec : Ahead(e)')
  BY <1>2 DEF StoredInv
<1>5. CASE pc \in Fresh /\ pc' \in Fresh
  BY <1>4, <1>5 DEF StoredInv, Fresh, Middle, Ending, InLoop, AtCall, Settling
<1>6. CASE pc \in Fresh /\ pc' = "finally"
  BY <1>3, <1>4, <1>6, FreshStored DEF StoredInv, Fresh, Middle, Ending, InLoop, AtCall, Settling
<1>7. CASE pc \in Middle \ {"store"} /\ pc' \in Middle
  <2>1. t.prev.len <= Len(disk.recs) /\ Stored = t.produced
    BY <1>1, <1>7 DEF StoredInv
  <2>2. Stored' + (IF pc' = "store" THEN 1 ELSE 0) = t'.produced
    BY <1>1, <2>1
  <2> QED
    BY <1>4, <1>7, <2>1, <2>2 DEF StoredInv, Fresh, Middle, Ending, InLoop, AtCall, Settling
<1>8. CASE pc \in Middle \ {"store"} /\ pc' = "finally"
  <2>1. Stored = t.produced /\ mem.recs = disk.recs
    BY <1>1, <1>8 DEF StoredInv, SessionInv, Middle, Between
  <2>2. Kept
    BY <2>1 DEF Kept
  <2> QED
    BY <1>3, <1>4, <1>8, <2>2 DEF StoredInv, Fresh, Middle, Ending, InLoop, AtCall, Settling
<1>9. CASE pc \in Ending /\ pc' \in Ending
  BY <1>3, <1>4, <1>9 DEF StoredInv, Fresh, Middle, Ending, InLoop, AtCall, Settling
<1> QED
  BY <1>5, <1>6, <1>7, <1>8, <1>9

\* A record is appended: by the turn itself, or as the result of its call.
LEMMA AppendStored ==
  ASSUME TurnTyped, SessionInv, StoredInv, conf' = conf, t'.prev = t.prev, t'.produced = t.produced,
         NEW e \in Rec, NEW ok \in BOOLEAN, Append1(e, ok), ok \/ conf.faults,
         pc \in {"user", "act", "store"}, e.kind = "tool" <=> pc = "store",
         pc' \in IF ok THEN {"open", "acted", "judge"} ELSE {"finally"}
  PROVE  StoredInv'
<1>1. /\ mem \in SessionRow /\ disk \in SessionRow /\ disk.recs \in Seq(Rec)
      /\ t.prev.len \in Nat /\ t.produced \in Nat /\ Stored \in Nat /\ Len(disk.recs) \in Nat
  BY Unwritten DEF TurnTyped, SessionRow, Locals
<1>2. mem.recs = disk.recs /\ (pc = "store" => EndsWith(disk.recs, {"call"}))
  BY DEF SessionInv, Between, InLoop, AtCall
<1>3. mem'.recs = Append(disk.recs, e) /\ (IF ok THEN disk' = mem' ELSE disk' = disk)
  BY <1>1, <1>2, Saved
<1>4. /\ pc # "user" => t.prev.len <= Len(disk.recs) /\ Stored + (IF pc = "store" THEN 1 ELSE 0) = t.produced
      /\ pc = "user" => t.prev.len <= Len(disk.recs) + 1 /\ Stored = t.produced
  BY FreshStored DEF StoredInv, Middle, Fresh, InLoop, AtCall
<1>5. CASE ok
  <2>1. /\ Len(disk'.recs) = Len(disk.recs) + 1
        /\ Stored' = Stored + (IF e.kind = "tool" /\ t.prev.len <= Len(disk.recs) THEN 1 ELSE 0)
    BY <1>3, <1>5, Written
  <2>2. t'.prev.len <= Len(disk'.recs) /\ Stored' = t'.produced
    BY <1>1, <1>4, <2>1
  <2>3. pc' \in {"open", "acted", "judge"} /\ mem'.recs = disk'.recs
    BY <1>3, <1>5
  <2> QED
    BY <1>1, <2>2, <2>3 DEF StoredInv, Fresh, Middle, Ending, InLoop, AtCall, Settling
<1>6. CASE ~ok
  <2>1. /\ conf'.faults /\ pc' = "finally" /\ Ahead(e)' /\ disk' = disk
        /\ Stored' = Stored
    BY <1>3, <1>6, Unwritten DEF Ahead
  <2>2. CASE pc = "store"
    <3>1. Stored' + 1 = t'.produced /\ EndsWith(disk'.recs, {"call"}) /\ e.kind = "tool" /\ t'.prev.len <= Len(disk'.recs)
      BY <1>2, <1>4, <2>1, <2>2
    <3>2. Lost'
      BY <2>1, <3>1 DEF Lost
    <3> QED
      BY <2>1, <3>2 DEF StoredInv, Fresh, Middle, Ending, InLoop, AtCall, Settling
  <2>3. CASE pc # "store"
    <3>1. Kept'
      BY <1>1, <1>4, <2>1, <2>3 DEF Kept
    <3> QED
      BY <2>1, <3>1 DEF StoredInv, Fresh, Middle, Ending, InLoop, AtCall, Settling
  <2> QED
    BY <2>2, <2>3
<1> QED
  BY <1>5, <1>6

\* The checkpoint replaces the object by what the file holds.
LEMMA CheckpointStored ==
  ASSUME TurnTyped, SessionInv, StoredInv, conf' = conf, t'.prev = t.prev, t'.produced = t.produced,
         pc = "checkpoint", pc' = "user", MutateSession
  PROVE  StoredInv'
<1>1. mem' = disk /\ disk' = disk
  BY DEF MutateSession
<1>2. Len(disk.recs) <= t.prev.len
  <2>1. mem.recs \in Seq(Rec) /\ disk.recs \in Seq(Rec) /\ t.prev.len \in Nat
    BY DEF TurnTyped, SessionRow, Locals
  <2>2. \A e \in Rec : Ahead(e) => Len(mem.recs) = Len(disk.recs) + 1
    BY <2>1, AppendProperties DEF Ahead
  <2>3. Len(mem.recs) \in Nat /\ Len(disk.recs) \in Nat /\ Len(mem.recs) <= t.prev.len
    BY <2>1 DEF StoredInv, Fresh
  <2> QED
    BY <2>1, <2>2, <2>3 DEF StoredInv
<1>3. t.produced = 0 /\ t.prev.len <= Len(disk.recs) + 1
  BY DEF StoredInv, Fresh
<1> QED
  BY <1>1, <1>2, <1>3 DEF StoredInv, Fresh, Middle, Ending, InLoop, AtCall, Settling

\* The stale transaction is aborted, and the object is what the file holds.
LEMMA AbortStored ==
  ASSUME TurnTyped, StoredInv, conf' = conf, t'.prev = t.prev, t'.produced = t.produced,
         pc = "finally", pc' = "reset", MutateSession
  PROVE  StoredInv'
<1>1. mem' = disk /\ disk' = disk
  BY DEF MutateSession
<1>2. Stored' = Stored
  BY <1>1, Unwritten
<1>3. Kept => Kept'
  BY <1>1, <1>2 DEF Kept
<1>4. Lost => Lost'
  BY <1>1, <1>2 DEF Lost
<1>5. Kept \/ Lost
  BY DEF StoredInv, Ending
<1> QED
  BY <1>1, <1>3, <1>4, <1>5 DEF StoredInv, Fresh, Middle, Ending, InLoop, AtCall, Settling

\* The save of the reset brings the last record to the file, if it was missing.
LEMMA ResetStored ==
  ASSUME TurnTyped, SessionInv, StoredInv, conf' = conf, t'.prev = t.prev, t'.produced = t.produced,
         pc = "reset", pc' = "idle", mem'.recs = mem.recs, disk'.recs \in {mem.recs, disk.recs}
  PROVE  StoredInv'
<1>1. CASE disk'.recs = disk.recs
  BY <1>1, QuietStored DEF Ending
<1>2. CASE disk'.recs = mem.recs /\ mem.recs # disk.recs
  <2>1. disk.recs \in Seq(Rec) /\ Stored \in Nat /\ t.produced \in Nat
    BY Unwritten DEF TurnTyped, SessionRow, Locals
  <2>2. mem'.recs = disk'.recs
    BY <1>2
  <2>3. CASE Kept
    <3>1. PICK e \in Rec : Ahead(e) /\ (e.kind # "tool" \/ t.prev.len > Len(disk.recs))
      BY <1>2, <2>3 DEF Kept
    <3>2. Stored' = Stored + (IF e.kind = "tool" /\ t.prev.len <= Len(disk.recs) THEN 1 ELSE 0)
      BY <1>2, <3>1, Written DEF Ahead
    <3>3. ~(e.kind = "tool" /\ t.prev.len <= Len(disk.recs))
      <4>1. Len(disk.recs) \in Nat /\ t.prev.len \in Nat
        BY <2>1 DEF TurnTyped, Locals
      <4> QED
        BY <3>1, <4>1
    <3>4. Stored' = t'.produced
      BY <2>1, <2>3, <3>2, <3>3 DEF Kept
    <3>5. Kept'
      BY <2>2, <3>4 DEF Kept
    <3> QED
      BY <2>2, <3>5 DEF StoredInv, Fresh, Middle, Ending, InLoop, AtCall, Settling
  <2>4. CASE Lost
    <3>1. PICK e \in Rec : Ahead(e) /\ e.kind = "tool" /\ t.prev.len <= Len(disk.recs)
      BY <1>2, <2>4 DEF Lost
    <3>2. Stored' = Stored + 1
      BY <1>2, <3>1, Written DEF Ahead
    <3>3. Stored' = t'.produced
      BY <2>1, <2>4, <3>2 DEF Lost
    <3>4. Kept'
      BY <2>2, <3>3 DEF Kept
    <3> QED
      BY <2>2, <3>4 DEF StoredInv, Fresh, Middle, Ending, InLoop, AtCall, Settling
  <2> QED
    BY <2>3, <2>4 DEF StoredInv, Ending
<1> QED
  BY <1>1, <1>2

LEMMA StoredStep == ASSUME TurnTyped, SessionInv, StoredInv, Step PROVE StoredInv'
<1>1. /\ conf' = conf /\ \A ok \in MaySave : ok \in BOOLEAN /\ (ok \/ conf.faults)
      /\ t'.prev = t.prev /\ t'.produced = IF pc' = "store" THEN t.produced + 1 ELSE t.produced
  BY LocalsStep DEF Step, Begin, Checkpoint, AppendUser, OpenTurnTx, LoopHead, ThresholdCompact, CompleteModel, ModelReturns,
     OverflowRetry, RecordAction, TakeAction, Authorize, Refuse, RunTool, ToolReturns, StoreResult, Judge, FinishTurn, FinalizeTx,
     EmptyDiff, ValidateTx, RefuseTx, PassTx, ApproveTx, ApplyTx, Stop, AbortStale, Reset, Fault, TxCall, AbortTx,
     Stopped, Quiet, MaySave
<1>2. mem \in SessionRow /\ disk \in SessionRow /\ t \in Locals
  BY DEF TurnTyped
<1>3. Throw => pc' = "finally"
  BY DEF Throw, Leave, Set, Go
<1>4. ASSUME pc \in Fresh \cup (Middle \ {"store"}), pc' = "finally", mem' = mem, disk' = disk PROVE StoredInv'
  BY <1>1, <1>4, QuietStored
<1>5. pc \in Middle => mem = disk
  BY DEF SessionInv, Middle, Between
<1>6. CASE AppendUser \/ RecordAction
  <2>1. pc \in {"user", "act"}
    BY <1>6 DEF AppendUser, RecordAction, At
  <2>2. CASE Stopped \/ (~signal /\ Throw /\ Quiet)
    BY <1>3, <1>4, <2>1, <2>2 DEF Stopped, Quiet, Fresh, Middle, InLoop
  <2>3. CASE \E ok \in MaySave : At("user") /\ Append1(Entry("user"), ok) /\ IF ok THEN Set(t, "open") ELSE Throw
    <3>1. PICK ok \in MaySave : pc = "user" /\ Append1(Entry("user"), ok) /\ IF ok THEN Set(t, "open") ELSE Throw
      BY <2>3 DEF At
    <3>2. pc' = IF ok THEN "open" ELSE "finally"
      BY <1>3, <3>1 DEF Set, Go
    <3>3. Entry("user") \in Rec /\ Entry("user").kind = "user"
      BY EntryTyped DEF Kinds
    <3> QED
      BY <1>1, <3>1, <3>2, <3>3, AppendStored
  <2>4. CASE \E ok \in MaySave : At("act") /\ Append1(Entry(t.action), ok) /\ IF ok THEN Set(t, "acted") ELSE Throw
    <3>1. PICK ok \in MaySave : pc = "act" /\ Append1(Entry(t.action), ok) /\ IF ok THEN Set(t, "acted") ELSE Throw
      BY <2>4 DEF At
    <3>2. pc' = IF ok THEN "acted" ELSE "finally"
      BY <1>3, <3>1 DEF Set, Go
    <3>3. Entry(t.action) \in Rec /\ Entry(t.action).kind # "tool"
      BY <3>1, EntryTyped DEF Kinds, TurnTyped
    <3> QED
      BY <1>1, <3>1, <3>2, <3>3, AppendStored
  <2> QED
    BY <1>6, <2>2, <2>3, <2>4 DEF AppendUser, RecordAction
<1>7. CASE StoreResult
  <2>1. PICK ok \in MaySave : pc = "store" /\ Append1(Answer(t.res), ok) /\ IF ok THEN Set(t, "judge") ELSE Throw
    BY <1>7 DEF StoreResult, At
  <2>2. pc' = IF ok THEN "judge" ELSE "finally"
    BY <1>3, <2>1 DEF Set, Go
  <2>3. Answer(t.res) \in Rec /\ Answer(t.res).kind = "tool"
    BY <1>2, EntryTyped DEF Locals
  <2> QED
    BY <1>1, <2>1, <2>2, <2>3, AppendStored
<1>8. CASE Begin
  <2>1. pc = "begin" /\ pc' \in {"checkpoint", "finally"} /\ mem'.recs = mem.recs /\ disk' = disk
    BY <1>2, <1>3, <1>8 DEF Begin, At, Stopped, Quiet, Set, Go, SessionRow
  <2> QED
    BY <1>1, <2>1, QuietStored DEF Fresh
<1>9. CASE Checkpoint
  <2>1. CASE Stopped /\ pc = "checkpoint"
    BY <1>3, <1>4, <2>1 DEF Stopped, Quiet, Fresh
  <2>2. CASE pc = "checkpoint" /\ pc' = "user" /\ MutateSession
    BY <1>1, <2>2, CheckpointStored
  <2> QED
    BY <1>9, <2>1, <2>2 DEF Checkpoint, At, Set, Go
<1>10. CASE \/ OpenTurnTx \/ LoopHead \/ ThresholdCompact \/ CompleteModel \/ ModelReturns
            \/ OverflowRetry \/ TakeAction \/ Authorize \/ RunTool \/ ToolReturns \/ Judge
  <2>1. pc \in Middle \ {"store"}
    BY <1>10 DEF OpenTurnTx, LoopHead, ThresholdCompact, CompleteModel, ModelReturns,
       OverflowRetry, TakeAction, Authorize, RunTool, ToolReturns, Judge, At, Middle, InLoop, AtCall
  <2>2. mem'.recs = mem.recs /\ disk'.recs = disk.recs
    BY <1>5, <1>10, <2>1 DEF OpenTurnTx, LoopHead, ThresholdCompact, CompleteModel, ModelReturns,
       OverflowRetry, TakeAction, Authorize, RunTool, ToolReturns, Judge, Stopped, Quiet, MutateSession
  <2>3. pc' \in Middle \cup {"finally"}
    <3>1. CASE OpenTurnTx \/ LoopHead \/ ThresholdCompact \/ CompleteModel \/ ModelReturns \/ OverflowRetry
      BY <1>3, <3>1 DEF OpenTurnTx, LoopHead, ThresholdCompact, CompleteModel, ModelReturns, OverflowRetry,
         Stopped, Set, Go, Middle, InLoop
    <3>2. CASE TakeAction \/ Authorize \/ RunTool \/ ToolReturns
      BY <1>3, <3>2 DEF TakeAction, Authorize, Refuse, RunTool, ToolReturns, Stopped, Set, Go, Middle, InLoop, AtCall
    <3>3. CASE Judge
      BY <1>3, <3>3 DEF Judge, Set, Go, Middle, InLoop
    <3> QED
      BY <1>10, <3>1, <3>2, <3>3
  <2> QED
    BY <1>1, <2>1, <2>2, <2>3, QuietStored
<1>11. CASE FinishTurn \/ FinalizeTx \/ EmptyDiff \/ ValidateTx \/ RefuseTx \/ PassTx \/ ApproveTx \/ ApplyTx \/ Stop
  <2>1. pc \in Middle \ {"store"}
    BY <1>11 DEF FinishTurn, FinalizeTx, EmptyDiff, ValidateTx, RefuseTx, PassTx, ApproveTx, ApplyTx, Stop, TxCall, At,
       Middle, InLoop, AtCall, Settling
  <2>2. mem'.recs = mem.recs /\ disk'.recs = disk.recs
    BY <1>5, <1>11, <2>1 DEF FinishTurn, FinalizeTx, EmptyDiff, ValidateTx, RefuseTx, PassTx, ApproveTx, ApplyTx, Stop,
       TxCall, AbortTx, Quiet, MutateSession
  <2>3. pc' \in Middle \cup {"finally"}
    BY <1>3, <1>11 DEF FinishTurn, FinalizeTx, EmptyDiff, ValidateTx, RefuseTx, PassTx, ApproveTx, ApplyTx, Stop,
       TxCall, AbortTx, Leave, Set, Go, Middle, InLoop, Settling
  <2> QED
    BY <1>1, <2>1, <2>2, <2>3, QuietStored
<1>12. CASE AbortStale
  <2>1. CASE pc = "finally" /\ pc' \in {"reset", "idle"} /\ mem' = mem /\ disk' = disk
    BY <1>1, <2>1, QuietStored DEF Ending
  <2>2. CASE pc = "finally" /\ pc' = "reset" /\ MutateSession
    BY <1>1, <2>2, AbortStored
  <2> QED
    BY <1>12, <2>1, <2>2 DEF AbortStale, At, Quiet, Set, Go
<1>13. CASE Reset
  <2>1. /\ pc = "reset" /\ pc' = "idle" /\ mem'.recs = mem.recs /\ disk'.recs \in {mem.recs, disk.recs}
    BY <1>2, <1>13 DEF Reset, Save, Restored, At, Set, Go, SessionRow
  <2> QED
    BY <1>1, <2>1, ResetStored
<1>14. CASE Fault("checkpoint") \/ Fault("open")
  BY <1>3, <1>4, <1>14 DEF Fault, At, Quiet, Fresh, Middle
<1> QED
  BY <1>6, <1>7, <1>8, <1>9, <1>10, <1>11, <1>12, <1>13, <1>14 DEF Step

\* ---- a turn without a checkpoint ------------------------------------------------------------

\* The reset puts back what the turn changed, and leaves the records alone.
LEMMA RestoredMeans ==
  ASSUME TurnTyped
  PROVE  /\ Restored.status = t.prev.status /\ Restored.turn = t.prev.turn
         /\ Restored.recs = mem.recs
<1>1. mem \in SessionRow /\ t.prev.status \in {"idle", "running"} /\ t.prev.turn \in Nat
  BY DEF TurnTyped, Locals
<1>2. Restored = [status |-> t.prev.status, turn |-> t.prev.turn, recs |-> mem.recs]
  BY <1>1, RowBoth DEF Restored
<1> QED
  BY <1>2

LEMMA EarlyStep == ASSUME TurnTyped, EarlyInv, Step PROVE EarlyInv'
<1>1. /\ conf' = conf /\ mem \in SessionRow
      /\ t'.prev = t.prev
      /\ t'.opened = t.opened \/ (t'.opened /\ pc = "open" /\ pc' = "loop")
      /\ t'.ckpt = t.ckpt \/ (t'.ckpt /\ pc = "checkpoint" /\ pc' = "user")
  BY LocalsStep DEF TurnTyped, Step, Begin, Checkpoint, AppendUser, OpenTurnTx, LoopHead, ThresholdCompact, CompleteModel,
     ModelReturns, OverflowRetry, RecordAction, TakeAction, Authorize, Refuse, RunTool, ToolReturns, StoreResult, Judge,
     FinishTurn, FinalizeTx, EmptyDiff, ValidateTx, RefuseTx, PassTx, ApproveTx, ApplyTx, Stop, AbortStale, Reset, Fault,
     TxCall, AbortTx, Stopped, Quiet
<1>2. Throw => pc' = "finally"
  BY DEF Throw, Leave, Set, Go
<1>3. t'.opened => t'.ckpt
  BY <1>1 DEF EarlyInv, Early
<1>4. ASSUME ~t'.ckpt PROVE ~t.ckpt /\ pc \in {"begin", "checkpoint", "finally", "reset"} /\ ~t.opened
  <2>1. ~t.ckpt /\ pc \in Early /\ ~t.opened
    BY <1>1, <1>4 DEF EarlyInv
  <2>2. pc # "idle"
    BY DEF Step, Begin, Checkpoint, AppendUser, OpenTurnTx, LoopHead, ThresholdCompact, CompleteModel, ModelReturns,
       OverflowRetry, RecordAction, TakeAction, Authorize, Refuse, RunTool, ToolReturns, StoreResult, Judge, FinishTurn, FinalizeTx,
       EmptyDiff, ValidateTx, RefuseTx, PassTx, ApproveTx, ApplyTx, Stop, AbortStale, Reset, Fault, TxCall, AbortTx, At
  <2> QED
    BY <2>1, <2>2 DEF Early
<1>5. ASSUME ~t'.ckpt
      PROVE  /\ pc' \in Early \ {"begin"} /\ mem'.recs = mem.recs
             /\ pc' = "idle" => mem' = Restored
  <2>1. CASE Begin
    BY <1>1, <1>2, <2>1 DEF Begin, Stopped, Quiet, Set, Go, SessionRow, Early
  <2>2. CASE Checkpoint
    <3>1. ~(MutateSession /\ Set([t EXCEPT !.ckpt = TRUE], "user"))
      BY <1>5 DEF Set, TurnTyped, Locals
    <3> QED
      BY <1>2, <2>2, <3>1 DEF Checkpoint, Stopped, Quiet, Early
  <2>3. CASE AbortStale \/ Fault("checkpoint")
    BY <1>2, <1>4, <1>5, <2>3 DEF AbortStale, Stale, Fault, Quiet, Set, Go, Early
  <2>4. CASE Reset
    <3>1. mem' = Restored /\ pc' = "idle"
      BY <1>4, <1>5, <2>4 DEF Reset, Save, Set, Go
    <3> QED
      BY <3>1, RestoredMeans DEF Early
  <2>5. CASE ~(Begin \/ Checkpoint \/ AbortStale \/ Reset \/ Fault("checkpoint"))
    BY <1>4, <1>5, <2>5 DEF Step, AppendUser, OpenTurnTx, LoopHead, ThresholdCompact, CompleteModel, ModelReturns,
       OverflowRetry, RecordAction, TakeAction, Authorize, RunTool, ToolReturns, StoreResult, Judge, FinishTurn, FinalizeTx,
       EmptyDiff, ValidateTx, RefuseTx, PassTx, ApproveTx, ApplyTx, Stop, Fault, TxCall, At
  <2> QED
    BY <2>1, <2>2, <2>3, <2>4, <2>5
<1>6. ASSUME ~conf.faults, pc' = "idle" PROVE mem' = disk'
  <2>1. CASE Reset
    BY <1>6, <2>1 DEF Reset, Save, MaySave
  <2>2. CASE \/ Begin \/ Checkpoint \/ AppendUser \/ OpenTurnTx \/ LoopHead \/ ThresholdCompact \/ CompleteModel
             \/ ModelReturns \/ OverflowRetry \/ RecordAction \/ TakeAction \/ Authorize \/ RunTool \/ ToolReturns
             \/ StoreResult \/ Judge
    BY <1>2, <1>6, <2>2 DEF Begin, Checkpoint, AppendUser, OpenTurnTx, LoopHead, ThresholdCompact, CompleteModel,
       ModelReturns, OverflowRetry, RecordAction, TakeAction, Authorize, Refuse, RunTool, ToolReturns, StoreResult, Judge,
       Stopped, Set, Go
  <2>3. CASE \/ FinishTurn \/ FinalizeTx \/ EmptyDiff \/ ValidateTx \/ RefuseTx \/ PassTx \/ ApproveTx
             \/ ApplyTx \/ Stop \/ AbortStale \/ Fault("checkpoint") \/ Fault("open")
    BY <1>2, <1>6, <2>3 DEF FinishTurn, FinalizeTx, EmptyDiff, ValidateTx, RefuseTx, PassTx, ApproveTx, ApplyTx, Stop,
       Leave, AbortStale, Fault, TxCall, AbortTx, Set, Go
  <2> QED
    BY <2>1, <2>2, <2>3 DEF Step
<1>7. ASSUME ~t'.ckpt PROVE pc' \in Early /\ Len(mem'.recs) = t'.prev.len
  BY <1>1, <1>4, <1>5, <1>7 DEF EarlyInv
<1>8. ASSUME ~t'.ckpt, pc' \in {"begin", "idle"} PROVE mem'.turn = t'.prev.turn /\ mem'.status = t'.prev.status
  BY <1>1, <1>5, <1>8, RestoredMeans
<1> QED
  BY <1>1, <1>3, <1>6, <1>7, <1>8 DEF EarlyInv

\* ---- the transaction of a turn ----------------------------------------------------------------

LEMMA TxStep == ASSUME TurnTyped, EarlyInv, TxInv, Step PROVE TxInv'
<1>1. /\ conf' = conf /\ t \in Locals /\ tx \in [state : TxState, implicit : BOOLEAN] /\ ~NoTx.implicit
  BY DEF TurnTyped, NoTx, Step, Begin, Checkpoint, AppendUser, OpenTurnTx, LoopHead, ThresholdCompact, CompleteModel,
     ModelReturns, OverflowRetry, RecordAction, TakeAction, Authorize, Refuse, RunTool, ToolReturns, StoreResult, Judge,
     FinishTurn, FinalizeTx, EmptyDiff, ValidateTx, RefuseTx, PassTx, ApproveTx, ApplyTx, Stop, AbortStale, Reset, Fault,
     TxCall, AbortTx, Stopped, Quiet
<1>2. /\ t'.opened = t.opened \/ (t'.opened /\ pc = "open" /\ pc' = "loop" /\ tx'.state = "staging" /\ tx'.implicit)
      /\ t'.completed = t.completed \/ (pc = "stop" /\ pc' = "finally")
  BY LocalsStep
<1>3. Throw => pc' = "finally"
  BY DEF Throw, Leave, Set, Go
<1>4. /\ pc \in Opening => ~t.opened
      /\ pc \in {"finalize", "edits", "verdict", "ask", "apply"} => t.opened
      /\ t.completed => pc \in {"finally", "reset", "idle"}
      /\ t.opened /\ (pc \in Settling \cup {"reset"} \/ (pc = "finally" /\ t.completed)) => tx.state # "staging"
      /\ ~conf.faults => /\ ~t.opened \/ pc \in {"stop", "reset", "idle"} => Settled
                         /\ t.opened /\ pc \in InLoop => tx.state = "staging"
                         /\ pc = "verdict" => tx.state = "validated"
                         /\ pc = "apply" => tx.state = "approved"
                         /\ pc = "finally" => Settled \/ Stale
  BY DEF TxInv
<1>5. ASSUME tx' = tx PROVE Settled' <=> Settled
  BY <1>1, <1>5 DEF Settled
<1>6. ASSUME tx' = NoTx PROVE Settled'
  BY <1>1, <1>6 DEF Settled
<1>7. ASSUME tx' = tx, pc' = "finally", pc \in Opening \cup InLoop, ~t'.completed, t'.opened = t.opened
      PROVE  TxInv'
  BY <1>1, <1>4, <1>5, <1>7 DEF TxInv, Stale, Opening, InLoop, AtCall, Settling
<1>8. CASE Begin \/ Checkpoint \/ AppendUser
  <2>1. /\ tx' = tx /\ pc \in {"begin", "checkpoint", "user"} /\ pc' \in {"checkpoint", "user", "open", "finally"}
    BY <1>3, <1>8 DEF Begin, Checkpoint, AppendUser, At, Stopped, Quiet, Set, Go
  <2>2. t'.opened = t.opened /\ t'.completed = t.completed /\ ~t.opened /\ ~t.completed
    BY <1>2, <1>4, <2>1 DEF Opening
  <2> QED
    BY <1>1, <1>4, <1>5, <2>1, <2>2 DEF TxInv, Opening, InLoop, AtCall, Settling
<1>9. CASE OpenTurnTx
  <2>1. pc = "open" /\ (pc' = "loop" \/ (pc' = "finally" /\ tx' = tx)) /\ ~t.opened /\ ~t.completed
    BY <1>3, <1>4, <1>9 DEF OpenTurnTx, At, Stopped, Quiet, Set, Go, Opening
  <2>2. t'.completed = t.completed
    BY <1>2, <2>1
  <2>3. CASE t'.opened = t.opened
    <3>1. tx' = tx
      <4>1. ~(Set([t EXCEPT !.uses = TRUE, !.opened = TRUE], "loop"))
        BY <1>1, <2>1, <2>3 DEF Set, Locals
      <4> QED
        BY <1>9, <4>1 DEF OpenTurnTx, Stopped, Quiet
    <3> QED
      BY <1>1, <1>4, <1>5, <2>1, <2>2, <2>3, <3>1 DEF TxInv, Opening, InLoop, AtCall, Settling
  <2>4. CASE t'.opened # t.opened
    BY <1>1, <1>2, <2>1, <2>2, <2>4 DEF TxInv, Opening, InLoop, AtCall, Settling
  <2> QED
    BY <2>3, <2>4
<1>10. CASE \/ LoopHead \/ ThresholdCompact \/ CompleteModel \/ ModelReturns \/ OverflowRetry \/ RecordAction
            \/ TakeAction \/ Authorize \/ RunTool \/ ToolReturns \/ StoreResult \/ Judge \/ FinishTurn
  <2>1. pc \in InLoop
    BY <1>10 DEF LoopHead, ThresholdCompact, CompleteModel, ModelReturns, OverflowRetry, RecordAction, TakeAction,
       Authorize, RunTool, ToolReturns, StoreResult, Judge, FinishTurn, At, InLoop, AtCall
  <2>2. tx' = tx
    BY <1>10 DEF LoopHead, ThresholdCompact, CompleteModel, ModelReturns, OverflowRetry, RecordAction, TakeAction,
       Authorize, RunTool, ToolReturns, StoreResult, Judge, FinishTurn, Stopped, Quiet
  <2>3. \/ pc' \in InLoop \cup {"finally"} /\ (pc' = "finalize" => t.opened)
        \/ pc' = "stop" /\ ~t.opened
    <3>1. CASE LoopHead \/ ThresholdCompact \/ CompleteModel \/ ModelReturns \/ OverflowRetry \/ RecordAction
      BY <1>3, <3>1 DEF LoopHead, ThresholdCompact, CompleteModel, ModelReturns, OverflowRetry, RecordAction,
         Stopped, Set, Go, InLoop, AtCall
    <3>2. CASE TakeAction \/ Authorize \/ RunTool \/ ToolReturns \/ StoreResult
      BY <1>3, <3>2 DEF TakeAction, Authorize, Refuse, RunTool, ToolReturns, StoreResult, Stopped, Set, Go, InLoop, AtCall
    <3>3. CASE Judge
      BY <1>3, <3>3 DEF Judge, Set, Go, InLoop, AtCall
    <3>4. CASE FinishTurn
      BY <1>3, <3>4 DEF FinishTurn, Set, Go, InLoop, AtCall
    <3> QED
      BY <1>10, <3>1, <3>2, <3>3, <3>4
  <2>4. t'.opened = t.opened /\ t'.completed = t.completed /\ ~t.completed
    <3>1. pc # "open" /\ pc # "stop" /\ pc \notin {"finally", "reset", "idle"}
      BY <2>1 DEF InLoop, AtCall
    <3> QED
      BY <1>2, <1>4, <3>1
  <2>5. CASE pc' = "finally"
    BY <1>7, <2>1, <2>2, <2>4, <2>5
  <2>6. CASE pc' \in InLoop /\ (pc' = "finalize" => t.opened)
    BY <1>1, <1>4, <1>5, <2>1, <2>2, <2>4, <2>6 DEF TxInv, Opening, InLoop, AtCall, Settling
  <2>7. CASE pc' = "stop" /\ ~t.opened
    BY <1>1, <1>4, <1>5, <2>1, <2>2, <2>4, <2>7 DEF TxInv, Opening, InLoop, AtCall, Settling
  <2> QED
    BY <2>3, <2>5, <2>6, <2>7
<1>11. CASE FinalizeTx \/ EmptyDiff \/ ValidateTx \/ RefuseTx \/ PassTx \/ ApproveTx \/ ApplyTx
  <2>1. pc \in {"finalize", "edits", "verdict", "ask", "apply"}
    BY <1>11 DEF FinalizeTx, EmptyDiff, ValidateTx, RefuseTx, PassTx, ApproveTx, ApplyTx, TxCall, At
  <2>2. t'.opened = t.opened /\ t'.completed = t.completed /\ ~t.completed
    BY <1>2, <1>4, <2>1
  <2>3. ~conf.faults => \/ pc' = "stop" /\ tx' = NoTx
                        \/ pc' = "edits" /\ tx' = [tx EXCEPT !.state = "finalized"]
                        \/ pc' = "verdict" /\ tx' = [tx EXCEPT !.state = "validated"]
                        \/ pc' = "ask" /\ tx' = tx
                        \/ pc' = "stop" /\ pc = "verdict" /\ conf.applyPolicy = "manual-only" /\ tx' = tx
                        \/ pc' = "apply" /\ tx' = [tx EXCEPT !.state = "approved"]
                        \/ pc' = "stop" /\ pc = "apply" /\ tx' = tx
                        \/ pc' = "stop" /\ tx' = [tx EXCEPT !.state = "partial"]
    BY <1>11 DEF FinalizeTx, EmptyDiff, ValidateTx, RefuseTx, PassTx, ApproveTx, ApplyTx, TxCall, AbortTx, At, Set, Go, Quiet
  <2>4. pc' \in {"edits", "verdict", "ask", "apply", "stop", "finally"}
    BY <1>3, <1>11 DEF FinalizeTx, EmptyDiff, ValidateTx, RefuseTx, PassTx, ApproveTx, ApplyTx, TxCall, AbortTx, At, Set, Go, Quiet
  <2>5. ~conf.faults => /\ pc' = "stop" => Settled'
                        /\ pc' = "verdict" => tx'.state = "validated"
                        /\ pc' = "apply" => tx'.state = "approved"
                        /\ pc' # "finally"
                        /\ t.opened \/ Settled'
    <3>1. ASSUME ~conf.faults, NEW s \in {"finalized", "validated", "approved", "partial"}, tx' = [tx EXCEPT !.state = s]
          PROVE  tx'.state = s /\ tx'.implicit = tx.implicit
      BY <1>1, <3>1
    <3>2. t.opened
      BY <1>4, <2>1
    <3> QED
      BY <1>1, <1>4, <1>5, <1>6, <2>1, <2>3, <3>1, <3>2 DEF Settled
  <2>6. pc' \in Settling => tx'.state # "staging"
    <3>1. \/ tx' = NoTx \/ pc' = "finally"
          \/ \E s \in {"finalized", "validated", "approved", "partial"} : tx' = [tx EXCEPT !.state = s]
          \/ tx' = tx /\ pc \in Settling
      BY <1>3, <1>11 DEF FinalizeTx, EmptyDiff, ValidateTx, RefuseTx, PassTx, ApproveTx, ApplyTx, TxCall, AbortTx, At,
         Set, Go, Quiet, Settling
    <3>2. \A s : [tx EXCEPT !.state = s].state = s
      BY <1>1
    <3>3. t.opened
      BY <1>4, <2>1
    <3>4. NoTx.state # "staging" /\ "finally" \notin Settling
      BY DEF NoTx, Settling
    <3>5. tx' = tx /\ pc \in Settling => tx'.state # "staging"
      BY <1>4, <3>3
    <3>6. (\E s \in {"finalized", "validated", "approved", "partial"} : tx' = [tx EXCEPT !.state = s])
            => tx'.state # "staging"
      BY <3>2
    <3> QED
      BY <3>1, <3>4, <3>5, <3>6
  <2> QED
    BY <1>1, <1>4, <2>1, <2>2, <2>4, <2>5, <2>6 DEF TxInv, Opening, InLoop, AtCall, Settling
<1>12. CASE Stop
  <2>1. pc = "stop" /\ pc' = "finally" /\ tx' = tx
    BY <1>12 DEF Stop, At, Leave, Set, Go, Quiet
  <2> QED
    BY <1>1, <1>2, <1>4, <1>5, <2>1 DEF TxInv, Opening, InLoop, AtCall, Settling
<1>13. CASE AbortStale
  <2>1. /\ pc = "finally" /\ pc' \in {"reset", "idle"}
        /\ ~conf.faults => pc' = "reset" /\ ((~Stale /\ tx' = tx) \/ tx' = NoTx)
    BY <1>13 DEF AbortStale, At, Set, Go, Quiet
  <2>2. t'.opened = t.opened /\ t'.completed = t.completed
    BY <1>2, <2>1
  <2>3. ~conf.faults => Settled'
    BY <1>4, <1>5, <1>6, <2>1
  <2>4. t.opened /\ pc' = "reset" => tx'.state # "staging"
    BY <1>4, <1>13, <2>1 DEF AbortStale, Stale, NoTx, Quiet, Set, Go
  <2> QED
    BY <1>1, <1>4, <2>1, <2>2, <2>3, <2>4 DEF TxInv, Opening, InLoop, AtCall, Settling
<1>14. CASE Reset
  <2>1. pc = "reset" /\ pc' = "idle" /\ tx' = tx
    BY <1>14 DEF Reset, At, Set, Go
  <2> QED
    BY <1>1, <1>2, <1>4, <1>5, <2>1 DEF TxInv, Opening, InLoop, AtCall, Settling
<1>15. CASE Fault("checkpoint") \/ Fault("open")
  <2>1. /\ conf.faults /\ pc \in {"checkpoint", "open"} /\ pc' = "finally"
    BY <1>3, <1>15 DEF Fault, At
  <2> QED
    BY <1>1, <1>2, <1>4, <2>1 DEF TxInv, Opening, InLoop, AtCall, Settling
<1> QED
  BY <1>8, <1>9, <1>10, <1>11, <1>12, <1>13, <1>14, <1>15 DEF Step

\* ---- the theorems ------------------------------------------------------------------------------

LEMMA TurnInvInit == Init => TurnInv
<1> SUFFICES ASSUME Init PROVE TurnInv
  OBVIOUS
<1>1. /\ mem = [status |-> "idle", turn |-> 0, recs |-> <<>>] /\ disk = mem /\ tx = NoTx /\ pc = "idle" /\ t = NoTurn
      /\ mem.recs = <<>> /\ Len(mem.recs) = 0
  BY DEF Init
<1>2. SessionInv
  BY <1>1 DEF SessionInv, Ordered, Between, InLoop, Settling, AtCall
<1>3. StoredInv
  <2>1. ToolsSince(0) = {}
    BY <1>1 DEF ToolsSince
  <2>2. t.prev.len = 0 /\ t.produced = 0 /\ Cardinality(ToolsSince(0)) = 0
    BY <1>1, <2>1, FS_EmptySet DEF NoTurn
  <2>3. Kept
    BY <1>1, <2>2 DEF Kept, Stored
  <2> QED
    BY <1>1, <2>3 DEF StoredInv, Fresh, Middle, InLoop, AtCall, Settling
<1>4. EarlyInv
  BY <1>1 DEF EarlyInv, NoTurn, Early
<1>5. TxInv
  BY <1>1 DEF TxInv, NoTurn, NoTx, Settled, Opening, InLoop, AtCall, Settling
<1> QED
  BY <1>2, <1>3, <1>4, <1>5, TypedInit DEF TurnInv

LEMMA TurnInvNext == TurnInv /\ [Next]_vars => TurnInv'
<1> SUFFICES ASSUME TurnInv, [Next]_vars PROVE TurnInv'
  OBVIOUS
<1>1. TurnTyped'
  BY TypedNext DEF TurnInv
<1>2. CASE Step
  BY <1>1, <1>2, SessionStep, StoredStep, EarlyStep, TxStep DEF TurnInv
<1>3. CASE StartTurn
  <2>1. /\ TurnTyped /\ SessionInv /\ StoredInv /\ EarlyInv /\ TxInv
        /\ pc = "idle" /\ pc' = "begin" /\ mem' = mem /\ disk' = disk /\ tx' = tx /\ conf' = conf
        /\ t'.prev = [status |-> mem.status, turn |-> mem.turn, len |-> Len(mem.recs)]
        /\ ~t'.ckpt /\ ~t'.opened /\ ~t'.completed /\ t'.produced = 0
    BY <1>3, StartMeans DEF TurnInv
  <2>2. SessionInv'
    BY <2>1 DEF SessionInv, Between, InLoop, Settling, AtCall
  <2>3. mem.recs \in Seq(Rec) /\ Len(mem.recs) \in Nat
    BY <2>1 DEF TurnTyped, SessionRow
  <2>4. StoredInv'
    <3>1. Len(mem.recs) <= Len(disk.recs) + 1
      <4>1. disk.recs \in Seq(Rec) /\ Len(disk.recs) \in Nat
        BY <2>1 DEF TurnTyped, SessionRow
      <4>2. \A e \in Rec : Ahead(e) => Len(mem.recs) = Len(disk.recs) + 1
        BY <4>1, AppendProperties DEF Ahead
      <4> QED
        BY <2>1, <4>1, <4>2 DEF StoredInv
    <3>2. t'.prev.len = Len(mem.recs)
      BY <2>1
    <3>3. mem'.recs = disk'.recs \/ (conf'.faults /\ \E e \in Rec : Ahead(e)')
      BY <2>1 DEF StoredInv, Ahead
    <3> QED
      BY <2>1, <2>3, <3>1, <3>2, <3>3 DEF StoredInv, Fresh, Middle, Ending, InLoop, AtCall, Settling
  <2>5. EarlyInv'
    BY <2>1 DEF EarlyInv, Early
  <2>6. TxInv'
    BY <2>1 DEF TxInv, Settled, Opening, InLoop, AtCall, Settling
  <2> QED
    BY <1>1, <2>2, <2>4, <2>5, <2>6 DEF TurnInv
<1>4. CASE Cancel \/ UNCHANGED vars
  <2>1. conf' = conf /\ mem' = mem /\ disk' = disk /\ tx' = tx /\ pc' = pc /\ t' = t
    BY <1>4 DEF Cancel, vars
  <2> QED
    BY <1>1, <2>1 DEF TurnInv, SessionInv, StoredInv, Kept, Lost, Ahead, Stored, ToolsSince, EarlyInv, TxInv, Settled, Stale
<1>5. CASE UserOpensTx \/ UserSettlesTx
  <2>1. /\ conf' = conf /\ mem' = mem /\ disk' = disk /\ pc' = pc /\ t' = t /\ pc = "idle" /\ ~tx'.implicit
    BY <1>5 DEF UserOpensTx, UserSettlesTx, At, NoTx
  <2>2. SessionInv' /\ StoredInv' /\ EarlyInv'
    BY <2>1 DEF TurnInv, SessionInv, StoredInv, Kept, Lost, Ahead, Stored, ToolsSince, EarlyInv
  <2>3. TxInv'
    BY <2>1 DEF TurnInv, TxInv, Settled, Opening, InLoop, AtCall, Settling
  <2> QED
    BY <1>1, <2>2, <2>3 DEF TurnInv
<1> QED
  BY <1>2, <1>3, <1>4, <1>5 DEF Next

\* The invariant holds of every execution, whatever is cancelled and fails.
THEOREM TurnInvAlways == Spec => []TurnInv
BY TurnInvInit, TurnInvNext, PTL DEF Spec

\* In the session file a tool result directly follows its call, whatever was
\* cancelled or failed, and a finished turn has every result in it; a save that
\* failed costs the last result at most (runTurn, appendRecord).
THEOREM SessionAlwaysReplayable == Spec => []SessionIsReplayable
<1>1. TurnInv => Replayable
  BY DEF TurnInv, SessionInv, Ordered, Replayable
<1>2. TurnInv => ProducedIsStored
  BY DEF TurnInv, StoredInv, Ending, Kept, Lost, Stored, EndsWith, ProducedIsStored, At
<1>3. TurnInv => SessionIsReplayable
  BY <1>1, <1>2 DEF SessionIsReplayable
<1> QED
  BY <1>3, TurnInvAlways, PTL

\* A turn that never got its checkpoint leaves the object in memory as it was,
\* whatever throws, and the file too unless its save fails; a turn settles the
\* transaction it opened unless one of its calls fails, and even then the session
\* is never reset while that transaction takes edits (the finally block,
\* finishTurnTx, abortStaleImplicitTurnTx).
THEOREM TurnAlwaysCleansUp == Spec => []TurnLeavesNothing
<1>1. TurnInv => EarlyEndRestores
  BY DEF TurnInv, EarlyInv, EarlyEndRestores, At
<1>2. TurnInv => TurnSettlesTx
  BY DEF TurnInv, TxInv, TurnSettlesTx, Settled, At
<1>3. TurnInv => TurnLeavesNothing
  BY <1>1, <1>2 DEF TurnLeavesNothing
<1> QED
  BY <1>3, TurnInvAlways, PTL

\* What a step of a cancelled turn leaves alone, apart from the session.
LEMMA CancelledStep ==
  ASSUME TurnTyped, Step, signal
  PROVE  /\ pc' \in {"request", "running"} => pc' = pc
         /\ t'.compactions = t.compactions /\ t'.retries <= t.retries
         /\ tx'.implicit => tx.implicit
<1>1. t \in Locals /\ tx \in [state : TxState, implicit : BOOLEAN] /\ ~NoTx.implicit
  BY DEF TurnTyped, NoTx
<1>2. ASSUME Throw PROVE pc' = "finally" /\ t'.compactions = t.compactions /\ t'.retries <= t.retries
  BY <1>1, <1>2 DEF Throw, Leave, Set, Go, Locals
<1>3. ASSUME Stopped
      PROVE  pc' = "finally" /\ t'.compactions = t.compactions /\ t'.retries <= t.retries /\ tx' = tx
  BY <1>2, <1>3 DEF Stopped, Quiet
<1>4. CASE Begin \/ Checkpoint \/ OpenTurnTx \/ LoopHead \/ ThresholdCompact \/ CompleteModel
           \/ ModelReturns \/ TakeAction \/ RunTool
  BY <1>3, <1>4 DEF Begin, Checkpoint, OpenTurnTx, LoopHead, ThresholdCompact, CompleteModel,
     ModelReturns, TakeAction, RunTool
<1>5. CASE AppendUser \/ OverflowRetry \/ RecordAction \/ Authorize
  BY <1>2, <1>3, <1>5 DEF AppendUser, OverflowRetry, RecordAction, Authorize, Quiet
<1>6. CASE ToolReturns
  <2>1. CASE \E r, e : Set([t EXCEPT !.res = r, !.edited = @ \/ e, !.produced = @ + 1], "store") /\ Quiet
    BY <1>1, <2>1 DEF Set, Go, Quiet, Locals
  <2> QED
    BY <1>3, <1>6, <2>1 DEF ToolReturns
<1>7. CASE StoreResult
  <2>1. tx' = tx /\ (Throw \/ (t' = t /\ pc' = "judge"))
    BY <1>7 DEF StoreResult, Set, Go
  <2> QED
    BY <1>1, <1>2, <2>1 DEF Locals
<1>8. CASE Judge
  <2> DEFINE next(same) == [t EXCEPT !.count = Repeats, !.last = t.res, !.denials = @ + same,
                                   !.decision = "none", !.res = "none",
                                   !.plan = @ \/ t.res \in {"draft", "ready"}]
  <2>1. PICK same \in {0, 1} : tx' = tx /\ (Throw \/ (t' = next(same) /\ pc' = "final"))
    BY <1>8 DEF Judge, Set, Go, Quiet
  <2>2. next(same).compactions = t.compactions /\ next(same).retries = t.retries /\ t.retries \in Nat
    BY <1>1 DEF Locals
  <2> HIDE DEF next
  <2> QED
    BY <1>2, <2>1, <2>2
<1>9. CASE FinishTurn \/ PassTx \/ Reset \/ Fault("checkpoint") \/ Fault("open")
  <2>1. tx' = tx /\ (Throw \/ (t' = t /\ pc' \in {"finalize", "stop", "ask", "idle"}))
    BY <1>9 DEF FinishTurn, PassTx, Reset, Fault, Set, Go, Quiet
  <2> QED
    BY <1>1, <1>2, <2>1 DEF Locals
<1>10. CASE FinalizeTx \/ EmptyDiff \/ ValidateTx \/ RefuseTx \/ ApproveTx \/ ApplyTx \/ AbortStale
  <2>1. \/ Throw
        \/ t' = t /\ pc' \in {"edits", "stop", "verdict", "apply", "reset", "idle"}
    BY <1>10 DEF FinalizeTx, EmptyDiff, ValidateTx, RefuseTx, ApproveTx, ApplyTx, AbortStale, TxCall, AbortTx, Set, Go
  <2>2. tx' = tx \/ tx' = NoTx \/ \E s : tx' = [tx EXCEPT !.state = s]
    BY <1>10 DEF FinalizeTx, EmptyDiff, ValidateTx, RefuseTx, ApproveTx, ApplyTx, AbortStale, TxCall, AbortTx, Quiet
  <2>3. tx'.implicit => tx.implicit
    BY <1>1, <2>2
  <2> QED
    BY <1>1, <1>2, <2>1, <2>3 DEF Locals
<1>11. CASE Stop
  <2>1. [t EXCEPT !.completed = TRUE] \in Locals /\ [t EXCEPT !.completed = TRUE].compactions = t.compactions
        /\ t.retries \in Nat
    BY <1>1 DEF Locals
  <2>2. PICK u \in Locals : u = [t EXCEPT !.completed = TRUE]
    BY <2>1
  <2>3. Leave(u) /\ tx' = tx
    BY <1>11, <2>2 DEF Stop, Quiet
  <2>4. t'.compactions = u.compactions /\ t'.retries = 0 /\ pc' = "finally"
    BY <2>2, <2>3 DEF Leave, Set, Go, Locals
  <2> QED
    BY <2>1, <2>2, <2>3, <2>4
<1> QED
  BY <1>4, <1>5, <1>6, <1>7, <1>8, <1>9, <1>10, <1>11 DEF Step

\* A cancelled turn adds no record, except the result of a call that it has.
LEMMA CancelledRecords ==
  ASSUME TurnInv, Step, signal, pc # "store"
  PROVE  Len(mem'.recs) <= Len(mem.recs)
<1>1. /\ mem \in SessionRow /\ disk \in SessionRow /\ mem.recs \in Seq(Rec) /\ disk.recs \in Seq(Rec)
      /\ Len(mem.recs) \in Nat /\ Len(disk.recs) \in Nat /\ t.prev.status \in {"idle", "running"} /\ t.prev.turn \in Nat
  BY DEF TurnInv, TurnTyped, SessionRow, Locals
<1>2. Len(disk.recs) <= Len(mem.recs)
  <2>1. \A e \in Rec : Ahead(e) => Len(mem.recs) = Len(disk.recs) + 1
    BY <1>1, AppendProperties DEF Ahead
  <2> QED
    BY <1>1, <2>1 DEF TurnInv, StoredInv
<1>3. mem' = mem \/ mem' = disk \/ mem'.recs = mem.recs
  <2>1. CASE Begin \/ Checkpoint \/ AppendUser \/ OpenTurnTx \/ LoopHead \/ ThresholdCompact \/ CompleteModel
             \/ ModelReturns \/ OverflowRetry \/ RecordAction \/ TakeAction \/ Authorize \/ RunTool \/ ToolReturns
             \/ StoreResult \/ Judge
    BY <2>1 DEF Begin, Checkpoint, AppendUser, OpenTurnTx, LoopHead, ThresholdCompact, CompleteModel, ModelReturns,
       OverflowRetry, RecordAction, TakeAction, Authorize, RunTool, ToolReturns, StoreResult, Judge, At, Stopped, Quiet
  <2>2. CASE FinishTurn \/ FinalizeTx \/ EmptyDiff \/ ValidateTx \/ RefuseTx \/ PassTx \/ ApproveTx \/ ApplyTx
             \/ Stop \/ AbortStale \/ Fault("checkpoint") \/ Fault("open")
    BY <2>2 DEF FinishTurn, FinalizeTx, EmptyDiff, ValidateTx, RefuseTx, PassTx, ApproveTx, ApplyTx, Stop, AbortStale,
       Fault, TxCall, AbortTx, Quiet, MutateSession
  <2>3. CASE Reset
    <3>1. mem' = [mem EXCEPT !.status = "idle"] \/ mem' = Restored
      BY <2>3 DEF Reset, Save
    <3>2. [mem EXCEPT !.status = "idle"].recs = mem.recs
      BY <1>1 DEF SessionRow
    <3>3. Restored.recs = mem.recs
      BY RestoredMeans DEF TurnInv
    <3> QED
      BY <3>1, <3>2, <3>3
  <2> QED
    BY <2>1, <2>2, <2>3 DEF Step
<1> QED
  BY <1>1, <1>2, <1>3

\* A cancelled turn starts no model request, no tool, no compaction and no
\* transaction, and its session gets no record but the result of a call that was
\* taken up before (throwIfCancelled, runTurn).
THEOREM CancelIsSeen == Spec => NothingStartsAfterCancel
<1> DEFINE Body == /\ pc' \in {"request", "running"} => pc' = pc
                   /\ t'.compactions = t.compactions /\ t'.retries <= t.retries
                   /\ tx'.implicit => tx.implicit
                   /\ Len(mem'.recs) > Len(mem.recs) => pc = "store"
           Seen == signal' => Body
<1>1. TurnInv /\ [Next]_vars => [Seen]_vars
  <2> SUFFICES ASSUME TurnInv, Next, signal' PROVE Body
    OBVIOUS
  <2>1. /\ TurnTyped /\ t.compactions \in Nat /\ t.retries \in Nat
        /\ Len(mem.recs) \in Nat
    BY DEF TurnInv, TurnTyped, Locals, SessionRow
  <2>2. CASE Step
    <3>1. signal
      BY <2>2 DEF Step, Begin, Checkpoint, AppendUser, OpenTurnTx, LoopHead, ThresholdCompact, CompleteModel, ModelReturns,
         OverflowRetry, RecordAction, TakeAction, Authorize, Refuse, RunTool, ToolReturns, StoreResult, Judge, FinishTurn,
         FinalizeTx, EmptyDiff, ValidateTx, RefuseTx, PassTx, ApproveTx, ApplyTx, Stop, AbortStale, Reset, Fault, TxCall,
         AbortTx, Stopped, Quiet
    <3>2. TurnTyped'
      BY <2>1, <2>2, TypedStep
    <3>3. Len(mem'.recs) \in Nat
      BY <3>2 DEF TurnTyped, SessionRow
    <3>4. Len(mem'.recs) > Len(mem.recs) => pc = "store"
      BY <2>1, <2>2, <3>1, <3>3, CancelledRecords
    <3> QED
      BY <2>1, <2>2, <3>1, <3>4, CancelledStep
  <2>3. CASE Cancel
    BY <2>1, <2>3 DEF Cancel
  <2>4. CASE UserOpensTx \/ UserSettlesTx
    <3>1. mem' = mem /\ pc' = pc /\ t' = t
      BY <2>4 DEF UserOpensTx, UserSettlesTx
    <3>2. tx' = [state |-> "staging", implicit |-> FALSE] \/ tx' = [state |-> "none", implicit |-> FALSE]
      BY <2>4 DEF UserOpensTx, UserSettlesTx, NoTx
    <3>3. ~tx'.implicit
      BY <3>2
    <3> QED
      BY <2>1, <3>1, <3>3
  <2>5. ~StartTurn
    BY DEF StartTurn
  <2> QED
    BY <2>2, <2>3, <2>4, <2>5 DEF Next
<1>2. Spec => [][Seen]_vars
  <2> HIDE DEF Seen
  <2> QED
    BY <1>1, TurnInvAlways, PTL DEF Spec
<1> QED
  BY <1>2 DEF NothingStartsAfterCancel
=============================================================================
