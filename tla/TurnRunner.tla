----------------------------- MODULE TurnRunner -----------------------------
(***************************************************************************)
(* runTurn: one turn of the agent on a session, from the user's message to *)
(* the final answer, with its checkpoint, compactions, model requests,     *)
(* tool calls, the transaction it may open, and the finally block.         *)
(*                                                                         *)
(* The session exists twice: the object in memory (mem) and its file       *)
(* (disk).  saveSession writes mem to disk; mutateSession reads the file,  *)
(* changes and writes it, and then replaces the contents of the object.    *)
(* Cancel may fall between any two steps; the code sees it only where it   *)
(* looks at the signal.                                                    *)
(***************************************************************************)
EXTENDS Integers, Sequences, FiniteSets

CONSTANTS MaxTurns,    \* the values maxTurns may have: rounds of one turn
          MaxRounds,   \* bound: no new turn once the turns so far had that many rounds
          RepeatLimit, \* doomLoop.repeatedActionLimit
          MaxRetries,  \* maxOverflowRetriesPerModelCall
          ApplyPolicy, \* the values applyPolicy may have
          Result,      \* what tells calls that ran apart: actionLoopSignature
          Denial,      \* the same, for calls that were refused
          Faults       \* whether session saves and transaction calls may throw

ASSUME BoundsAssumption ==
  /\ MaxRounds \in Nat /\ MaxTurns \subseteq Nat \ {0} /\ RepeatLimit \in Nat \ {0}
  /\ MaxRetries \in Nat \ {0} /\ Faults \subseteq BOOLEAN
  /\ ApplyPolicy \subseteq {"interactive", "auto-on-pass", "manual-only"}

VARIABLES conf,       \* how the runner was created
          signal,     \* the abort signal of the turn
          mem, disk,  \* the session object and the session file
          tx,         \* the active transaction
          pc, t       \* the turn: where it is, and its local variables

vars == <<conf, signal, mem, disk, tx, pc, t>>

Conf == [auto : {"off", "manual", "per-turn"}, applyPolicy : ApplyPolicy,
         plan : BOOLEAN, confirm : BOOLEAN, maxTurns : MaxTurns, faults : Faults]

\* Records of the session: a user message, an assistant's message or tool call,
\* a tool result.  The plan tool returns "draft" or "ready".
ToolResult == Result \cup Denial \cup {"draft", "ready"}
Entry(kind) == [kind |-> kind, res |-> "none"]
Answer(r)   == [kind |-> "tool", res |-> r]
EntrySet == {Entry(k) : k \in {"user", "message", "call"}} \cup {Answer(r) : r \in ToolResult}
Session  == [status : {"idle", "running"}, turn : 0..MaxRounds, recs : Seq(EntrySet)]

TxState == {"none", "staging", "finalized", "validated", "approved", "partial"}
NoTx    == [state |-> "none", implicit |-> FALSE]

\* Locals; produced is history: the results that the turn's calls have had.
NoTurn == [run |-> 0, i |-> 0, retries |-> 0, compactions |-> 0, suppressed |-> FALSE,
           ckpt |-> FALSE, opened |-> FALSE, uses |-> FALSE, completed |-> FALSE,
           edited |-> FALSE, action |-> "none", decision |-> "none", res |-> "none",
           last |-> "none", count |-> 0, plan |-> FALSE, denials |-> 0,
           prev |-> [status |-> "idle", turn |-> 0, len |-> 0],
           produced |-> 0]

Init ==
  /\ conf \in Conf /\ signal = FALSE
  /\ mem = [status |-> "idle", turn |-> 0, recs |-> <<>>] /\ disk = mem
  /\ tx = NoTx /\ pc = "idle" /\ t = NoTurn

-----------------------------------------------------------------------------
(* The session store.                                                      *)

\* saveSession, of a changed object m; with faults it may throw (saved FALSE).
Save(m, saved) == mem' = m /\ disk' = IF saved THEN m ELSE disk

\* appendRecord pushes to the object first, and saves then.
Append1(entry, saved) == Save([mem EXCEPT !.recs = Append(@, entry)], saved)

\* mutateSession, of fields that the model does not keep.
MutateSession == mem' = disk /\ UNCHANGED disk

MaySave == IF conf.faults THEN BOOLEAN ELSE {TRUE}

-----------------------------------------------------------------------------
(* Control.                                                                *)

At(l)   == pc = l
Go(l)   == pc' = l
Set(t2, l) == t' = t2 /\ Go(l)

\* An exception unwinds to the finally block.
Leave(t2) == Set([t2 EXCEPT !.action = "none", !.decision = "none", !.res = "none",
                            !.last = "none", !.count = 0, !.i = 0, !.retries = 0,
                            !.denials = 0, !.plan = FALSE], "finally")
Throw == Leave(t)
Quiet == UNCHANGED <<conf, signal, mem, disk, tx>>
\* throwIfCancelled.
Stopped == signal /\ Throw /\ Quiet

\* A step that the signal prevents, and one that may fail instead.
Fault(l) == conf.faults /\ At(l) /\ ~signal /\ Throw /\ Quiet

-----------------------------------------------------------------------------
(* Before the loop.                                                        *)

StartTurn ==
  /\ At("idle") /\ t.run * conf.maxTurns < MaxRounds
  /\ signal' = FALSE
  /\ Set([NoTurn EXCEPT !.run = t.run + 1, !.prev =
            [status |-> mem.status, turn |-> mem.turn, len |-> Len(mem.recs)]], "begin")
  /\ UNCHANGED <<conf, mem, disk, tx>>

Cancel == /\ pc # "idle" /\ ~signal /\ signal' = TRUE
          /\ UNCHANGED <<conf, mem, disk, tx, pc, t>>

Begin ==
  /\ At("begin")
  /\ \/ Stopped
     \/ /\ ~signal /\ mem' = [mem EXCEPT !.status = "running", !.turn = @ + 1]
        /\ Set(t, "checkpoint") /\ UNCHANGED <<conf, signal, disk, tx>>

\* createCheckpoint goes through mutateSession.
Checkpoint ==
  /\ At("checkpoint")
  /\ \/ Stopped
     \/ /\ ~signal /\ MutateSession
        /\ Set([t EXCEPT !.ckpt = TRUE], "user") /\ UNCHANGED <<conf, signal, tx>>

AppendUser ==
  /\ At("user")
  /\ \/ Stopped
     \/ \E saved \in MaySave :
          /\ ~signal /\ Append1(Entry("user"), saved)
          /\ IF saved THEN Set(t, "open") ELSE Throw
          /\ UNCHANGED <<conf, signal, tx>>

\* openTurnTx: an active transaction is used as it is, whoever opened it.
OpenTurnTx ==
  /\ At("open")
  /\ \/ Stopped
     \/ /\ ~signal /\ conf.auto # "off" /\ tx # NoTx
        /\ Set([t EXCEPT !.uses = TRUE], "loop") /\ Quiet
     \/ /\ ~signal /\ (conf.auto = "off" \/ (conf.auto = "manual" /\ tx = NoTx))
        /\ Set(t, "loop") /\ Quiet
     \/ /\ ~signal /\ conf.auto = "per-turn" /\ tx = NoTx
        /\ tx' = [state |-> "staging", implicit |-> TRUE] /\ MutateSession
        /\ Set([t EXCEPT !.uses = TRUE, !.opened = TRUE], "loop")
        /\ UNCHANGED <<conf, signal>>

-----------------------------------------------------------------------------
(* The loop: compaction and the model request.                             *)

\* for (i < maxTurns).
LoopHead ==
  /\ At("loop")
  /\ \/ Stopped
     \/ ~signal /\ t.i = conf.maxTurns /\ Throw /\ Quiet
     \/ ~signal /\ t.i < conf.maxTurns /\ Set([t EXCEPT !.retries = 0], "compact") /\ Quiet

\* runAutoCompact on the threshold: at most one compaction in a turn, and none
\* after an error.
ThresholdCompact ==
  /\ At("compact")
  /\ \/ Stopped
     \/ ~signal /\ Set(t, "complete") /\ Quiet
     \/ /\ ~signal /\ ~t.suppressed /\ t.compactions = 0 /\ MutateSession
        /\ Set([t EXCEPT !.compactions = 1], "complete") /\ UNCHANGED <<conf, signal, tx>>
     \/ ~signal /\ ~t.suppressed /\ Set([t EXCEPT !.suppressed = TRUE], "complete") /\ Quiet

CompleteModel ==
  /\ At("complete")
  /\ \/ Stopped
     \/ ~signal /\ Set(t, "request") /\ Quiet

ModelReturns ==
  /\ At("request")
  /\ \/ Stopped
     \/ /\ ~signal
        /\ \E a \in {"message", "call"} : Set([t EXCEPT !.action = a], "act")
        /\ Quiet
     \/ ~signal /\ Set(t, "overflow") /\ Quiet
     \/ ~signal /\ Throw /\ Quiet

\* Mutant: the retries are not counted.
OverflowRetry_Uncounted ==
  /\ At("overflow")
  /\ \/ Stopped
     \/ ~signal /\ MutateSession /\ Set(t, "complete") /\ UNCHANGED <<conf, signal, tx>>

\* The context overflowed: compact and ask again, a bounded number of times.
OverflowRetry ==
  /\ At("overflow")
  /\ \/ t.retries < MaxRetries /\ Stopped
     \/ Throw /\ Quiet
     \/ /\ ~signal /\ t.retries < MaxRetries /\ MutateSession
        /\ Set([t EXCEPT !.retries = @ + 1], "complete") /\ UNCHANGED <<conf, signal, tx>>

\* The answer is parsed and recorded.
RecordAction ==
  /\ At("act")
  /\ \/ Stopped
     \/ ~signal /\ Throw /\ Quiet
     \/ \E saved \in MaySave :
          /\ ~signal /\ Append1(Entry(t.action), saved)
          /\ IF saved THEN Set(t, "acted") ELSE Throw
          /\ UNCHANGED <<conf, signal, tx>>

\* A message ends the turn; in plan mode only if there is a plan.
TakeAction ==
  /\ At("acted")
  /\ \/ Stopped
     \/ /\ ~signal /\ t.action = "message"
        /\ IF conf.plan /\ ~t.plan THEN Throw ELSE Set([t EXCEPT !.action = "none"], "final")
        /\ Quiet
     \/ ~signal /\ t.action = "call" /\ Set([t EXCEPT !.action = "none"], "decide") /\ Quiet

-----------------------------------------------------------------------------
(* The loop: the tool call.                                                *)

\* The PreToolUse hook may deny; otherwise the policy decides; when it asks,
\* the PermissionRequest hook may decide, and then the user, if there is one.
Decision(pre, policy, hook, user) ==
  IF pre = "deny" THEN "deny"
  ELSE IF policy # "ask" THEN IF policy = "deny" THEN "policy-deny" ELSE "allow"
  ELSE IF hook # "none" THEN hook
  ELSE IF conf.confirm THEN user ELSE "policy-deny"

\* A call that is not run has a result all the same.
Refuse(d) == \E r \in Denial :
  Set([t EXCEPT !.decision = d, !.res = r, !.produced = @ + 1], "store")

Authorize ==
  /\ At("decide")
  /\ \/ Stopped
     \/ \E pre \in {"deny", "none"}, policy \in {"allow", "deny", "ask"},
           hook \in {"allow", "deny", "none"}, user \in {"allow", "deny"} :
          LET d == Decision(pre, policy, hook, user)
          IN  /\ ~signal /\ Quiet
              /\ IF d = "allow" THEN Set([t EXCEPT !.decision = d], "run") ELSE Refuse(d)
     \* A hook, the policy or the confirmation throws: that is the tool's result.
     \/ ~signal /\ Refuse("error") /\ Quiet

\* Mutant: the signal is not looked at again once the call is allowed.
RunTool_Unchecked == At("run") /\ Set(t, "running") /\ Quiet

RunTool ==
  /\ At("run")
  /\ \/ Stopped
     \/ ~signal /\ Set(t, "running") /\ Quiet

\* A tool returns its result, also after a cancellation it did not notice; it
\* throws, which is a result too; or it stops because of the signal.
ToolReturns ==
  /\ At("running")
  /\ \/ Stopped
     \/ \E r \in Result \cup (IF conf.plan THEN {"draft", "ready"} ELSE {}), e \in BOOLEAN :
          /\ e => t.uses
          /\ Set([t EXCEPT !.res = r, !.edited = @ \/ e, !.produced = @ + 1], "store")
          /\ Quiet

\* Mutant: a cancelled turn drops the result it has.
StoreResult_Drop ==
  /\ At("store")
  /\ \/ Stopped
     \/ ~signal /\ Append1(Answer(t.res), TRUE) /\ Set(t, "judge") /\ UNCHANGED <<conf, signal, tx>>

StoreResult ==
  /\ At("store")
  /\ \E saved \in MaySave :
       /\ Append1(Answer(t.res), saved)
       /\ IF saved THEN Set(t, "judge") ELSE Throw
  /\ UNCHANGED <<conf, signal, tx>>

Repeats == IF t.res = t.last THEN t.count + 1 ELSE 1

\* After the result: the doom loop, a finished plan, repeated denials.  In plan
\* mode the second denial of the same writing tool ends the turn; a denial of
\* another tool, or of a reading one, does not count.
Judge ==
  \E same \in IF conf.plan /\ t.decision = "policy-deny" THEN {0, 1} ELSE {0} :
    LET next == [t EXCEPT !.count = Repeats, !.last = t.res, !.denials = @ + same,
                          !.decision = "none", !.res = "none",
                          !.plan = @ \/ t.res \in {"draft", "ready"}]
    IN  /\ At("judge") /\ Quiet
        /\ IF Repeats >= RepeatLimit THEN Throw
           ELSE IF t.res = "ready" THEN Set(next, "final")
           ELSE IF next.denials >= 2 THEN Throw
           ELSE IF signal THEN Throw
           ELSE Set([next EXCEPT !.i = @ + 1], "loop")

-----------------------------------------------------------------------------
(* The end of the turn: finishTurnTx.  It does not look at the signal.     *)

\* A transaction call succeeds, and leads to state s and label l; or it throws.
TxCall(l, s, next) ==
  /\ At(l) /\ UNCHANGED <<conf, signal>>
  /\ \/ tx' = [tx EXCEPT !.state = s] /\ Set(t, next) /\ UNCHANGED <<mem, disk>>
     \/ conf.faults /\ Throw /\ UNCHANGED <<tx, mem, disk>>
\* abortTx, and the turn's transaction is over.
AbortTx(next) ==
  /\ UNCHANGED <<conf, signal>>
  /\ \/ tx' = NoTx /\ MutateSession /\ Set(t, next)
     \/ conf.faults /\ Throw /\ UNCHANGED <<tx, mem, disk>>

\* Reading a finished plan may fail first.
FinishTurn ==
  /\ At("final") /\ Quiet
  /\ Set(t, IF t.opened THEN "finalize" ELSE "stop") \/ (conf.faults /\ Throw)

FinalizeTx  == TxCall("finalize", "finalized", "edits")
EmptyDiff   == At("edits") /\ ~t.edited /\ AbortTx("stop")
ValidateTx  == At("edits") /\ t.edited /\ TxCall("edits", "validated", "verdict")
\* A blocking validator failed; the user declines, or approveTx finds one.
RefuseTx    == (At("verdict") \/ At("ask")) /\ AbortTx("stop")
PassTx      == /\ At("verdict") /\ Quiet
               /\ Set(t, IF conf.applyPolicy = "manual-only" THEN "stop" ELSE "ask")
ApproveTx   == TxCall("ask", "approved", "apply")
ApplyTx ==
  \/ /\ At("apply") /\ UNCHANGED <<conf, signal>>
     /\ \/ tx' = NoTx /\ MutateSession /\ Set(t, "stop")
        \/ Set(t, "stop") /\ UNCHANGED <<tx, mem, disk>>   \* conflict: still approved
        \/ tx' = [tx EXCEPT !.state = "partial"] /\ Set(t, "stop") /\ UNCHANGED <<mem, disk>>
        \/ conf.faults /\ Throw /\ UNCHANGED <<tx, mem, disk>>
  \/ At("apply") /\ AbortTx("stop")                        \* any other error

\* The final event.
Stop == At("stop") /\ Leave([t EXCEPT !.completed = TRUE]) /\ Quiet

-----------------------------------------------------------------------------
(* The finally block.                                                      *)

Stale == t.opened /\ ~t.completed /\ tx.state = "staging"

\* Mutant: nobody cleans up.
AbortStale_Skip == At("finally") /\ Set(t, "reset") /\ Quiet

\* abortStaleImplicitTurnTx; when it throws, the rest of the block is skipped.
AbortStale ==
  /\ At("finally")
  /\ \/ ~Stale /\ Set(t, "reset") /\ Quiet
     \/ Stale /\ tx' = NoTx /\ MutateSession /\ Set(t, "reset") /\ UNCHANGED <<conf, signal>>
     \/ conf.faults /\ Stale /\ Set(t, "idle") /\ Quiet

Restored == [mem EXCEPT !.status = t.prev.status, !.turn = t.prev.turn]

Reset ==
  /\ At("reset")
  /\ \E saved \in MaySave :
       Save(IF t.ckpt THEN [mem EXCEPT !.status = "idle"] ELSE Restored, saved)
  /\ Set(t, "idle") /\ UNCHANGED <<conf, signal, tx>>

-----------------------------------------------------------------------------
(* Between turns the user opens and settles transactions with cliq tx.     *)

UserOpensTx == /\ At("idle") /\ tx = NoTx /\ conf.auto # "off"
               /\ tx' = [state |-> "staging", implicit |-> FALSE]
               /\ UNCHANGED <<conf, signal, mem, disk, pc, t>>
UserSettlesTx == /\ At("idle") /\ tx # NoTx /\ tx' = NoTx
                 /\ UNCHANGED <<conf, signal, mem, disk, pc, t>>

Step ==
  \/ Begin \/ Checkpoint \/ AppendUser \/ OpenTurnTx
  \/ LoopHead \/ ThresholdCompact \/ CompleteModel \/ ModelReturns \/ OverflowRetry
  \/ RecordAction \/ TakeAction \/ Authorize \/ RunTool \/ ToolReturns \/ StoreResult \/ Judge
  \/ FinishTurn \/ FinalizeTx \/ EmptyDiff \/ ValidateTx \/ RefuseTx \/ PassTx \/ ApproveTx
  \/ ApplyTx \/ Stop \/ AbortStale \/ Reset
  \/ Fault("checkpoint") \/ Fault("open")

Next == Step \/ StartTurn \/ Cancel \/ UserOpensTx \/ UserSettlesTx

Spec     == Init /\ [][Next]_vars
FairSpec == Spec /\ WF_vars(Step)

-----------------------------------------------------------------------------
(* Properties.                                                             *)

\* What may follow a record in a session.
Follows(e, f) ==
  CASE e.kind = "user"    -> f.kind \in {"user", "call", "message"}
    [] e.kind = "message" -> f.kind = "user"
    [] e.kind = "call"    -> f.kind \in {"tool", "user"}
    [] e.kind = "tool"    -> f.kind \in {"user", "call", "message"}

\* The session file is a sequence of turns in which every tool result directly
\* follows its call, and a call without one ends its turn: the order that
\* isSafeSplitPoint and the providers' replay rely on, whatever was cancelled.
Replayable == \A k \in 1..(Len(disk.recs) - 1) : Follows(disk.recs[k], disk.recs[k + 1])

\* Once the turn is cancelled no model request, no tool and no compaction starts,
\* no transaction is opened for it, and the one record that may still be added is
\* the result of a call that was taken up before.
NothingStartsAfterCancel ==
  [][signal' =>
       /\ pc' \in {"request", "running"} => pc' = pc
       /\ t'.compactions = t.compactions /\ t'.retries <= t.retries
       /\ tx'.implicit => tx.implicit
       /\ Len(mem'.recs) > Len(mem.recs) => pc = "store"]_vars

\* Where the file holds the results of the turn that began with n records.
ToolsSince(n) == {k \in n + 1 .. Len(disk.recs) : disk.recs[k].kind = "tool"}

\* A result that a tool produced is in the file once when the turn is over, also
\* when the turn was cancelled while the tool ran.  A save that failed costs the
\* last result and no other: the file ends with its call.
ProducedIsStored ==
  At("idle") =>
    LET stored == Cardinality(ToolsSince(t.prev.len))
    IN  \/ stored = t.produced
        \/ /\ conf.faults /\ stored + 1 = t.produced
           /\ disk.recs # <<>> /\ disk.recs[Len(disk.recs)].kind = "call"

\* What a session file holds can be replayed, and nothing a tool did is missing.
SessionIsReplayable == Replayable /\ ProducedIsStored

\* A turn that ends before its checkpoint leaves the session in memory as it was,
\* whatever throws, and the file the same unless the save of it fails.
EarlyEndRestores ==
  At("idle") /\ t.run > 0 /\ ~t.ckpt =>
    /\ mem.turn = t.prev.turn /\ mem.status = t.prev.status
    /\ Len(mem.recs) = t.prev.len
    /\ disk = mem \/ conf.faults

\* The transaction that a turn opened is settled when the turn is over, unless
\* its apply met a conflict or stopped half-way, the user applies by hand, or a
\* transaction call failed.  Whatever failed, the finally block resets the session
\* only when that transaction takes no more edits.
TurnSettlesTx ==
  /\ At("idle") /\ tx.implicit /\ ~conf.faults =>
       \/ tx.state \in {"approved", "partial"}
       \/ conf.applyPolicy = "manual-only" /\ tx.state = "validated"
  /\ At("reset") /\ t.opened => tx.state # "staging"

\* An ended turn leaves neither a session it did not checkpoint nor a transaction
\* it did not settle.
TurnLeavesNothing == EarlyEndRestores /\ TurnSettlesTx

\* Every turn ends: the loop and the retries are bounded.
TurnEnds == pc = "begin" ~> pc = "idle"

\* Every turn that reached its checkpoint has been counted.
TurnsAreCounted == At("idle") /\ t.ckpt => disk.turn = t.prev.turn + 1
=============================================================================
