----------------------------- MODULE Compaction -----------------------------
(***************************************************************************)
(* Automatic compaction: which prefix of the session a summary replaces.   *)
(* The session grows by turns, tool calls and transactions.  Before a      *)
(* model request selectAutoCompactRange picks a cut, the model summarizes, *)
(* and createCompaction, which reads the session again, makes the cut the  *)
(* active one; cliq tx in another process may write in between.            *)
(*                                                                         *)
(* A cut c covers the records 1..c: it is the code's endIndexExclusive,    *)
(* and record c + 1 is the first one kept.                                 *)
(***************************************************************************)
EXTENDS Integers, Sequences, FiniteSetsExt

CONSTANTS MaxRecs,            \* bound on the length of the session
          Explicit,           \* transactions of cliq tx open; a turn's own has no
                              \* tx-opened record, and its closing one is no boundary
          Size,               \* tokens of a record
          KeepRecentTokens, MinNewTokens

CompactionConstants ==
  Size \subseteq Nat \ {0} /\ KeepRecentTokens \in Nat /\ MinNewTokens \in Nat

VARIABLES recs,  \* session.records
          end,   \* coveredRange of the active compaction; 0: there is none
          by,    \* who made it: "auto", or "manual" for cliq compact create
          pick,  \* the cut being summarized; 0: none
          turn   \* what the turn does: "idle", "model" asks next, "tool" runs

vars == <<recs, end, by, pick, turn>>

NoTx  == "none"
Kind  == {"user", "message", "call", "tool", "tx-opened", "tx-closed"}
Entry == [kind : Kind, tx : Explicit \cup {NoTx}, size : Size]

Init == recs = <<>> /\ end = 0 /\ by = "auto" /\ pick = 0 /\ turn = "idle"

-----------------------------------------------------------------------------
(* selectAutoCompactRange.                                                 *)

Cuts == 1..(Len(recs) - 1)

\* estimateRecordsTokens of the records from..to.
Tokens(from, to) == MapThenSumSet(LAMBDA k : recs[k].size, from..to)
TailTokens(c) == Tokens(c + 1, Len(recs))

IsSafeSplitPoint(c) ==
  /\ recs[c + 1].kind # "tool" /\ recs[c].kind # "call"
  /\ recs[c].kind = "tool" \/ recs[c + 1].kind \in {"user", "message", "call"}

SafeBoundaryCandidates == {c \in Cuts : recs[c + 1].kind = "user" \/ IsSafeSplitPoint(c)}

\* Where explicit transaction x opens, and where its span ends.
OpenOf(x)  == {k \in DOMAIN recs : recs[k].kind = "tx-opened" /\ recs[k].tx = x}
CloseOf(x) == {k \in DOMAIN recs : recs[k].kind = "tx-closed" /\ recs[k].tx = x}

\* Mutant: a transaction that is still open has no span.
FindExplicitTxSpans_Closed ==
  {[open |-> Min(OpenOf(x)), close |-> Min(CloseOf(x))] :
     x \in {y \in Explicit : OpenOf(y) # {} /\ CloseOf(y) # {}}}

FindExplicitTxSpans ==
  {[open |-> Min(OpenOf(x)), close |-> Min(CloseOf(x) \cup {Len(recs) + 1})] :
     x \in {y \in Explicit : OpenOf(y) # {}}}

Inside(c, span) == span.open <= c /\ c < span.close

\* The loop of adjustCutForTxSpans: step out of a span while there is one.
AdjustCut(cut) ==
  LET adjust[c \in 0..cut] ==
        IF \E s \in FindExplicitTxSpans : Inside(c, s)
        THEN adjust[(CHOOSE s \in FindExplicitTxSpans : Inside(c, s)).open - 1]
        ELSE c
  IN  adjust[cut]

\* The last candidate that leaves enough recent records; the first one if none does.
Raw(candidates) ==
  LET enough == {c \in candidates : TailTokens(c) >= KeepRecentTokens}
  IN  IF enough = {} THEN Min(candidates) ELSE Max(enough)

\* The cut, or 0.
SelectAutoCompactRange ==
  LET candidates == {c \in SafeBoundaryCandidates : c > end}
      cut == AdjustCut(Raw(candidates))
  IN  IF candidates = {} \/ cut <= end \/ Tokens(end + 1, cut) < MinNewTokens
      THEN 0 ELSE cut

-----------------------------------------------------------------------------
(* Compaction.                                                             *)

Select ==
  /\ turn = "model" /\ pick = 0 /\ Len(recs) >= 2
  /\ SelectAutoCompactRange # 0 /\ pick' = SelectAutoCompactRange
  /\ UNCHANGED <<recs, end, by, turn>>

\* createCompaction: the range must still be valid in the session as it is now;
\* the active compaction is superseded.
CreateCompaction(c, who) ==
  /\ 0 < c /\ c < Len(recs) /\ c > end
  /\ end' = c /\ by' = who

Summarized == pick # 0 /\ CreateCompaction(pick, "auto") /\ pick' = 0 /\ UNCHANGED <<recs, turn>>

\* The summary fails, or the range is no longer valid.
GiveUp == pick # 0 /\ pick' = 0 /\ UNCHANGED <<recs, end, by, turn>>

\* Another process writes when it is not between two writes of the runner, which
\* would overwrite it: no turn runs, or the turn waits for a summary.
Elsewhere == turn = "idle" \/ pick # 0

\* cliq compact create: all records but one, or those before some checkpoint.
ManualCompact == Elsewhere /\ (\E c \in Cuts : CreateCompaction(c, "manual")) /\ UNCHANGED <<recs, pick, turn>>

-----------------------------------------------------------------------------
(* The session grows.                                                      *)

Push(kind, x) ==
  /\ Len(recs) < MaxRecs
  /\ \E s \in Size : recs' = Append(recs, [kind |-> kind, tx |-> x, size |-> s])
  /\ UNCHANGED <<end, by, pick>>

UserMessage == turn = "idle" /\ Push("user", NoTx) /\ turn' = "model"
ModelCall   == turn = "model" /\ pick = 0 /\ Push("call", NoTx) /\ turn' = "tool"
ModelAnswer == turn = "model" /\ pick = 0 /\ Push("message", NoTx) /\ turn' = "idle"
ToolResult  == turn = "tool" /\ Push("tool", NoTx) /\ turn' = "model"
Cancel      == turn # "idle" /\ pick = 0 /\ turn' = "idle" /\ UNCHANGED <<recs, end, by, pick>>

OpenTx(x)  == Elsewhere /\ OpenOf(x) = {} /\ Push("tx-opened", x) /\ UNCHANGED turn
CloseTx(x) == Elsewhere /\ OpenOf(x) # {} /\ CloseOf(x) = {} /\ Push("tx-closed", x) /\ UNCHANGED turn

Next ==
  \/ Select \/ Summarized \/ GiveUp \/ ManualCompact
  \/ UserMessage \/ ModelCall \/ ModelAnswer \/ ToolResult \/ Cancel
  \/ \E x \in Explicit : OpenTx(x) \/ CloseTx(x)

Spec == Init /\ [][Next]_vars

-----------------------------------------------------------------------------
(* Properties.                                                             *)

TypeOK ==
  /\ recs \in Seq(Entry) /\ end \in Nat /\ pick \in Nat
  /\ by \in {"auto", "manual"} /\ turn \in {"idle", "model", "tool"}

\* An automatic compaction never separates a tool result from its call, however
\* the session went on after the cut was chosen: the kept records start with no
\* tool result (isSafeSplitPoint, adjustCutForTxSpans).
CallsStayWhole == end > 0 /\ by = "auto" => recs[end + 1].kind # "tool"

\* An explicit transaction lies on one side of an automatic cut, also when it is
\* still open at the cut and settled long after.
TxStaysWhole ==
  by = "auto" => \A x \in Explicit : \A o \in OpenOf(x), c \in CloseOf(x) : (o <= end) <=> (c <= end)

\* What selectAutoCompactRange is for: the cut keeps the recent tokens whenever
\* the start of some turn does, and no turn outside the transactions of which
\* that is true starts later.
KeepsRecent ==
  LET enough == {c \in Cuts : c > end /\ recs[c + 1].kind = "user" /\ TailTokens(c) >= KeepRecentTokens}
      cut == SelectAutoCompactRange
  IN  turn = "model" /\ cut # 0 =>
        /\ enough # {} => TailTokens(cut) >= KeepRecentTokens
        /\ \A c \in enough : c > cut =>
             \E x \in Explicit : \E o \in OpenOf(x) : o <= c /\ ~ \E d \in CloseOf(x) : d <= c

\* Compaction only moves forward, and always leaves a record to go on with.
Advances == end' # end => end' > end /\ end' < Len(recs')
=============================================================================
