------------------------- MODULE HeadlessRpcProofs -------------------------
(***************************************************************************)
(* Proofs about HeadlessRpc, for any number of runs and queries: the state *)
(* is well-typed, no run goes on for a client that has gone, what a client *)
(* reads of a run is in order, and every failing end was announced.        *)
(***************************************************************************)
EXTENDS HeadlessRpc, SequenceTheorems, TLAPS

Runs == [Run -> RunState]

\* What each operation keeps.
Inv == TypeOK /\ ClosedRunsStop

\* An abort keeps the types, and marks the run it is about.
LEMMA AbortMarks ==
  ASSUME NEW a \in 0..MaxRuns, signal \subseteq Run, Abort(a)
  PROVE  signal' \subseteq Run /\ signal \subseteq signal' /\ (a # 0 => a \in signal')
<1>1. a # 0 => a \in Run
  BY BoundsAssumption DEF Run
<1> QED
  BY <1>1 DEF Abort

\* A write keeps the types; when the transport breaks at it, the active run is
\* aborted.
LEMMA WriteAborts ==
  ASSUME NEW msgs, NEW a \in 0..MaxRuns, NEW runs \in Runs, signal \subseteq Run,
         closed \in BOOLEAN, Write(msgs, a, runs)
  PROVE  /\ run' \in Runs /\ signal' \subseteq Run /\ signal \subseteq signal'
         /\ closed' \in BOOLEAN /\ (closed' /\ ~closed /\ a # 0 => a \in signal')
<1> run' \in Runs
  BY DEF Write
<1>1. CASE closed /\ UNCHANGED <<closed, out, signal>>
  BY <1>1
<1>2. CASE ~closed /\ out' = out \o msgs /\ UNCHANGED <<closed, signal>>
  BY <1>2
<1>3. CASE ~closed /\ closed' = TRUE /\ Abort(a)
  BY <1>3, AbortMarks
<1> QED
  BY <1>1, <1>2, <1>3 DEF Write

\* The updates of a run that the operations make are well-typed.
LEMMA Updates ==
  ASSUME run \in Runs, NEW r \in Run
  PROVE  /\ \A q \in Phase : [run EXCEPT ![r].phase = q] \in Runs
         /\ \A e \in Code : [run EXCEPT ![r].error = e] \in Runs
         /\ \A b \in BOOLEAN : [run EXCEPT ![r] = [NoRun EXCEPT !.phase = "begin", !.silent = b]] \in Runs
<1>1. \A q \in Phase : [run EXCEPT ![r].phase = q] \in Runs
  BY DEF Runs, RunState
<1>2. \A e \in Code : [run EXCEPT ![r].error = e] \in Runs
  BY DEF Runs, RunState
<1>3. \A b \in BOOLEAN : [run EXCEPT ![r] = [NoRun EXCEPT !.phase = "begin", !.silent = b]] \in Runs
  <2>1. ASSUME NEW b \in BOOLEAN
        PROVE  [NoRun EXCEPT !.phase = "begin", !.silent = b] \in RunState
    BY <2>1 DEF NoRun, RunState, Phase
  <2> QED
    BY <2>1 DEF Runs
<1> QED
  BY <1>1, <1>2, <1>3

\* A run that ends is no longer active, so nothing is asked of it.
LEMMA EndKeeps ==
  ASSUME Inv, NEW r \in Run, active = r, NEW msgs, EndRun(r, msgs)
  PROVE  Inv'
<1> USE BoundsAssumption
<1>1. [run EXCEPT ![r].phase = "ended"] \in Runs
  BY Updates DEF Inv, TypeOK, Runs, Phase
<1>2. /\ run' \in Runs /\ signal' \subseteq Run /\ closed' \in BOOLEAN
  BY <1>1, WriteAborts DEF EndRun, Inv, TypeOK, Run
<1> QED
  BY <1>2 DEF EndRun, Same, Inv, TypeOK, ClosedRunsStop, Runs, Run

\* The same, however the run fails.
LEMMA FailKeeps ==
  ASSUME Inv, NEW r \in Run, active = r, NEW c \in Code, Fail(r, c)
  PROVE  Inv'
BY EndKeeps DEF Fail

\* A step of the active run that writes something and goes on.
LEMMA WriteKeeps ==
  ASSUME Inv, NEW r \in Run, active = r, NEW msgs, NEW runs \in Runs, Write(msgs, r, runs),
         UNCHANGED <<active, finished>>, Same
  PROVE  Inv'
<1> USE BoundsAssumption
<1>1. /\ run' \in Runs /\ signal' \subseteq Run /\ signal \subseteq signal' /\ closed' \in BOOLEAN
      /\ closed' /\ ~closed /\ r # 0 => r \in signal'
  BY WriteAborts DEF Inv, TypeOK, Run
<1> QED
  BY <1>1 DEF Same, Inv, TypeOK, ClosedRunsStop, Runs, Run

\* A step of the active run that writes nothing.
LEMMA StepKeeps ==
  ASSUME Inv, NEW r \in Run, NEW q \in Phase, Step(r, q)
  PROVE  Inv'
<1>1. [run EXCEPT ![r].phase = q] \in Runs
  BY Updates DEF Inv, TypeOK, Runs
<1> QED
  BY <1>1 DEF Step, Same, Inv, TypeOK, ClosedRunsStop, Runs

\* A message that is about no run.
LEMMA OtherKeeps ==
  ASSUME Inv, WriteOther
  PROVE  /\ run' \in Runs /\ signal' \subseteq Run /\ signal \subseteq signal'
         /\ closed' \in BOOLEAN /\ (closed' /\ ~closed /\ active # 0 => active \in signal')
<1>1. CASE UNCHANGED <<closed, signal, run, out>>
  BY <1>1 DEF Inv, TypeOK, Runs
<1>2. CASE ~closed /\ closed' = TRUE /\ Abort(active) /\ UNCHANGED <<run, out>>
  BY <1>2, AbortMarks DEF Inv, TypeOK, Runs
<1> QED
  BY <1>1, <1>2 DEF WriteOther

LEMMA InitInv == Init => Inv
<1> SUFFICES ASSUME Init PROVE Inv
  OBVIOUS
<1> USE BoundsAssumption
<1>1. NoRun \in RunState
  BY DEF NoRun, RunState, Phase
<1>2. run \in [Run -> RunState]
  BY <1>1 DEF Init
<1>3. active \in 0..MaxRuns /\ started \in 0..MaxRuns /\ queries \in 0..MaxQueries
  BY DEF Init
<1>4. closed \in BOOLEAN /\ ~closed /\ server = "open"
  BY Zenon DEF Init
<1>5. finished \subseteq Run /\ signal \subseteq Run
  BY DEF Init
<1> QED
  BY <1>2, <1>3, <1>4, <1>5 DEF Inv, TypeOK, ClosedRunsStop

LEMMA NextInv == Inv /\ [Next]_vars => Inv'
<1> SUFFICES ASSUME Inv, [Next]_vars PROVE Inv'
  OBVIOUS
<1> USE BoundsAssumption
<1>1. ASSUME NEW silent \in BOOLEAN, StartRun(silent) PROVE Inv'
  <2>1. started + 1 \in Run
    BY <1>1 DEF StartRun, Inv, TypeOK, Run
  <2>2. Accepted(silent) \in Runs
    BY <2>1, Updates DEF Accepted, Inv, TypeOK, Runs
  <2>3. /\ run' \in Runs /\ signal' \subseteq Run /\ closed' \in BOOLEAN
        /\ closed' => started + 1 \in signal'
    <3>1. CASE silent
      <4>1. run' = Accepted(silent) /\ UNCHANGED <<closed, signal, out>> /\ ~closed
        BY <1>1, <3>1, Zenon DEF StartRun, Line
      <4>2. ~closed' /\ closed' \in BOOLEAN /\ signal' = signal
        BY <4>1 DEF Inv, TypeOK
      <4> QED
        BY <2>2, <4>1, <4>2 DEF Inv, TypeOK
    <3>2. CASE ~silent
      <4>1. Write(<<Msg(started + 1, "answer", "started")>>, started + 1, Accepted(silent))
        BY <1>1, <3>2 DEF StartRun
      <4>2. started + 1 \in 0..MaxRuns /\ started + 1 # 0 /\ ~closed
        BY <1>1, <2>1 DEF StartRun, Line, Run
      <4> QED
        BY <2>2, <4>1, <4>2, WriteAborts DEF Inv, TypeOK
    <3> QED
      BY <3>1, <3>2
  <2> QED
    BY <1>1, <2>1, <2>3 DEF StartRun, Line, Inv, TypeOK, ClosedRunsStop, Runs, Run
<1>2. ASSUME CancelActive PROVE Inv'
  <2>1. run' \in Runs /\ signal' \subseteq Run /\ active \in signal'
    BY <1>2, AbortMarks DEF CancelActive, Inv, TypeOK, Runs
  <2> QED
    BY <1>2, <2>1 DEF CancelActive, Inv, TypeOK, ClosedRunsStop, Runs
<1>3. ASSUME Reply PROVE Inv'
  BY <1>3, OtherKeeps DEF Reply, Inv, TypeOK, ClosedRunsStop, Runs
<1>4. ASSUME Query PROVE Inv'
  BY <1>4 DEF Query, Inv, TypeOK, ClosedRunsStop
<1>5. ASSUME AnswerQuery PROVE Inv'
  BY <1>5, OtherKeeps DEF AnswerQuery, Inv, TypeOK, ClosedRunsStop, Runs
<1>6. ASSUME NEW r \in Run, RunStep(r) PROVE Inv'
  <2>1. CASE Begin(r)
    BY <2>1, FailKeeps, StepKeeps DEF Begin, In, Code, Phase
  <2>2. CASE ValidateRequest(r)
    BY <2>2, FailKeeps, StepKeeps DEF ValidateRequest, In, Code, Phase
  <2>3. CASE ResolveSession(r)
    BY <2>3, FailKeeps, StepKeeps DEF ResolveSession, In, Code, Phase
  <2>4. CASE Assemble(r)
    <3>1. [run EXCEPT ![r].phase = "recover"] \in Runs
      BY Updates DEF Inv, TypeOK, Runs, Phase
    <3> QED
      BY <2>4, <3>1, FailKeeps, WriteKeeps DEF Assemble, In, Code
  <2>5. CASE Recover(r)
    <3>1. [run EXCEPT ![r].phase = "turn"] \in Runs
      BY Updates DEF Inv, TypeOK, Runs, Phase
    <3> QED
      BY <2>5, <3>1, FailKeeps, StepKeeps, WriteKeeps DEF Recover, In, Code, Phase
  <2>6. CASE TurnWarns(r)
    <3>1. [run EXCEPT ![r].error = "warning"] \in Runs
      BY Updates DEF Inv, TypeOK, Runs, Code
    <3> QED
      BY <2>6, <3>1, WriteKeeps DEF TurnWarns, In
  <2>7. CASE TurnEnds(r)
    BY <2>7, FailKeeps, EndKeeps DEF TurnEnds, In, Code
  <2> QED
    BY <1>6, <2>1, <2>2, <2>3, <2>4, <2>5, <2>6, <2>7 DEF RunStep
<1>7. ASSUME InputCloses PROVE Inv'
  <2>1. run' \in Runs /\ signal' \subseteq Run /\ (active # 0 => active \in signal')
    BY <1>7, AbortMarks DEF InputCloses, Inv, TypeOK, Runs
  <2> QED
    BY <1>7, <2>1 DEF InputCloses, Inv, TypeOK, ClosedRunsStop, Runs
<1>8. ASSUME OutputFails PROVE Inv'
  <2>1. CASE closed
    BY <1>8, <2>1 DEF OutputFails, Inv, TypeOK, ClosedRunsStop
  <2>2. CASE ~closed
    <3>1. run' \in Runs /\ signal' \subseteq Run /\ (active # 0 => active \in signal')
      BY <1>8, <2>2, AbortMarks DEF OutputFails, Inv, TypeOK, Runs
    <3> QED
      BY <1>8, <3>1 DEF OutputFails, Inv, TypeOK, ClosedRunsStop, Runs
  <2> QED
    BY <2>1, <2>2
<1>9. ASSUME Drain PROVE Inv'
  BY <1>9 DEF Drain, Inv, TypeOK, ClosedRunsStop
<1>10. CASE UNCHANGED vars
  BY <1>10 DEF vars, Inv, TypeOK, ClosedRunsStop
<1> QED
  BY <1>1, <1>2, <1>3, <1>4, <1>5, <1>6, <1>7, <1>8, <1>9, <1>10 DEF Next

\* The state stays well-typed, for any number of runs and queries.
THEOREM RpcTypeCorrect == Spec => []TypeOK
<1>1. Inv => TypeOK
  BY DEF Inv
<1> QED
  BY <1>1, InitInv, NextInv, PTL DEF Spec

\* When the input or the output has ended, the active run has been aborted:
\* also the run whose start could not be answered, and the one that started in
\* the line before (closeTransport, finish).
THEOREM NoRunUnheard == Spec => []ClosedRunsStop
<1>1. Inv => ClosedRunsStop
  BY DEF Inv
<1> QED
  BY <1>1, InitInv, NextInv, PTL DEF Spec

-----------------------------------------------------------------------------
(* The stream of messages.                                                 *)

Message == [run : Run, type : {"answer", "run-start", "error", "final", "run-end"},
            what : Code \cup {"none", "started", "completed"}]

\* Which runs messages may be about: accepted ones, an end only of a run that has
\* finished, and the active run has not.
RunsAgree ==
  /\ \A k \in DOMAIN out : out[k].run <= started
  /\ \A k \in DOMAIN out : out[k].type = "run-end" => out[k].run \in finished
  /\ active # 0 => active <= started /\ active \notin finished
  /\ \A r \in finished : r <= started

\* The end of a run comes after everything else of it.
EndIsLast ==
  \A k, n \in DOMAIN out :
    out[k].run = out[n].run /\ out[k].type = "run-end" /\ out[n].type # "answer" => n <= k

\* While the transport works, what should have been written was written: the
\* answer to each start, the end of each finished run, the error a run holds.
Answered == \A r \in Run : r <= started /\ ~run[r].silent /\ ~closed =>
              \E k \in DOMAIN out : out[k] = Msg(r, "answer", "started")
EndSeen == \A r \in finished : ~closed =>
              \E k \in DOMAIN out : out[k].run = r /\ out[k].type = "run-end"
Reported == \A r \in Run : run[r].error # "none" /\ ~closed =>
              \E k \in DOMAIN out : out[k] = Msg(r, "error", run[r].error)

StreamInv ==
  /\ out \in Seq(Message) /\ RunsAgree /\ EndIsLast
  /\ Answered /\ EndSeen /\ Reported /\ AnswerFirst /\ FailureIsReported

\* What a sequence holds after something is appended to it.
LEMMA Appended ==
  ASSUME NEW S, NEW s \in Seq(S), NEW p \in Seq(S)
  PROVE  /\ s \o p \in Seq(S) /\ Len(s \o p) = Len(s) + Len(p)
         /\ DOMAIN (s \o p) = 1..(Len(s) + Len(p)) /\ DOMAIN s = 1..Len(s)
         /\ \A i \in 1..Len(s) : (s \o p)[i] = s[i]
         /\ \A i \in 1..Len(p) : (s \o p)[Len(s) + i] = p[i]
         /\ \A i \in 1..(Len(s) + Len(p)) :
              i \in 1..Len(s) \/ \E j \in 1..Len(p) : i = Len(s) + j
<1>1. \A i \in 1..(Len(s) + Len(p)) : i \in 1..Len(s) \/ \E j \in 1..Len(p) : i = Len(s) + j
  <2> SUFFICES ASSUME NEW i \in 1..(Len(s) + Len(p)), i > Len(s)
               PROVE  \E j \in 1..Len(p) : i = Len(s) + j
    OBVIOUS
  <2> WITNESS i - Len(s) \in 1..Len(p)
  <2> QED
    OBVIOUS
<1>2. s \o p \in Seq(S) /\ Len(s \o p) = Len(s) + Len(p)
  OBVIOUS
<1>3. DOMAIN (s \o p) = 1..(Len(s) + Len(p)) /\ DOMAIN s = 1..Len(s)
  BY <1>2
<1>4. \A i \in 1..Len(s) : (s \o p)[i] = s[i]
  OBVIOUS
<1>5. \A i \in 1..Len(p) : (s \o p)[Len(s) + i] = p[i]
  OBVIOUS
<1> QED
  BY <1>1, <1>2, <1>3, <1>4, <1>5

\* A write appends the messages, or those before the one that failed; once the
\* transport is closed it appends nothing.
LEMMA WriteAppends ==
  ASSUME NEW msgs \in Seq(Message), NEW a, NEW runs, out \in Seq(Message),
         closed \in BOOLEAN, Write(msgs, a, runs)
  PROVE  \E p \in Seq(Message) :
           /\ out' = out \o p /\ Len(p) <= Len(msgs)
           /\ \A i \in 1..Len(p) : p[i] = msgs[i]
           /\ closed => closed' /\ p = <<>>
           /\ ~closed' => p = msgs
<1>1. CASE closed /\ UNCHANGED <<closed, out, signal>>
  <2>1. out' = out \o <<>> /\ <<>> \in Seq(Message) /\ Len(<<>>) <= Len(msgs)
    BY <1>1
  <2>2. closed' /\ closed /\ \A i \in 1..Len(<<>>) : <<>>[i] = msgs[i]
    BY <1>1
  <2> WITNESS <<>> \in Seq(Message)
  <2> QED
    BY <2>1, <2>2
<1>2. CASE ~closed /\ out' = out \o msgs /\ UNCHANGED <<closed, signal>>
  BY <1>2
<1>3. CASE /\ ~closed /\ closed' = TRUE
           /\ \E k \in 0..(Len(msgs) - 1) : out' = out \o SubSeq(msgs, 1, k)
  <2>1. PICK k \in 0..(Len(msgs) - 1) : out' = out \o SubSeq(msgs, 1, k)
    BY <1>3
  <2>2. /\ SubSeq(msgs, 1, k) \in Seq(Message) /\ Len(SubSeq(msgs, 1, k)) = k
        /\ \A i \in 1..k : SubSeq(msgs, 1, k)[i] = msgs[i]
    BY <2>1
  <2>3. k <= Len(msgs) /\ closed' /\ ~closed
    BY <1>3, <2>1
  <2> WITNESS SubSeq(msgs, 1, k) \in Seq(Message)
  <2> QED
    BY <2>1, <2>2, <2>3
<1> QED
  BY <1>1, <1>2, <1>3 DEF Write

\* A step that writes nothing of a run, starts none and ends none.
LEMMA QuietKeepsStream ==
  ASSUME TypeOK, StreamInv, out' = out, finished' = finished, started' = started,
         active' \in {active, 0}, closed => closed',
         \A r \in Run : run'[r].silent = run[r].silent /\ run'[r].error = run[r].error
  PROVE  StreamInv'
<1>1. out' \in Seq(Message) /\ RunsAgree' /\ EndIsLast'
  BY DEF StreamInv, RunsAgree, EndIsLast
<1>2. Answered' /\ EndSeen' /\ Reported'
  BY DEF StreamInv, Answered, EndSeen, Reported, Msg
<1>3. AnswerFirst' /\ FailureIsReported'
  BY DEF StreamInv, AnswerFirst, FailureIsReported, Ends, Events
<1> QED
  BY <1>1, <1>2, <1>3 DEF StreamInv

\* What all the steps that write of the active run r have in common: what comes
\* after what was there is of r, and r has been answered.
LEMMA OldStays ==
  ASSUME StreamInv, NEW p \in Seq(Message), out' = out \o p
  PROVE  /\ out' \in Seq(Message) /\ DOMAIN out \subseteq DOMAIN out'
         /\ DOMAIN out \subseteq Nat /\ DOMAIN out' \subseteq Nat
         /\ \A k \in DOMAIN out : out'[k] = out[k]
         /\ \A k \in DOMAIN out' : k \in DOMAIN out \/
              \E i \in 1..Len(p) : k = Len(out) + i /\ out'[k] = p[i]
         /\ \A i \in 1..Len(p) : Len(out) + i \in DOMAIN out' /\ out'[Len(out) + i] = p[i]
         /\ \A k \in DOMAIN out : k <= Len(out)
         /\ Len(out) \in Nat /\ Len(p) \in Nat
<1>1. out \in Seq(Message)
  BY DEF StreamInv
<1>2. /\ out' \in Seq(Message) /\ DOMAIN out' = 1..(Len(out) + Len(p)) /\ DOMAIN out = 1..Len(out)
      /\ \A i \in 1..Len(out) : out'[i] = out[i]
      /\ \A i \in 1..Len(p) : out'[Len(out) + i] = p[i]
      /\ \A i \in 1..(Len(out) + Len(p)) :
           i \in 1..Len(out) \/ \E j \in 1..Len(p) : i = Len(out) + j
  BY <1>1, Appended
<1>3. Len(out) \in Nat /\ Len(p) \in Nat
  BY <1>1
<1>4. \A i \in 1..Len(p) : Len(out) + i \in DOMAIN out' /\ out'[Len(out) + i] = p[i]
  BY <1>2, <1>3
<1>5. \A k \in DOMAIN out' : k \in DOMAIN out \/
        \E i \in 1..Len(p) : k = Len(out) + i /\ out'[k] = p[i]
  <2> SUFFICES ASSUME NEW k \in DOMAIN out', k \notin DOMAIN out
               PROVE  \E i \in 1..Len(p) : k = Len(out) + i /\ out'[k] = p[i]
    OBVIOUS
  <2>1. PICK i \in 1..Len(p) : k = Len(out) + i
    BY <1>2
  <2> QED
    BY <1>2, <2>1
<1>6. DOMAIN out \subseteq Nat /\ \A k \in DOMAIN out : k <= Len(out)
  BY <1>2, <1>3
<1>7. DOMAIN out \subseteq DOMAIN out' /\ DOMAIN out' \subseteq Nat
  BY <1>2, <1>3
<1>8. out' \in Seq(Message) /\ \A k \in DOMAIN out : out'[k] = out[k]
  BY <1>2
<1> QED
  BY <1>3, <1>4, <1>5, <1>6, <1>7, <1>8

\* A step of the active run that writes what is neither its answer nor its end.
LEMMA EventsKeepStream ==
  ASSUME TypeOK, StreamInv, NEW r \in Run, active = r, NEW p \in Seq(Message), out' = out \o p,
         \A i \in 1..Len(p) : p[i].run = r /\ p[i].type \notin {"answer", "run-end"},
         closed => closed' /\ p = <<>>,
         finished' = finished, started' = started, active' = active,
         \A q \in Run : run'[q].silent = run[q].silent,
         \A q \in Run :
           \/ run'[q].error = run[q].error
           \/ q = r /\ (closed' \/ \E i \in 1..Len(p) : p[i] = Msg(r, "error", run'[r].error))
  PROVE  StreamInv'
<1> DEFINE L == Len(out)
<1>1. /\ out' \in Seq(Message) /\ DOMAIN out \subseteq DOMAIN out'
      /\ DOMAIN out \subseteq Nat /\ DOMAIN out' \subseteq Nat
      /\ \A k \in DOMAIN out : out'[k] = out[k]
      /\ \A k \in DOMAIN out' : k \in DOMAIN out \/
           \E i \in 1..Len(p) : k = L + i /\ out'[k] = p[i]
      /\ \A i \in 1..Len(p) : L + i \in DOMAIN out' /\ out'[L + i] = p[i]
      /\ \A k \in DOMAIN out : k <= L
      /\ L \in Nat /\ Len(p) \in Nat
  BY OldStays
<1> HIDE DEF L
<1>2. r <= started /\ r \notin finished /\ r # 0
  BY BoundsAssumption DEF StreamInv, RunsAgree, Run
<1>3. \A k \in DOMAIN out' : k \notin DOMAIN out =>
        k > L /\ out'[k].run = r /\ out'[k].type \notin {"answer", "run-end"}
  <2> SUFFICES ASSUME NEW k \in DOMAIN out', k \notin DOMAIN out
               PROVE  k > L /\ out'[k].run = r /\ out'[k].type \notin {"answer", "run-end"}
    OBVIOUS
  <2>1. PICK i \in 1..Len(p) : k = L + i /\ out'[k] = p[i]
    BY <1>1
  <2> QED
    BY <1>1, <2>1, SMTT(30)
<1>4. \A k \in DOMAIN out : out[k].run = r => out[k].type # "run-end"
  BY <1>2 DEF StreamInv, RunsAgree
<1>5. RunsAgree'
  BY <1>1, <1>2, <1>3 DEF StreamInv, RunsAgree
<1>6. EndIsLast'
  BY <1>1, <1>3, <1>4, SMTT(30) DEF StreamInv, EndIsLast
<1>7. Answered' /\ EndSeen'
  <2>1. ASSUME NEW q \in Run, q <= started, ~run[q].silent, ~closed'
        PROVE  \E k \in DOMAIN out' : out'[k] = Msg(q, "answer", "started")
    <3>1. PICK k \in DOMAIN out : out[k] = Msg(q, "answer", "started")
      BY <2>1 DEF StreamInv, Answered
    <3> QED
      BY <1>1, <3>1
  <2>2. ASSUME NEW q \in finished, ~closed'
        PROVE  \E k \in DOMAIN out' : out'[k].run = q /\ out'[k].type = "run-end"
    <3>1. PICK k \in DOMAIN out : out[k].run = q /\ out[k].type = "run-end"
      BY <2>2 DEF StreamInv, EndSeen
    <3> QED
      BY <1>1, <3>1
  <2> QED
    BY <2>1, <2>2 DEF Answered, EndSeen, Msg
<1>8. Reported'
  <2> SUFFICES ASSUME NEW q \in Run, run'[q].error # "none", ~closed'
               PROVE  \E k \in DOMAIN out' : out'[k] = Msg(q, "error", run'[q].error)
    BY DEF Reported, Msg
  <2>1. CASE run'[q].error = run[q].error
    BY <1>1, <2>1 DEF StreamInv, Reported
  <2>2. CASE q = r /\ \E i \in 1..Len(p) : p[i] = Msg(r, "error", run'[r].error)
    BY <1>1, <2>2, ZenonT(40)
  <2> QED
    BY <2>1, <2>2
<1>9. AnswerFirst'
  <2> SUFFICES ASSUME NEW q \in Run, ~run'[q].silent, NEW n \in DOMAIN out',
                      out'[n].run = q, out'[n].type # "answer"
               PROVE  \E k \in DOMAIN out' : k < n /\ out'[k] = Msg(q, "answer", "started")
    BY DEF AnswerFirst, Events, Msg
  <2>1. CASE n \in DOMAIN out
    <3>0. ~run[q].silent /\ n \in Events(q)
      BY <1>1, <2>1 DEF Events
    <3>1. PICK k \in DOMAIN out : k < n /\ out[k] = Msg(q, "answer", "started")
      BY <3>0 DEF StreamInv, AnswerFirst
    <3> QED
      BY <1>1, <3>1
  <2>2. CASE n \notin DOMAIN out
    <3>1. q = r /\ n > L /\ ~closed
      BY <1>1, <1>3, <2>2
    <3>2. PICK k \in DOMAIN out : out[k] = Msg(r, "answer", "started")
      BY <1>2, <3>1 DEF StreamInv, Answered
    <3> QED
      BY <1>1, <3>1, <3>2
  <2> QED
    BY <2>1, <2>2
<1>10. FailureIsReported'
  <2> SUFFICES ASSUME NEW q \in Run, NEW k \in DOMAIN out', out'[k].run = q,
                      out'[k].type = "run-end", out'[k].what # "completed"
               PROVE  \E n \in DOMAIN out' : /\ n < k /\ out'[n].run = q
                                             /\ out'[n].type = "error" /\ out'[n].what = out'[k].what
    BY DEF FailureIsReported, Ends, Events
  <2>1. k \in DOMAIN out
    BY <1>3
  <2>2. PICK n \in DOMAIN out : /\ n < k /\ out[n].run = q
                                /\ out[n].type = "error" /\ out[n].what = out[k].what
    BY <1>1, <2>1 DEF StreamInv, FailureIsReported, Ends, Events
  <2> QED
    BY <1>1, <2>1, <2>2
<1> QED
  BY <1>1, <1>5, <1>6, <1>7, <1>8, <1>9, <1>10 DEF StreamInv

\* What run r may write last.  Its end tells of success, repeats an error that
\* is among msgs, or repeats the error that the run holds.
EndsWell(r, msgs) ==
  /\ Len(msgs) > 0
  /\ \A i \in 1..Len(msgs) : msgs[i].run = r /\ msgs[i].type # "answer"
  /\ \A i \in 1..Len(msgs) : msgs[i].type = "run-end" <=> i = Len(msgs)
  /\ \/ msgs[Len(msgs)].what = "completed"
     \/ \E i \in 1..(Len(msgs) - 1) : msgs[i] = Msg(r, "error", msgs[Len(msgs)].what)
     \/ run[r].error # "none" /\ msgs[Len(msgs)].what = run[r].error

\* The last messages of the active run.
LEMMA EndKeepsStream ==
  ASSUME TypeOK, StreamInv, NEW r \in Run, active = r, NEW msgs \in Seq(Message), EndRun(r, msgs),
         EndsWell(r, msgs)
  PROVE  StreamInv'
<1> /\ Len(msgs) > 0
    /\ \A i \in 1..Len(msgs) : msgs[i].run = r /\ msgs[i].type # "answer"
    /\ \A i \in 1..Len(msgs) : msgs[i].type = "run-end" <=> i = Len(msgs)
    /\ \/ msgs[Len(msgs)].what = "completed"
       \/ \E i \in 1..(Len(msgs) - 1) : msgs[i] = Msg(r, "error", msgs[Len(msgs)].what)
       \/ run[r].error # "none" /\ msgs[Len(msgs)].what = run[r].error
  BY DEF EndsWell
<1> DEFINE L == Len(out)
           M == Len(msgs)
<1>1. PICK p \in Seq(Message) :
           /\ out' = out \o p /\ Len(p) <= M
           /\ \A i \in 1..Len(p) : p[i] = msgs[i]
           /\ closed => closed' /\ p = <<>>
           /\ ~closed' => p = msgs
  BY WriteAppends DEF EndRun, TypeOK, StreamInv
<1>2. /\ out' \in Seq(Message) /\ DOMAIN out \subseteq DOMAIN out'
      /\ DOMAIN out \subseteq Nat /\ DOMAIN out' \subseteq Nat
      /\ \A k \in DOMAIN out : out'[k] = out[k]
      /\ \A k \in DOMAIN out' : k \in DOMAIN out \/
           \E i \in 1..Len(p) : k = L + i /\ out'[k] = p[i]
      /\ \A i \in 1..Len(p) : L + i \in DOMAIN out' /\ out'[L + i] = p[i]
      /\ \A k \in DOMAIN out : k <= L
      /\ L \in Nat /\ Len(p) \in Nat
  BY <1>1, OldStays
<1>3. M \in Nat /\ M > 0
  OBVIOUS
<1>4. /\ finished' = finished \cup {r} /\ active' = 0 /\ started' = started
      /\ \A q \in Run : run'[q].silent = run[q].silent /\ run'[q].error = run[q].error
  BY DEF EndRun, Write, Same, TypeOK, RunState
<1> HIDE DEF L, M
<1>5. r <= started /\ r \notin finished
  BY BoundsAssumption DEF StreamInv, RunsAgree, Run
<1>6. \A k \in DOMAIN out' : k \in DOMAIN out \/
        \E i \in 1..Len(p) : /\ k = L + i /\ out'[k].run = r /\ out'[k].type # "answer"
                             /\ out'[k].type = "run-end" <=> i = M
  <2> SUFFICES ASSUME NEW k \in DOMAIN out', k \notin DOMAIN out
               PROVE  \E i \in 1..Len(p) : /\ k = L + i /\ out'[k].run = r /\ out'[k].type # "answer"
                                           /\ out'[k].type = "run-end" <=> i = M
    OBVIOUS
  <2>1. PICK i \in 1..Len(p) : k = L + i /\ out'[k] = p[i]
    BY <1>2
  <2>2. i \in 1..Len(msgs) /\ out'[k] = msgs[i]
    BY <1>1, <1>2, <1>3, <2>1 DEF M
  <2>3. out'[k].run = r /\ out'[k].type # "answer" /\ (out'[k].type = "run-end" <=> i = M)
    BY <2>2 DEF M
  <2> QED
    BY <2>1, <2>3
<1>7. \A k \in DOMAIN out : out[k].run = r => out[k].type # "run-end"
  BY <1>5 DEF StreamInv, RunsAgree
<1>8. RunsAgree'
  BY <1>2, <1>4, <1>5, <1>6 DEF StreamInv, RunsAgree
<1>9. EndIsLast'
  <2> SUFFICES ASSUME NEW k \in DOMAIN out', NEW n \in DOMAIN out', out'[k].run = out'[n].run,
                      out'[k].type = "run-end", out'[n].type # "answer"
               PROVE  n <= k
    BY DEF EndIsLast
  <2>1. CASE k \in DOMAIN out /\ n \in DOMAIN out
    BY <1>2, <2>1 DEF StreamInv, EndIsLast
  <2>2. CASE k \in DOMAIN out /\ n \notin DOMAIN out
    BY <1>2, <1>6, <1>7, <2>2
  <2>3. CASE k \notin DOMAIN out
    <3>1. k = L + M
      BY <1>6, <2>3
    <3>2. n <= L + M
      BY <1>1, <1>2, <1>3, <1>6
    <3> QED
      BY <3>1, <3>2
  <2> QED
    BY <2>1, <2>2, <2>3
<1>10. Answered' /\ Reported'
  <2>1. ASSUME NEW q \in Run, q <= started, ~run[q].silent, ~closed'
        PROVE  \E k \in DOMAIN out' : out'[k] = Msg(q, "answer", "started")
    <3>1. PICK k \in DOMAIN out : out[k] = Msg(q, "answer", "started")
      BY <1>1, <2>1 DEF StreamInv, Answered
    <3> QED
      BY <1>2, <3>1
  <2>2. ASSUME NEW q \in Run, run[q].error # "none", ~closed'
        PROVE  \E k \in DOMAIN out' : out'[k] = Msg(q, "error", run[q].error)
    <3>1. PICK k \in DOMAIN out : out[k] = Msg(q, "error", run[q].error)
      BY <1>1, <2>2 DEF StreamInv, Reported
    <3> QED
      BY <1>2, <3>1
  <2> QED
    BY <1>4, <2>1, <2>2 DEF Answered, Reported, Msg
<1>11. EndSeen'
  <2> SUFFICES ASSUME NEW q \in finished', ~closed'
               PROVE  \E k \in DOMAIN out' : out'[k].run = q /\ out'[k].type = "run-end"
    BY DEF EndSeen
  <2>1. CASE q = r
    <3>1. Len(p) = M /\ p = msgs
      BY <1>1 DEF M
    <3>2. L + M \in DOMAIN out' /\ out'[L + M] = msgs[M] /\ M \in 1..Len(msgs)
      BY <1>2, <1>3, <3>1 DEF M
    <3> QED
      BY <2>1, <3>2 DEF M
  <2>2. CASE q # r
    BY <1>1, <1>2, <1>4, <2>2 DEF StreamInv, EndSeen
  <2> QED
    BY <2>1, <2>2
<1>12. AnswerFirst'
  <2> SUFFICES ASSUME NEW q \in Run, ~run'[q].silent, NEW n \in DOMAIN out',
                      out'[n].run = q, out'[n].type # "answer"
               PROVE  \E k \in DOMAIN out' : k < n /\ out'[k] = Msg(q, "answer", "started")
    BY DEF AnswerFirst, Events, Msg
  <2>1. CASE n \in DOMAIN out
    <3>1. PICK k \in DOMAIN out : k < n /\ out[k] = Msg(q, "answer", "started")
      BY <1>2, <1>4, <2>1, SMTT(30) DEF StreamInv, AnswerFirst, Events
    <3> QED
      BY <1>2, <3>1
  <2>2. CASE n \notin DOMAIN out
    <3>1. q = r /\ n > L /\ ~closed
      BY <1>1, <1>2, <1>6, <2>2, SMTT(30)
    <3>2. PICK k \in DOMAIN out : out[k] = Msg(r, "answer", "started")
      BY <1>4, <1>5, <3>1 DEF StreamInv, Answered
    <3> QED
      BY <1>2, <3>1, <3>2
  <2> QED
    BY <2>1, <2>2
<1>13. FailureIsReported'
  <2> SUFFICES ASSUME NEW q \in Run, NEW k \in DOMAIN out', out'[k].run = q,
                      out'[k].type = "run-end", out'[k].what # "completed"
               PROVE  \E n \in DOMAIN out' : /\ n < k /\ out'[n].run = q
                                             /\ out'[n].type = "error" /\ out'[n].what = out'[k].what
    BY DEF FailureIsReported, Ends, Events
  <2>1. CASE k \in DOMAIN out
    <3>1. PICK n \in DOMAIN out : /\ n < k /\ out[n].run = q
                                  /\ out[n].type = "error" /\ out[n].what = out[k].what
      BY <1>2, <2>1 DEF StreamInv, FailureIsReported, Ends, Events
    <3> QED
      BY <1>2, <2>1, <3>1
  <2>2. CASE k \notin DOMAIN out
    <3>0. PICK j \in 1..Len(p) : k = L + j /\ out'[k] = p[j]
      BY <1>2, <2>2
    <3>1. q = r /\ k = L + M /\ Len(p) = M /\ ~closed /\ out'[k] = msgs[M]
      <4>1. j = M /\ q = r
        BY <1>2, <1>6, <2>2, <3>0
      <4>2. Len(p) = M /\ out'[k] = msgs[M]
        BY <1>1, <1>2, <1>3, <3>0, <4>1
      <4>3. ~closed
        BY <1>1, <1>3, <4>2
      <4> QED
        BY <3>0, <4>1, <4>2, <4>3
    <3>2. CASE \E i \in 1..(Len(msgs) - 1) : msgs[i] = Msg(r, "error", msgs[M].what)
      <4>1. PICK i \in 1..(Len(msgs) - 1) : msgs[i] = Msg(r, "error", msgs[M].what)
        BY <3>2
      <4>2. i \in 1..Len(p) /\ i < M
        BY <1>3, <3>1, <4>1 DEF M
      <4>3. L + i \in DOMAIN out' /\ out'[L + i] = msgs[i]
        BY <1>1, <1>2, <4>2
      <4>4. L + i < k
        BY <1>2, <1>3, <3>1, <4>2
      <4> QED
        BY <3>1, <4>1, <4>3, <4>4 DEF Msg
    <3>3. CASE run[r].error # "none" /\ msgs[M].what = run[r].error
      <4>1. PICK n \in DOMAIN out : out[n] = Msg(r, "error", run[r].error)
        BY <3>1, <3>3 DEF StreamInv, Reported
      <4>2. n < k /\ n \in DOMAIN out' /\ out'[n] = Msg(r, "error", run[r].error)
        BY <1>2, <1>3, <3>1, <4>1
      <4> QED
        BY <3>1, <3>3, <4>2 DEF Msg
    <3> QED
      BY <3>1, <3>2, <3>3 DEF M
  <2> QED
    BY <2>1, <2>2
<1> QED
  BY <1>2, <1>8, <1>9, <1>10, <1>11, <1>12, <1>13 DEF StreamInv

\* A run is accepted: nothing has been written of it but its answer.
LEMMA StartKeepsStream ==
  ASSUME TypeOK, StreamInv, NEW silent \in BOOLEAN, StartRun(silent)
  PROVE  StreamInv'
<1> USE BoundsAssumption
<1> DEFINE r == started + 1
           a == Msg(r, "answer", "started")
<1>1. r \in Run /\ started \in Nat /\ started' = r /\ active' = r /\ finished' = finished /\ ~closed
  BY DEF StartRun, Line, TypeOK, Run
<1>2. run' = Accepted(silent)
  BY DEF StartRun, Write
<1>3. /\ run'[r].error = "none" /\ run'[r].silent = silent
      /\ \A q \in Run : q # r => run'[q] = run[q]
  BY <1>1, <1>2 DEF Accepted, NoRun, TypeOK
<1>4. a \in Message /\ <<a>> \in Seq(Message) /\ Len(<<a>>) = 1 /\ <<a>>[1] = a
  BY <1>1 DEF Msg, Message
<1>5. \E p \in Seq(Message) : /\ out' = out \o p /\ \A i \in 1..Len(p) : p[i] = a
                              /\ (~silent /\ ~closed' => Len(p) = 1)
  <2>1. CASE silent
    <3>1. out' = out \o <<>> /\ <<>> \in Seq(Message) /\ Len(<<>>) = 0
      BY <2>1 DEF StartRun, Write, StreamInv
    <3> WITNESS <<>> \in Seq(Message)
    <3> QED
      BY <2>1, <3>1
  <2>2. CASE ~silent
    <3>1. Write(<<a>>, r, Accepted(silent))
      BY <2>2 DEF StartRun
    <3>2. PICK p \in Seq(Message) :
           /\ out' = out \o p /\ Len(p) <= Len(<<a>>)
           /\ \A i \in 1..Len(p) : p[i] = <<a>>[i]
           /\ closed => closed' /\ p = <<>>
           /\ ~closed' => p = <<a>>
      <4>1. out \in Seq(Message) /\ closed \in BOOLEAN
        BY DEF StreamInv, TypeOK
      <4> HIDE DEF a, r
      <4> QED
        BY <1>4, <3>1, <4>1, WriteAppends
    <3>3. \A i \in 1..Len(p) : i = 1
      BY <1>4, <3>2
    <3> HIDE DEF a, r
    <3>4. \A i \in 1..Len(p) : p[i] = a
      BY <1>4, <3>2, <3>3
    <3>5. ~silent /\ ~closed' => Len(p) = 1
      BY <1>4, <3>2
    <3> QED
      BY <3>2, <3>4, <3>5
  <2> QED
    BY <2>1, <2>2
<1>6. PICK p \in Seq(Message) : /\ out' = out \o p /\ \A i \in 1..Len(p) : p[i] = a
                                /\ (~silent /\ ~closed' => Len(p) = 1)
  BY <1>5
<1>7. /\ out' \in Seq(Message) /\ DOMAIN out \subseteq DOMAIN out'
      /\ DOMAIN out \subseteq Nat /\ DOMAIN out' \subseteq Nat
      /\ \A k \in DOMAIN out : out'[k] = out[k]
      /\ \A k \in DOMAIN out' : k \in DOMAIN out \/
           \E i \in 1..Len(p) : k = Len(out) + i /\ out'[k] = p[i]
      /\ \A i \in 1..Len(p) : Len(out) + i \in DOMAIN out' /\ out'[Len(out) + i] = p[i]
  BY <1>6, OldStays
<1>8. \A k \in DOMAIN out' : k \notin DOMAIN out => out'[k] = a
  BY <1>6, <1>7
<1>9. a.run = r /\ a.type = "answer"
  BY DEF Msg
<1>10. \A k \in DOMAIN out : out[k].run <= started /\ out[k].run \in Run /\ out[k].run # r
  <2>1. \A k \in DOMAIN out : out[k] \in Message
    BY DEF StreamInv
  <2> QED
    BY <1>1, <2>1 DEF StreamInv, RunsAgree, Message, Run
<1> HIDE DEF a
<1>11. RunsAgree'
  <2>1. \A k \in DOMAIN out' : out'[k].run <= r
    <3> TAKE k \in DOMAIN out'
    <3>1. CASE k \in DOMAIN out
      <4>1. out'[k].run <= started /\ out'[k].run \in Nat
        BY <1>7, <1>10, <3>1 DEF Run
      <4> QED
        BY <1>1, <4>1
    <3>2. CASE k \notin DOMAIN out
      BY <1>1, <1>8, <1>9, <3>2
    <3> QED
      BY <3>1, <3>2
  <2>2. \A k \in DOMAIN out' : out'[k].type = "run-end" => out'[k].run \in finished
    BY <1>7, <1>8, <1>9 DEF StreamInv, RunsAgree
  <2>3. \A q \in finished : q <= started /\ q \in Run
    BY DEF StreamInv, RunsAgree, TypeOK
  <2> QED
    BY <1>1, <2>1, <2>2, <2>3 DEF RunsAgree, Run
<1>12. EndIsLast'
  BY <1>7, <1>8, <1>9 DEF StreamInv, EndIsLast
<1>13. Answered'
  <2> SUFFICES ASSUME NEW q \in Run, q <= r, ~run'[q].silent, ~closed'
               PROVE  \E k \in DOMAIN out' : out'[k] = Msg(q, "answer", "started")
    BY <1>1 DEF Answered, Msg
  <2>1. CASE q = r
    BY <1>3, <1>6, <1>7, <2>1 DEF a
  <2>2. CASE q # r
    <3>1. q <= started /\ ~run[q].silent
      BY <1>1, <1>3, <2>2 DEF Run
    <3> QED
      BY <1>1, <1>7, <3>1 DEF StreamInv, Answered
  <2> QED
    BY <2>1, <2>2
<1>14. EndSeen'
  BY <1>1, <1>7 DEF StreamInv, EndSeen
<1>15. Reported'
  <2> SUFFICES ASSUME NEW q \in Run, run'[q].error # "none", ~closed'
               PROVE  \E k \in DOMAIN out' : out'[k] = Msg(q, "error", run'[q].error)
    BY DEF Reported, Msg
  <2>1. q # r /\ run'[q] = run[q]
    BY <1>3
  <2> QED
    BY <1>1, <1>7, <2>1 DEF StreamInv, Reported
<1>16. AnswerFirst'
  <2> SUFFICES ASSUME NEW q \in Run, ~run'[q].silent, NEW n \in DOMAIN out',
                      out'[n].run = q, out'[n].type # "answer"
               PROVE  \E k \in DOMAIN out' : k < n /\ out'[k] = Msg(q, "answer", "started")
    BY DEF AnswerFirst, Events, Msg
  <2>1. n \in DOMAIN out /\ q # r /\ run'[q] = run[q]
    BY <1>3, <1>7, <1>8, <1>9, <1>10
  <2>2. PICK k \in DOMAIN out : k < n /\ out[k] = Msg(q, "answer", "started")
    BY <1>7, <2>1 DEF StreamInv, AnswerFirst, Events
  <2> QED
    BY <1>7, <2>2
<1>17. FailureIsReported'
  <2> SUFFICES ASSUME NEW q \in Run, NEW k \in DOMAIN out', out'[k].run = q,
                      out'[k].type = "run-end", out'[k].what # "completed"
               PROVE  \E n \in DOMAIN out' : /\ n < k /\ out'[n].run = q
                                             /\ out'[n].type = "error" /\ out'[n].what = out'[k].what
    BY DEF FailureIsReported, Ends, Events
  <2>1. k \in DOMAIN out
    BY <1>8, <1>9
  <2>2. PICK n \in DOMAIN out : /\ n < k /\ out[n].run = q
                                /\ out[n].type = "error" /\ out[n].what = out[k].what
    BY <1>7, <2>1 DEF StreamInv, FailureIsReported, Ends, Events
  <2> QED
    BY <1>7, <2>1, <2>2
<1> QED
  BY <1>7, <1>11, <1>12, <1>13, <1>14, <1>15, <1>16, <1>17 DEF StreamInv

\* The last messages, when the last but one is what the end repeats or the end
\* tells of success.
LEMMA PairKeepsStream ==
  ASSUME TypeOK, StreamInv, NEW r \in Run, active = r, NEW type \in {"error", "final"},
         NEW what \in Code \cup {"none"}, NEW end \in Code \cup {"completed"},
         end = "completed" \/ (type = "error" /\ end = what),
         EndRun(r, <<Msg(r, type, what), Msg(r, "run-end", end)>>)
  PROVE  StreamInv'
<1> DEFINE m == Msg(r, type, what)
           e == Msg(r, "run-end", end)
<1>1. m \in Message /\ e \in Message
  BY DEF Msg, Message
<1>2. /\ m.run = r /\ m.type = type /\ m.what = what
      /\ e.run = r /\ e.type = "run-end" /\ e.what = end
  BY DEF Msg
<1>3. end # "completed" => m = Msg(r, "error", e.what)
  BY <1>2
<1> DEFINE s == <<m, e>>
<1>4. EndRun(r, s)
  OBVIOUS
<1> HIDE DEF m, e
<1>5. /\ s \in Seq(Message) /\ Len(s) = 2
      /\ s[1] = m /\ s[2] = e
      /\ \A i \in 1..2 : i = 1 \/ i = 2
  BY <1>1
<1> HIDE DEF s
<1>6. \A i \in 1..Len(s) : s[i].run = r /\ s[i].type # "answer"
  BY <1>2, <1>5
<1>7. \A i \in 1..Len(s) : s[i].type = "run-end" <=> i = Len(s)
  BY <1>2, <1>5
<1>8. \/ s[Len(s)].what = "completed"
      \/ \E i \in 1..(Len(s) - 1) : s[i] = Msg(r, "error", s[Len(s)].what)
  <2>1. CASE end = "completed"
    BY <1>2, <1>5, <2>1
  <2>2. CASE end # "completed"
    BY <1>3, <1>5, <2>2
  <2> QED
    BY <2>1, <2>2
<1>9. EndsWell(r, s)
  BY <1>5, <1>6, <1>7, <1>8 DEF EndsWell
<1> QED
  BY <1>4, <1>5, <1>9, EndKeepsStream

\* The last messages, however the run fails.
LEMMA FailKeepsStream ==
  ASSUME TypeOK, StreamInv, NEW r \in Run, active = r, NEW c \in Code, Fail(r, c)
  PROVE  StreamInv'
<1>1. CASE run[r].error # "none"
  <2> DEFINE m == Msg(r, "run-end", run[r].error)
  <2>1. EndRun(r, <<m>>)
    BY <1>1 DEF Fail
  <2>2. m \in Message /\ m.run = r /\ m.type = "run-end" /\ m.what = run[r].error
    BY DEF Msg, Message, TypeOK, RunState
  <2> HIDE DEF m
  <2> DEFINE s == <<m>>
  <2>3. s \in Seq(Message) /\ Len(s) = 1 /\ s[1] = m
    BY <2>2
  <2>4. EndRun(r, s)
    BY <2>1
  <2> HIDE DEF s
  <2>5. /\ \A i \in 1..Len(s) : s[i].run = r /\ s[i].type # "answer"
        /\ \A i \in 1..Len(s) : s[i].type = "run-end" <=> i = Len(s)
        /\ s[Len(s)].what = run[r].error
    BY <2>2, <2>3
  <2>6. EndsWell(r, s)
    BY <1>1, <2>3, <2>5 DEF EndsWell
  <2> QED
    BY <2>3, <2>4, <2>6, EndKeepsStream
<1>2. CASE run[r].error = "none"
  <2>1. EndRun(r, <<Msg(r, "error", c), Msg(r, "run-end", c)>>)
    BY <1>2 DEF Fail
  <2> QED
    BY <2>1, PairKeepsStream
<1> QED
  BY <1>1, <1>2

\* Of what runs says, only the error of r may be new, and it is in the event.
Told(r, type, what, runs) ==
  /\ \A q \in Run : runs[q].silent = run[q].silent
  /\ \A q \in Run : runs[q].error # run[q].error =>
                       q = r /\ type = "error" /\ runs[r].error = what

\* A step of the active run that writes one event and goes on.
LEMMA OneEventKeepsStream ==
  ASSUME TypeOK, StreamInv, NEW r \in Run, active = r, NEW type \in {"run-start", "error"},
         NEW what \in Code \cup {"none"}, NEW runs, Write(<<Msg(r, type, what)>>, r, runs),
         UNCHANGED <<active, finished>>, Same,
         Told(r, type, what, runs)
  PROVE  StreamInv'
<1> /\ \A q \in Run : runs[q].silent = run[q].silent
    /\ \A q \in Run : runs[q].error # run[q].error =>
                         q = r /\ type = "error" /\ runs[r].error = what
  BY DEF Told
<1> DEFINE m == Msg(r, type, what)
           s == <<m>>
<1>1. m \in Message /\ m.run = r /\ m.type = type
  BY DEF Msg, Message
<1>2. Write(s, r, runs) /\ run' = runs
  BY DEF Write
<1>3. type = "error" => m = Msg(r, "error", what)
  OBVIOUS
<1> HIDE DEF m
<1>4. s \in Seq(Message) /\ Len(s) = 1 /\ s[1] = m
  BY <1>1
<1> HIDE DEF s
<1>5. out \in Seq(Message) /\ closed \in BOOLEAN
  BY DEF StreamInv, TypeOK
<1>6. PICK p \in Seq(Message) :
           /\ out' = out \o p /\ Len(p) <= Len(s)
           /\ \A i \in 1..Len(p) : p[i] = s[i]
           /\ closed => closed' /\ p = <<>>
           /\ ~closed' => p = s
  BY <1>2, <1>4, <1>5, WriteAppends
<1>7. \A i \in 1..Len(p) : p[i].run = r /\ p[i].type \notin {"answer", "run-end"}
  <2> SUFFICES ASSUME NEW i \in 1..Len(p) PROVE p[i] = m
    BY <1>1
  <2>1. i = 1
    BY <1>4, <1>6
  <2> QED
    BY <1>4, <1>6, <2>1
<1>8. \A q \in Run :
        \/ run'[q].error = run[q].error
        \/ q = r /\ (closed' \/ \E i \in 1..Len(p) : p[i] = Msg(r, "error", run'[r].error))
  <2> TAKE q \in Run
  <2>1. CASE run'[q].error = run[q].error
    BY <2>1, Zenon
  <2>2. CASE run'[q].error # run[q].error
    <3>1. q = r /\ m = Msg(r, "error", run'[r].error)
      BY <1>2, <1>3, <2>2
    <3>2. p = s => 1 \in 1..Len(p) /\ p[1] = m
      BY <1>4
    <3>3. ~closed' => \E i \in 1..Len(p) : p[i] = m
      BY <1>6, <3>2, Zenon
    <3> QED
      BY <3>1, <3>3, Zenon
  <2> QED
    BY <2>1, <2>2
<1>9. /\ finished' = finished /\ started' = started /\ active' = active
      /\ \A q \in Run : run'[q].silent = run[q].silent
  BY <1>2 DEF Same
<1> QED
  BY <1>6, <1>7, <1>8, <1>9, EventsKeepStream

\* A step of a run that writes nothing.
LEMMA StepKeepsStream ==
  ASSUME TypeOK, StreamInv, NEW r \in Run, NEW q \in Phase, Step(r, q)
  PROVE  StreamInv'
<1>1. \A x \in Run : run'[x].silent = run[x].silent /\ run'[x].error = run[x].error
  BY DEF Step, TypeOK, RunState
<1>2. out' = out /\ finished' = finished /\ started' = started /\ active' = active
  BY DEF Step, Same
<1>3. closed => closed'
  BY DEF Step
<1> QED
  BY <1>1, <1>2, <1>3, QuietKeepsStream

LEMMA StreamInit == Init => StreamInv
<1> SUFFICES ASSUME Init PROVE StreamInv
  OBVIOUS
<1>1. out = <<>> /\ DOMAIN out = {} /\ out \in Seq(Message)
  BY DEF Init
<1>2. active = 0 /\ finished = {} /\ started = 0 /\ \A r \in Run : run[r].error = "none" /\ r > 0
  BY BoundsAssumption DEF Init, NoRun, Run
<1>3. RunsAgree /\ EndIsLast /\ EndSeen /\ Reported
  BY <1>1, <1>2 DEF RunsAgree, EndIsLast, EndSeen, Reported
<1>4. Answered
  BY <1>2, BoundsAssumption DEF Answered, Run
<1>5. AnswerFirst /\ FailureIsReported
  BY <1>1 DEF AnswerFirst, FailureIsReported, Ends, Events
<1> QED
  BY <1>1, <1>3, <1>4, <1>5 DEF StreamInv

LEMMA StreamNext == TypeOK /\ StreamInv /\ [Next]_vars => StreamInv'
<1> SUFFICES ASSUME TypeOK, StreamInv, [Next]_vars PROVE StreamInv'
  OBVIOUS
<1>1. ASSUME NEW silent \in BOOLEAN, StartRun(silent) PROVE StreamInv'
  BY <1>1, StartKeepsStream
<1>2. ASSUME run' = run, out' = out, finished' = finished, started' = started, active' = active,
             closed => closed'
      PROVE  StreamInv'
  BY <1>2, QuietKeepsStream
<1>3. CASE CancelActive \/ Reply \/ Query \/ AnswerQuery \/ InputCloses \/ OutputFails \/ Drain
           \/ UNCHANGED vars
  <2>1. run' = run /\ out' = out /\ finished' = finished /\ started' = started /\ active' = active
    BY <1>3 DEF CancelActive, Reply, Query, AnswerQuery, InputCloses, OutputFails, Drain,
                WriteOther, vars
  <2>2. closed => closed'
    BY <1>3, Zenon DEF CancelActive, Reply, Query, AnswerQuery, InputCloses, OutputFails, Drain,
                       WriteOther, vars, Line
  <2> QED
    BY <1>2, <2>1, <2>2
<1>4. ASSUME NEW r \in Run, RunStep(r) PROVE StreamInv'
  <2> DEFINE To(q) == [run EXCEPT ![r].phase = q]
  <2>1. \A q \in Phase : \A x \in Run : /\ To(q)[x].silent = run[x].silent
                                        /\ To(q)[x].error = run[x].error
    BY DEF TypeOK, RunState
  <2>2. CASE Begin(r)
    BY <2>2, FailKeepsStream, StepKeepsStream DEF Begin, In, Code, Phase
  <2>3. CASE ValidateRequest(r)
    BY <2>3, FailKeepsStream, StepKeepsStream DEF ValidateRequest, In, Code, Phase
  <2>4. CASE ResolveSession(r)
    BY <2>4, FailKeepsStream, StepKeepsStream DEF ResolveSession, In, Code, Phase
  <2>5. CASE Assemble(r)
    <3>1. active = r /\ (Fail(r, "setup") \/
            (Write(<<Msg(r, "run-start", "none")>>, r, To("recover"))
              /\ UNCHANGED <<active, finished>> /\ Same))
      BY <2>5 DEF Assemble, In
    <3>2. Told(r, "run-start", "none", To("recover"))
      BY <2>1 DEF Phase, Told
    <3> HIDE DEF To
    <3> QED
      BY <3>1, <3>2, FailKeepsStream, OneEventKeepsStream DEF Code
  <2>6. CASE Recover(r)
    <3>1. active = r /\ (Fail(r, "setup") \/ Step(r, "turn") \/
            (Write(<<Msg(r, "error", "warning")>>, r, To("turn"))
              /\ UNCHANGED <<active, finished>> /\ Same))
      BY <2>6 DEF Recover, In
    <3>2. Told(r, "error", "warning", To("turn")) /\ "turn" \in Phase
      BY <2>1 DEF Phase, Told
    <3> HIDE DEF To
    <3> QED
      BY <3>1, <3>2, FailKeepsStream, StepKeepsStream, OneEventKeepsStream DEF Code
  <2>7. CASE TurnWarns(r)
    <3> DEFINE W == [run EXCEPT ![r].error = "warning"]
    <3>1. /\ active = r /\ Write(<<Msg(r, "error", "warning")>>, r, W)
          /\ UNCHANGED <<active, finished>> /\ Same
      BY <2>7 DEF TurnWarns, In
    <3>2. Told(r, "error", "warning", W)
      BY DEF TypeOK, RunState, Told
    <3> HIDE DEF W
    <3> QED
      BY <3>1, <3>2, OneEventKeepsStream DEF Code
  <2>8. CASE TurnEnds(r)
    <3>1. active = r /\ r \in Run
      BY <2>8 DEF TurnEnds, In
    <3>2. CASE EndRun(r, <<Msg(r, "final", "none"), Msg(r, "run-end", "completed")>>)
      BY <3>1, <3>2, PairKeepsStream
    <3>3. ASSUME NEW c \in Code, EndRun(r, <<Msg(r, "error", c), Msg(r, "run-end", c)>>)
          PROVE  StreamInv'
      BY <3>1, <3>3, PairKeepsStream
    <3>4. CASE Fail(r, "turn")
      BY <3>1, <3>4, FailKeepsStream DEF Code
    <3> QED
      BY <2>8, <3>2, <3>3, <3>4 DEF TurnEnds, Code
  <2> QED
    BY <1>4, <2>2, <2>3, <2>4, <2>5, <2>6, <2>7, <2>8 DEF RunStep
<1> QED
  BY <1>1, <1>3, <1>4 DEF Next

\* What a client reads of each run, for any number of runs: the answer to
\* run.start, then its events, then one run-end, which is there when the run has
\* finished over a working transport and is not while the run is active.
THEOREM StreamOrdered == Spec => []StreamIsOrdered
<1>1. TypeOK /\ StreamInv => StreamIsOrdered
  <2> SUFFICES ASSUME TypeOK, StreamInv PROVE OneEnd
    BY DEF StreamInv, StreamIsOrdered
  <2> SUFFICES ASSUME NEW r \in Run
               PROVE  /\ \A k \in Ends(r), n \in Events(r) : n <= k
                      /\ r \in finished /\ ~closed => Ends(r) # {}
                      /\ Ends(r) # {} => active # r
    BY DEF OneEnd
  <2>1. \A k \in Ends(r), n \in Events(r) : n <= k
    BY DEF StreamInv, EndIsLast, Ends, Events
  <2>2. r \in finished /\ ~closed => Ends(r) # {}
    BY DEF StreamInv, EndSeen, Ends
  <2>3. Ends(r) # {} => active # r
    BY BoundsAssumption DEF StreamInv, RunsAgree, Ends, Run
  <2> QED
    BY <2>1, <2>2, <2>3
<1>2. Inv => TypeOK
  BY DEF Inv
<1> QED
  BY <1>1, <1>2, InitInv, NextInv, StreamInit, StreamNext, PTL DEF Spec

\* A run-end with an error code was preceded by the error event with that code,
\* wherever the run failed and whatever was written before (runHeadless's catch).
THEOREM FailuresReported == Spec => []FailureIsReported
<1>1. StreamInv => FailureIsReported
  BY DEF StreamInv
<1>2. Inv => TypeOK
  BY DEF Inv
<1> QED
  BY <1>1, <1>2, InitInv, NextInv, StreamInit, StreamNext, PTL DEF Spec
=============================================================================
