----------------------------- MODULE HeadlessRpc -----------------------------
(***************************************************************************)
(* The JSON-RPC server on standard input and output, and the headless runs *)
(* it starts.  A line of input is handled in one go, except the queries,   *)
(* whose answers come later.  A run takes its steps between lines: it      *)
(* looks at its signal when it begins and then only inside runTurn, which  *)
(* is one step here and has a module of its own (TurnRunner).              *)
(*                                                                         *)
(* Any write may find the output broken: the server then closes the        *)
(* transport, aborts the run, and writes nothing more.                     *)
(***************************************************************************)
EXTENDS Integers, Sequences

CONSTANTS MaxRuns,    \* run.start requests that are accepted
          MaxQueries  \* queries that wait for an answer

ASSUME BoundsAssumption == MaxRuns \in Nat /\ MaxQueries \in Nat

VARIABLES server,   \* "open", "finishing" once input or output ended, "done"
          closed,   \* transportClosed
          active,   \* activeRun; 0: none
          started,  \* runs 1..started have been accepted
          finished, \* finishedRunIds
          signal,   \* runs whose controller was aborted
          run,      \* what each run does and knows
          queries,  \* queries without an answer
          out       \* what was written of the runs

vars == <<server, closed, active, started, finished, signal, run, queries, out>>

Run   == 1..MaxRuns
Code  == {"cancelled", "input", "setup", "turn", "warning"}
Phase == {"none", "begin", "validate", "resolve", "assemble", "recover", "turn", "ended"}

\* silent: run.start was a notification; error: runtimeError.
RunState == [phase : Phase, silent : BOOLEAN, error : Code \cup {"none"}]
NoRun == [phase |-> "none", silent |-> FALSE, error |-> "none"]

Msg(r, type, what) == [run |-> r, type |-> type, what |-> what]

Init ==
  /\ server = "open" /\ closed = FALSE /\ active = 0 /\ started = 0
  /\ finished = {} /\ signal = {} /\ queries = 0 /\ out = <<>>
  /\ run = [r \in Run |-> NoRun]

-----------------------------------------------------------------------------
(* The transport.                                                          *)

\* abortActiveRun, when a is the active run.
Abort(a) == signal' = signal \cup ({a} \ {0})

\* Write msgs, while a is the active run: all of them, or those before the one
\* whose write failed.
Write(msgs, a, runs) ==
  /\ run' = runs
  /\ \/ closed /\ UNCHANGED <<closed, out, signal>>
     \/ ~closed /\ out' = out \o msgs /\ UNCHANGED <<closed, signal>>
     \/ /\ ~closed /\ closed' = TRUE /\ Abort(a)
        /\ \E k \in 0..(Len(msgs) - 1) : out' = out \o SubSeq(msgs, 1, k)

-----------------------------------------------------------------------------
(* Requests.                                                               *)

\* handleLine, of a line that arrives.
Line == server = "open" /\ ~closed

Accepted(silent) ==
  [run EXCEPT ![started + 1] = [NoRun EXCEPT !.phase = "begin", !.silent = silent]]

\* Mutant: the answer is written before the run is registered.
StartRun_AnswerFirst(silent) ==
  /\ Line /\ active = 0 /\ started < MaxRuns
  /\ started' = started + 1 /\ active' = started + 1
  /\ \/ silent /\ run' = Accepted(silent) /\ UNCHANGED <<closed, signal, out>>
     \/ ~silent /\ Write(<<Msg(started + 1, "answer", "started")>>, 0, Accepted(silent))
  /\ UNCHANGED <<server, finished, queries>>

StartRun(silent) ==
  /\ Line /\ active = 0 /\ started < MaxRuns
  /\ started' = started + 1 /\ active' = started + 1
  /\ \/ silent /\ run' = Accepted(silent) /\ UNCHANGED <<closed, signal, out>>
     \/ ~silent /\ Write(<<Msg(started + 1, "answer", "started")>>, started + 1, Accepted(silent))
  /\ UNCHANGED <<server, finished, queries>>

\* A message that is about no run: it is written, or the transport breaks.
WriteOther ==
  \/ UNCHANGED <<closed, signal, run, out>>
  \/ ~closed /\ closed' = TRUE /\ Abort(active) /\ UNCHANGED <<run, out>>

\* cancelRun, of the active run.
CancelActive ==
  /\ Line /\ active # 0 /\ Abort(active)
  /\ closed' \in BOOLEAN   \* whether the answer could be written
  /\ UNCHANGED <<server, active, started, finished, run, queries, out>>

\* Requests that only have an answer: cancelRun of any other run, a second run,
\* an unknown method, invalid parameters, a line that is no JSON.
Reply == Line /\ WriteOther /\ UNCHANGED <<server, active, started, finished, queries>>

\* session.get, artifact.get and skills.list.
Query == /\ Line /\ queries < MaxQueries /\ queries' = queries + 1
         /\ UNCHANGED <<server, closed, active, started, finished, signal, run, out>>

\* Mutant: a query that fails is answered twice.
AnswerQuery_Twice == /\ queries > 0 /\ queries' \in {queries - 1, queries - 2} /\ WriteOther
                     /\ UNCHANGED <<server, active, started, finished>>

AnswerQuery == /\ queries > 0 /\ queries' = queries - 1 /\ WriteOther
               /\ UNCHANGED <<server, active, started, finished>>

-----------------------------------------------------------------------------
(* A run: runHeadless.                                                     *)

In(r, phase) == active = r /\ run[r].phase = phase
Same == UNCHANGED <<server, started, queries>>
Step(r, phase) == run' = [run EXCEPT ![r].phase = phase] /\ Same
                  /\ UNCHANGED <<closed, active, finished, signal, out>>

\* Mutant: the run stays active until the server next looks.
EndRun_KeepActive(r, msgs) ==
  /\ Write(msgs, r, [run EXCEPT ![r].phase = "ended"])
  /\ finished' = finished \cup {r} /\ UNCHANGED active /\ Same

\* The last messages of the run, and the finally of startRun.
EndRun(r, msgs) ==
  /\ Write(msgs, r, [run EXCEPT ![r].phase = "ended"])
  /\ finished' = finished \cup {r} /\ active' = 0 /\ Same

\* Mutant: an error that ends the run is only in its run-end.
Fail_EndOnly(r, code) == EndRun(r, <<Msg(r, "run-end", code)>>)

\* runHeadless catches code: the last error event of the turn wins; if there was
\* none, one is written.
Fail(r, code) ==
  IF run[r].error # "none" THEN EndRun(r, <<Msg(r, "run-end", run[r].error)>>)
  ELSE EndRun(r, <<Msg(r, "error", code), Msg(r, "run-end", code)>>)

\* Mutant: a run aborted before it began is dropped.
Begin_Drop(r) == In(r, "begin") /\ r \notin signal /\ Step(r, "validate")

Begin(r) == In(r, "begin") /\ IF r \in signal THEN Fail(r, "cancelled") ELSE Step(r, "validate")
ValidateRequest(r) == In(r, "validate") /\ (Fail(r, "input") \/ Step(r, "resolve"))
ResolveSession(r)  == In(r, "resolve") /\ (Fail(r, "input") \/ Step(r, "assemble"))

\* The model is configured and the session saved.
Assemble(r) ==
  /\ In(r, "assemble")
  /\ \/ Fail(r, "setup")
     \/ /\ Write(<<Msg(r, "run-start", "none")>>, r, [run EXCEPT ![r].phase = "recover"])
        /\ UNCHANGED <<active, finished>> /\ Same

\* recoverAtStart and the SessionStart hooks, whose warnings are written but not
\* kept as runtimeError.
Recover(r) ==
  /\ In(r, "recover")
  /\ \/ Fail(r, "setup")
     \/ Step(r, "turn")
     \/ /\ Write(<<Msg(r, "error", "warning")>>, r, [run EXCEPT ![r].phase = "turn"])
        /\ UNCHANGED <<active, finished>> /\ Same

\* runTurn (TurnRunner): it may report errors it survives, and then complete,
\* also when it was aborted too late; stop at the signal; or fail, with an error
\* event of its own or without.
TurnWarns(r) ==
  /\ In(r, "turn") /\ run[r].error = "none"
  /\ Write(<<Msg(r, "error", "warning")>>, r, [run EXCEPT ![r].error = "warning"])
  /\ UNCHANGED <<active, finished>> /\ Same
TurnEnds(r) ==
  /\ In(r, "turn")
  /\ \/ EndRun(r, <<Msg(r, "final", "none"), Msg(r, "run-end", "completed")>>)
     \/ /\ r \in signal
        /\ EndRun(r, <<Msg(r, "error", "cancelled"), Msg(r, "run-end", "cancelled")>>)
     \/ EndRun(r, <<Msg(r, "error", "turn"), Msg(r, "run-end", "turn")>>)
     \/ Fail(r, "turn")

RunStep(r) == Begin(r) \/ ValidateRequest(r) \/ ResolveSession(r) \/ Assemble(r) \/ Recover(r)
              \/ TurnWarns(r) \/ TurnEnds(r)

-----------------------------------------------------------------------------
(* The end: runStdioJsonRpcServer's finish.                                *)

InputCloses == /\ server = "open" /\ server' = "finishing" /\ Abort(active)
               /\ UNCHANGED <<closed, active, started, finished, run, queries, out>>
OutputFails == /\ server = "open" /\ server' = "finishing" /\ closed' = TRUE
               /\ IF closed THEN UNCHANGED signal ELSE Abort(active)
               /\ UNCHANGED <<active, started, finished, run, queries, out>>
\* The pending lines are answered, and no run is active.
Drain == /\ server = "finishing" /\ queries = 0 /\ active = 0 /\ server' = "done"
         /\ UNCHANGED <<closed, active, started, finished, signal, run, queries, out>>

Next ==
  \/ \E silent \in BOOLEAN : StartRun(silent)
  \/ CancelActive \/ Reply \/ Query \/ AnswerQuery
  \/ \E r \in Run : RunStep(r)
  \/ InputCloses \/ OutputFails \/ Drain

Spec == Init /\ [][Next]_vars

\* Queries, runs (TurnRunner's TurnEnds) and the end of the server get their turn.
FairSpec == /\ Spec /\ WF_vars(AnswerQuery) /\ WF_vars(Drain)
            /\ \A r \in Run : WF_vars(RunStep(r))

-----------------------------------------------------------------------------
(* Properties.                                                             *)

TypeOK ==
  /\ server \in {"open", "finishing", "done"} /\ closed \in BOOLEAN
  /\ active \in 0..MaxRuns /\ started \in 0..MaxRuns
  /\ finished \subseteq Run /\ signal \subseteq Run
  /\ run \in [Run -> RunState] /\ queries \in 0..MaxQueries

Ends(r) == {k \in DOMAIN out : out[k].run = r /\ out[k].type = "run-end"}
Events(r) == {k \in DOMAIN out : out[k].run = r /\ out[k].type # "answer"}

\* A client sees one run-end of a run, after everything else of it; a finished
\* run has one unless the transport broke; and whoever has seen it may start the
\* next run (startRun's finally, runHeadless).
OneEnd ==
  \A r \in Run :
    /\ \A k \in Ends(r), n \in Events(r) : n <= k
    /\ r \in finished /\ ~closed => Ends(r) # {}
    /\ Ends(r) # {} => active # r

\* The answer to run.start, with the id of the run, precedes its events.
AnswerFirst ==
  \A r \in Run : ~run[r].silent =>
    \A n \in Events(r) : \E k \in DOMAIN out : k < n /\ out[k] = Msg(r, "answer", "started")

\* What a client reads of a run is in order: its answer, its events, one end.
StreamIsOrdered == OneEnd /\ AnswerFirst

\* The code in the run-end of a run that does not complete is the code of an
\* error event before it, wherever the run failed (run.ts's catch block).
FailureIsReported ==
  \A r \in Run : \A k \in Ends(r) : out[k].what # "completed" =>
    \E n \in Events(r) : n < k /\ out[n].type = "error" /\ out[n].what = out[k].what

\* No run works for a client that cannot hear of it: when the input or the output
\* has ended, the active run has been aborted, also one that was just starting.
ClosedRunsStop == (closed \/ server # "open") /\ active # 0 => active \in signal

\* Every accepted run ends.
EveryRunEnds == \A r \in Run : active = r ~> r \in finished
=============================================================================
