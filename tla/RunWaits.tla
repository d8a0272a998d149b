------------------------------ MODULE RunWaits ------------------------------
(* One tool batch of a durable run and the waits it goes through              *)
(* (state/reducers/input.ts, state/reducers/tool.ts): a call the policy wants *)
(* approved and the builtin request_input put the run to sleep without a      *)
(* worker, and an authenticated command wakes it.  Preparation, dispatch, the *)
(* wait, the answer and the stop each read a cut of the run, plan             *)
(* content-addressed artifacts across awaits, and commit in one transaction   *)
(* that compares the cut.  The properties are the recovery validators         *)
(* (state/input-recovery.ts, state/tool-recovery.ts, state/stop-recovery.ts): *)
(* they refuse to open a run whose rows they cannot replay, so a committed    *)
(* state they refuse is a run that is lost.                                   *)
EXTENDS Integers, Sequences, FiniteSets, SequencesExt

CONSTANTS
    Batches,    \* the batches a model turn may ask for: sequences of dispositions
    Handler,    \* concurrent calls of the loaded run's handle
    RequestId,  \* the identifiers a client gives its commands
    Deadline,   \* the run's deadlineAt, on the canonical clock
    Ttl,        \* what an approval grants, before the deadline cuts it
    MaxTime, MaxRenewal

VARIABLES
    batch,    \* the calls of the open batch: "input", "ask", "allow" or "deny"
    run,      \* the runs row
    items,    \* the items table of the run, after the batch
    journal,  \* the tool rows of run_journal
    cps,      \* the checkpoints table
    control,  \* control_requests
    now,      \* the canonical clock
    fence,    \* time_fence.last_accepted_at
    call      \* what every concurrent handler has read and planned

vars == <<batch, run, items, journal, cps, control, now, fence, call>>

Nothing == [kind |-> "nothing"]
Idle == [op |-> "idle"]
Stopped == {"failed", "cancelled"}

\* The rows a transaction compares with what the handler read.
Cut == [run |-> run, seq |-> Len(items), jseq |-> Len(journal)]

\* The call the frontier names; behind the batch the frontier is the model's turn.
AtTool == run.next <= Len(batch)
Disposition == batch[run.next]

\* readHighestPreparedAttempt, readInvocationAttempt.
Attempts(c) == {e.attempt : e \in {f \in Range(journal) : f.call = c}}
Prior(c) == IF Attempts(c) = {} THEN 0 ELSE CHOOSE a \in Attempts(c) : \A b \in Attempts(c) : b <= a
Entries(c, a) == SelectSeq(journal, LAMBDA e : e.call = c /\ e.attempt = a)

\* approvedGrant: the last decision on the call, if a person allowed it.
Decisions(c) == SelectSeq(items, LAMBDA i : i.kind = "policy" /\ i.call = c)
Approved(c) ==
    LET d == Decisions(c) IN
    IF d # <<>> /\ Last(d).source = "approval" /\ Last(d).allow THEN Last(d).grant ELSE Nothing

\* retryAfterExpiry: the last attempt was given back because its grant ran out.
RetryAfterExpiry(c) ==
    /\ Prior(c) # 0
    /\ LET e == Entries(c, Prior(c)) IN Len(e) = 2 /\ e[2].phase = "failed" /\ e[2].cause.kind = "approval"

\* The open attempt of the call, 0 when there is none.
Pending(c) == IF Prior(c) # 0 /\ Len(Entries(c, Prior(c))) = 1 THEN Prior(c) ELSE 0

Init ==
    /\ batch \in Batches
    /\ run = [status |-> "running", worker |-> TRUE, next |-> 1, rev |-> 1, wait |-> Nothing,
              stop |-> "none", cp |-> [kind |-> "batch"]]
    /\ items = <<>> /\ journal = <<>>
    /\ cps = <<[key |-> [kind |-> "batch"], rev |-> 0, seq |-> 0, jseq |-> 0, at |-> 0]>>
    /\ control = {} /\ now = 0 /\ fence = 0
    /\ call = [h \in Handler |-> Idle]

\* The continuation commit: items, checkpoint, frontier and revision together.
Commit(new, jseq, key, at, row) ==
    /\ items' = items \o new
    /\ cps' = Append(cps, [key |-> key, rev |-> run.rev, seq |-> Len(items) + Len(new),
                           jseq |-> jseq, at |-> at])
    /\ run' = [row EXCEPT !.rev = run.rev + 1, !.cp = key]

Result(c, outcome, source) == [kind |-> "result", call |-> c, outcome |-> outcome, source |-> source]

\* An active worker is sealed and retired by the same commit; without one the
\* run must be queued.
Parks == IF run.worker THEN run.status \in {"running", "queued"} ELSE run.status = "queued"

\* assertCut and assertApprovalCut of the waits and the answers.
Unchanged(cut) ==
    /\ run.rev = cut.run.rev /\ run.status = cut.run.status /\ run.wait = cut.run.wait
    /\ run.next = cut.run.next /\ run.cp = cut.run.cp /\ Len(items) = cut.seq
    /\ run.stop = "none" /\ now < Deadline

\* assertLiveDispatchState: the lease of a running worker, before the deadline.
LiveDispatch == run.status = "running" /\ run.worker /\ run.stop = "none" /\ now < Deadline

Read(h, value) ==
    /\ call[h] = Idle /\ call' = [call EXCEPT ![h] = value]
    /\ UNCHANGED <<batch, run, items, journal, cps, control, now, fence>>

\* prepareTool up to its decision.  A queued run is only looked at for a wait.
CanPrepare ==
    /\ AtTool /\ run.status \in {"running", "queued"} /\ run.stop = "none" /\ now < Deadline
    /\ (run.status = "queued") = ~run.worker

\* An earlier attempt is in the way unless it can be renewed or was given back.
Renewable(c) ==
    LET g == Approved(c) IN
    g # Nothing /\ g.until <= now /\ Pending(c) # 0 /\ Entries(c, Prior(c))[1].grant = g
Lapsed(c, at) == Approved(c) # Nothing => Approved(c).until <= at
Retriable(c) == Prior(c) = 0 \/ Renewable(c) \/ RetryAfterExpiry(c)

\* prepareTool answers input_required or approval_required: a planned wait.
PlanWait(h) ==
    /\ CanPrepare
    /\ \/ Disposition = "input"
       \/ /\ Disposition = "ask" /\ Retriable(run.next)
          /\ Lapsed(run.next, now)
          /\ Prior(run.next) <= MaxRenewal
    /\ Read(h, [op |-> "planned",
                wait |-> [kind |-> IF Disposition = "input" THEN "input" ELSE "approval",
                          call |-> run.next, rev |-> run.rev, at |-> now]])

\* The reading half of waitForInput and of waitForToolApproval.
ReadWait(h) ==
    /\ call[h].op = "planned"
    /\ LET w == call[h].wait
           c == w.call IN
       /\ run.rev = w.rev /\ Parks
       /\ w.kind = "approval" =>
            /\ Lapsed(c, w.at)
            /\ Prior(c) # 0 => Pending(c) # 0 \/ RetryAfterExpiry(c)
            /\ Pending(c) # 0 => Approved(c) # Nothing /\ Entries(c, Pending(c))[1].grant = Approved(c)
       /\ call' = [call EXCEPT ![h] = [op |-> "enter", wait |-> w, cut |-> Cut,
                                       pending |-> IF w.kind = "approval" THEN Pending(c) ELSE 0]]
    /\ UNCHANGED <<batch, run, items, journal, cps, control, now, fence>>

\* The committing half.  An undispatched attempt whose grant ran out is given
\* back in the same transaction.
WaitIsCurrent(m) ==
    /\ Unchanged(m.cut)
    /\ IF m.pending # 0 THEN Len(Entries(m.wait.call, m.pending)) = 1 ELSE Len(journal) = m.cut.jseq
CommitWait(h) ==
    /\ call[h].op = "enter"
    /\ LET m == call[h]
           w == m.wait
           expired == IF m.pending = 0 THEN <<>> ELSE
               <<[phase |-> "failed", call |-> w.call, attempt |-> m.pending,
                  grant |-> Entries(w.call, m.pending)[1].grant, cause |-> w, at |-> now]>> IN
       /\ WaitIsCurrent(m)
       /\ journal' = journal \o expired
       /\ Commit(IF w.kind = "input" THEN <<[kind |-> "request", call |-> w.call, at |-> w.at]>> ELSE <<>>,
                 Len(journal) + Len(expired), w, now,
                 [run EXCEPT !.status = "waiting", !.wait = w, !.worker = FALSE])
    /\ fence' = now
    /\ call' = [call EXCEPT ![h] = Idle]
    /\ UNCHANGED <<batch, control, now>>

\* The commands a client can send in a wait.
Command(w) ==
    [id : RequestId, wait : {w}, decision : IF w.kind = "input" THEN {"text"} ELSE {"allow", "deny"}]
Row(cmd) == {r \in control : r.id = cmd.id /\ r.method = cmd.wait.kind}

\* submitInput and approveTool until their plan: a committed row answers the
\* command (or conflicts with it, when it has other bytes), and the run must be
\* in the very wait.
ReadAnswer(h) ==
    /\ run.status = "waiting" /\ run.rev = run.wait.rev + 1 /\ ~run.worker
    /\ \E cmd \in Command(run.wait) :
          Row(cmd) = {} /\ Read(h, [op |-> "answer", cmd |-> cmd, at |-> now, cut |-> Cut])

\* A plan whose time the fence has overtaken is made again.
Replan(h) ==
    /\ call[h].op = "answer" /\ call[h].at < fence
    /\ Row(call[h].cmd) = {}
    /\ call' = [call EXCEPT ![h].at = now]
    /\ UNCHANGED <<batch, run, items, journal, cps, control, now, fence>>

Grant(c, source, w, from) ==
    [kind |-> "grant", call |-> c, source |-> source, wait |-> w, from |-> from,
     until |-> IF source = "policy" \/ from + Ttl > Deadline THEN Deadline ELSE from + Ttl]

Policy(c, source, w, allow, grant) ==
    [kind |-> "policy", call |-> c, source |-> source, wait |-> w, allow |-> allow, grant |-> grant]

\* Mutant: the transaction takes the planned cut for the current one.
AnswerIsCurrent_Trusting(m) == m.at >= fence /\ run.status = "waiting"

\* The committing half of submitInput and of approveTool.
AnswerIsCurrent(m) == m.at >= fence /\ Unchanged(m.cut) /\ Len(journal) = m.cut.jseq
Answered(m) ==
    LET w == m.cmd.wait
        c == w.call
        g == Grant(c, "approval", w, m.at) IN
    CASE m.cmd.decision = "text" ->
           <<[kind |-> "input", call |-> c, id |-> m.cmd.id, wait |-> w, at |-> m.at],
             Result(c, "executed", "input")>>
      [] m.cmd.decision = "allow" -> <<Policy(c, "approval", w, TRUE, g)>>
      [] m.cmd.decision = "deny" -> <<Policy(c, "approval", w, FALSE, Nothing), Result(c, "denied", "user")>>

CommitAnswer(h) ==
    /\ call[h].op = "answer"
    /\ LET m == call[h]
           allow == m.cmd.decision = "allow" IN
       /\ Row(m.cmd) = {} /\ AnswerIsCurrent(m)
       /\ Commit(Answered(m), Len(journal), [kind |-> "answer", wait |-> m.cmd.wait, id |-> m.cmd.id], m.at,
                 [run EXCEPT !.status = "queued", !.wait = Nothing,
                             !.next = IF allow THEN @ ELSE @ + 1])
       /\ control' = control \cup {[id |-> m.cmd.id, method |-> m.cmd.wait.kind, wait |-> m.cmd.wait,
                                    decision |-> m.cmd.decision, at |-> m.at, rev |-> run.rev + 1]}
       /\ fence' = m.at
    /\ call' = [call EXCEPT ![h] = Idle]
    /\ UNCHANGED <<batch, journal, now>>

\* prepareTool with a decision: a denial or an attempt under a grant.
ReadPrepare(h) ==
    /\ CanPrepare /\ run.worker /\ Disposition # "input" /\ Retriable(run.next)
    /\ LET c == run.next
           g == Approved(c) IN
       /\ Disposition = "ask" => g # Nothing /\ g.until > now
       /\ Read(h, [op |-> "prepare", cut |-> Cut, prior |-> Prior(c), approved |-> g # Nothing,
                   deny |-> Disposition = "deny",
                   grant |-> IF g # Nothing THEN g ELSE Grant(c, "policy", Nothing, now)])

SameCut(cut) == run.next = cut.run.next /\ run.cp = cut.run.cp /\ Len(items) = cut.seq
CommitPrepare(h) ==
    /\ call[h].op = "prepare"
    /\ LET m == call[h]
           c == m.cut.run.next
           decision == <<Policy(c, "policy", Nothing, ~m.deny, IF m.deny THEN Nothing ELSE m.grant)>> IN
       /\ run.rev = m.cut.run.rev /\ LiveDispatch /\ SameCut(m.cut)
       /\ IF m.deny
          THEN /\ Prior(c) = 0
               /\ Commit(decision \o <<Result(c, "denied", "policy")>>, Len(journal), [kind |-> "denial", call |-> c],
                         now, [run EXCEPT !.next = c + 1])
               /\ UNCHANGED journal
          ELSE /\ Prior(c) = m.prior /\ now < m.grant.until
               /\ journal' = Append(journal, [phase |-> "prepared", call |-> c, attempt |-> m.prior + 1,
                                              grant |-> m.grant, cause |-> Nothing, at |-> now])
               /\ Commit(IF m.approved THEN <<>> ELSE decision, Len(journal) + 1,
                         [kind |-> "admission", grant |-> m.grant], now, run)
    /\ fence' = now
    /\ call' = [call EXCEPT ![h] = Idle]
    /\ UNCHANGED <<batch, control, now>>

\* claimTool: the transaction dates the claim inside the grant's lifetime.  It
\* does not advance the revision.
Claimable(c) ==
    /\ Pending(c) # 0
    /\ LET g == Entries(c, Pending(c))[1].grant IN g.from <= now /\ now < g.until
    /\ \A e \in Range(journal) : e.call = c => e.phase # "claimed"
Claim ==
    /\ AtTool /\ LiveDispatch /\ Claimable(run.next)
    /\ journal' = Append(journal, [phase |-> "claimed", call |-> run.next, attempt |-> Pending(run.next),
                                   grant |-> Entries(run.next, Pending(run.next))[1].grant,
                                   cause |-> Nothing, at |-> now])
    /\ fence' = now
    /\ UNCHANGED <<batch, run, items, cps, control, now, call>>

\* completeTool: the ordered result, whether or not the run is being stopped; an
\* edit is sealed with its worker, a read leaves it.
Complete ==
    /\ AtTool /\ run.status = "running"
    /\ LET c == run.next
           a == Prior(c) IN
       /\ a # 0 /\ Last(Entries(c, a)).phase = "claimed"
       /\ journal' = Append(journal, [Last(Entries(c, a)) EXCEPT !.phase = "completed", !.at = now])
       /\ \E sealed \in BOOLEAN :
            Commit(<<Result(c, "executed", "invocation")>>, Len(journal) + 1,
                   [kind |-> "completion", call |-> c, attempt |-> a], now,
                   [run EXCEPT !.next = c + 1, !.worker = ~sealed,
                               !.status = IF sealed THEN "queued" ELSE @])
    /\ fence' = now
    /\ UNCHANGED <<batch, control, now, call>>

\* The supervisor gives a queued run a worker (module RunKernel).
Activate ==
    /\ run.status = "queued" /\ AtTool /\ run.stop = "none" /\ now < Deadline
    /\ run' = [run EXCEPT !.status = "running", !.worker = TRUE, !.rev = @ + 1]
    /\ UNCHANGED <<batch, items, journal, cps, control, now, fence, call>>

\* cancelRun and the deadline: the intent is committed apart from the end.
Stop(origin) ==
    /\ run.status \notin Stopped
    /\ IF origin = "cancel" THEN run.stop # "cancel" ELSE run.stop = "none" /\ now >= Deadline
    /\ run' = [run EXCEPT !.stop = origin, !.rev = @ + 1]
    /\ UNCHANGED <<batch, items, journal, cps, control, now, fence, call>>

\* commitTerminalStop: undispatched attempts are refunded, the calls without a
\* result get an ordered cancellation.
Unresolved(a) == a.phase = "claimed" /\ Last(Entries(a.call, a.attempt)) = a
Undispatched == {e \in Range(journal) : Entries(e.call, e.attempt) = <<e>>}
CommitStop ==
    /\ run.status \notin Stopped /\ run.stop # "none"
    /\ ~\E e \in Range(journal) : Unresolved(e)
    /\ LET refunds == SetToSeq({[e EXCEPT !.phase = "failed", !.cause = [kind |-> "stop"], !.at = now] :
                                e \in Undispatched}) IN
       /\ journal' = journal \o refunds
       /\ Commit([i \in 1..(Len(batch) - run.next + 1) |-> Result(run.next + i - 1, "cancelled", "stop")],
                 Len(journal) + Len(refunds), [kind |-> "stop"], now,
                 [run EXCEPT !.status = IF run.stop = "cancel" THEN "cancelled" ELSE "failed",
                             !.wait = Nothing, !.worker = FALSE, !.next = Len(batch) + 1])
    /\ fence' = now
    /\ UNCHANGED <<batch, control, now, call>>

Tick ==
    /\ now < MaxTime /\ now' = now + 1
    /\ UNCHANGED <<batch, run, items, journal, cps, control, fence, call>>

\* Every await of a handler may fail: an artifact is not published, the cut is
\* refused, the row of the command exists.
Abandon(h) ==
    /\ call[h] # Idle /\ call' = [call EXCEPT ![h] = Idle]
    /\ UNCHANGED <<batch, run, items, journal, cps, control, now, fence>>

Next ==
    \/ \E h \in Handler :
          \/ PlanWait(h) \/ ReadWait(h) \/ CommitWait(h) \/ ReadAnswer(h) \/ Replan(h)
          \/ CommitAnswer(h) \/ ReadPrepare(h) \/ CommitPrepare(h) \/ Abandon(h)
    \/ Claim \/ Complete \/ Activate \/ Stop("cancel") \/ Stop("deadline") \/ CommitStop \/ Tick

Spec == Init /\ [][Next]_vars

-----------------------------------------------------------------------------
Terminal == run.status \in Stopped
Positions(kind) == {i \in 1..Len(items) : items[i].kind = kind}
ResultsBefore(i) == Cardinality({j \in Positions("result") : j < i})
Checkpoints(key) == {p \in Range(cps) : p.key = key}

\* The last checkpoint below a revision.
Below(rev) == SelectSeq(cps, LAMBDA p : p.rev < rev)

\* A wait's checkpoint, against the one before it.
WaitCheckpoint(w, seq, added) ==
    \E p \in Checkpoints(w) :
        /\ p.rev = w.rev /\ p.at >= w.at /\ p.seq = seq
        /\ Below(w.rev) # <<>> /\ Last(Below(w.rev)).seq = seq - added

\* The current wait is the run's latest cut, its revision moved only by a stop.
OwnsRun(w) ==
    /\ run.status = "waiting" /\ run.wait = w /\ ~run.worker /\ run.cp = w /\ run.next = w.call
    /\ IF run.stop = "none" THEN run.rev = w.rev + 1 ELSE run.rev >= w.rev + 1

\* The wait of an input request: the one it was answered in, the run's, or the
\* only one the checkpoints of a stopped run retain.
Replies(c) == {i \in Positions("input") : items[i].call = c}
WaitsOf(i) ==
    LET c == items[i].call IN
    CASE Replies(c) # {} -> {items[j].wait : j \in Replies(c)}
      [] Replies(c) = {} /\ Terminal -> {p.key : p \in {q \in Range(cps) : q.seq = i /\ q.key.kind = "input" /\ q.key.call = c}}
      [] OTHER -> {run.wait} \ {Nothing}

\* validateUserInputRecovery accepts the run: every request is the first control
\* of its call and owns one wait; its reply follows it, is dated before the
\* deadline and is checkpointed with its result; an unanswered one is the run's
\* wait or is cancelled by the stop.
InputReplays ==
    /\ \A i \in Positions("request") :
        LET c == items[i].call IN
        /\ batch[c] = "input" /\ Attempts(c) = {} /\ ResultsBefore(i) = c - 1
        /\ \A j \in Positions("request") : items[j].call = c => j = i
        /\ Cardinality(Replies(c)) <= 1 /\ Cardinality(WaitsOf(i)) = 1
        /\ \A w \in WaitsOf(i) :
            /\ w.kind = "input" /\ w.call = c /\ w.at = items[i].at /\ w.at < Deadline
            /\ WaitCheckpoint(w, i, 1)
            /\ \A p \in Checkpoints(w) : p.jseq = Last(Below(w.rev)).jseq
            /\ CASE Replies(c) # {} ->
                      \A j \in Replies(c) :
                        /\ j = i + 1 /\ j < Len(items) /\ items[j + 1] = Result(c, "executed", "input")
                        /\ items[j].at < Deadline
                        /\ \E p \in Checkpoints([kind |-> "answer", wait |-> w, id |-> items[j].id]), r \in control :
                            /\ p.rev = w.rev + 1 /\ p.at = items[j].at /\ p.seq = i + 2
                            /\ \A q \in Checkpoints(w) : p.jseq = q.jseq
                            /\ r.id = items[j].id /\ r.method = "input" /\ r.wait = w
                            /\ r.at = items[j].at /\ r.rev = w.rev + 2
                 [] Replies(c) = {} /\ Terminal -> i < Len(items) /\ items[i + 1] = Result(c, "cancelled", "stop")
                 [] OTHER -> OwnsRun(w) /\ i = Len(items)
    /\ \A j \in Positions("input") : \E i \in Positions("request") : items[i].call = items[j].call
    /\ run.wait.kind = "input" => \E i \in Positions("request") : Replies(items[i].call) = {} /\ run.wait \in WaitsOf(i)

\* One person's decision: its wait was checkpointed over unchanged items, no
\* other decision answers it, and its own checkpoint and control row are exact.
DecisionReplays(i) ==
    LET d == items[i] IN
    /\ WaitCheckpoint(d.wait, i - 1, 0) /\ d.wait.call = d.call
    /\ \A j \in Positions("policy") : items[j].source = "approval" /\ items[j].wait = d.wait => j = i
    /\ \E r \in control :
        /\ r.method = "approval" /\ r.wait = d.wait /\ r.rev = d.wait.rev + 2
        /\ r.decision = (IF d.allow THEN "allow" ELSE "deny")
        /\ \E p \in Checkpoints([kind |-> "answer", wait |-> d.wait, id |-> r.id]) :
            /\ p.at = r.at /\ p.rev = d.wait.rev + 1 /\ p.seq = i + (IF d.allow THEN 0 ELSE 1)
            /\ \A q \in Checkpoints(d.wait) : p.jseq = q.jseq
        /\ d.allow => d.grant.from = r.at

\* One attempt: a decision owns its grant, nothing happens outside the grant's
\* lifetime, and a failure is a refund of an undispatched attempt, by the stop
\* or by the wait that observed the expiry.
AttemptReplays(k) ==
    LET e == journal[k]
        mine == {j \in 1..Len(journal) : journal[j].call = e.call}
        claims == {j \in mine : journal[j].phase = "claimed"}
        same == {j \in mine : journal[j].attempt = e.attempt} IN
    /\ \E i \in Positions("policy") : items[i].allow /\ items[i].grant = e.grant /\ items[i].call = e.call
    /\ e.grant.from <= e.at /\ e.at < e.grant.until
    /\ Cardinality(claims) <= 1
    /\ \A j \in claims : journal[j].grant = e.grant =>
          e.grant.from <= journal[j].at /\ journal[j].at < e.grant.until
    /\ \A j \in same : journal[j].phase = "failed" =>
        LET f == journal[j] IN
        /\ claims \cap same = {}
        /\ IF f.cause.kind = "stop" THEN Terminal ELSE
             /\ f.cause.kind = "approval" /\ f.cause.call = e.call /\ e.grant.source = "approval"
             /\ e.grant.until <= f.cause.at /\ f.cause.at <= f.at
             /\ \E p \in Checkpoints(f.cause) : p.jseq = j /\ p.rev = f.cause.rev
    /\ \A j \in same : journal[j].phase = "completed" =>
        /\ claims \cap same # {}
        /\ \E i \in Positions("result"), p \in Checkpoints([kind |-> "completion", call |-> e.call, attempt |-> e.attempt]) :
             items[i] = Result(e.call, "executed", "invocation") /\ p.jseq = j /\ p.seq = i

\* validateToolRecovery accepts the run.
ToolReplays ==
    /\ run.wait.kind = "approval" => OwnsRun(run.wait) /\ WaitCheckpoint(run.wait, Len(items), 0)
    /\ \A i \in Positions("policy") :
        /\ ResultsBefore(i) = items[i].call - 1
        /\ items[i].source = "approval" => DecisionReplays(i)
        /\ items[i].allow => \A j \in Positions("policy") : items[j].allow /\ items[j].grant = items[i].grant => j = i
        /\ ~items[i].allow => i < Len(items) /\ items[i + 1].kind = "result" /\ items[i + 1].outcome = "denied"
    /\ \A k \in 1..Len(journal) : journal[k].phase = "prepared" => AttemptReplays(k)

\* validateStopRecovery accepts the run: a stopped one has closed its batch, its
\* attempts and its wait, and cancels no call that was dispatched.
StopReplays ==
    Terminal =>
        /\ run.stop # "none" /\ ~run.worker /\ run.wait = Nothing /\ run.cp = [kind |-> "stop"]
        /\ Last(cps).jseq = Len(journal) /\ Last(cps).seq = Len(items)
        /\ Cardinality(Positions("result")) = Len(batch)
        /\ \A e \in Range(journal) : Last(Entries(e.call, e.attempt)).phase \in {"completed", "failed"}
        /\ \A i \in Positions("result") : items[i].outcome = "cancelled" =>
              ~\E e \in Range(journal) : e.call = items[i].call /\ e.phase = "claimed"

\* The results close the calls once and in order (readToolCut, openStopBatch).
Ordered ==
    \A i \in Positions("result") : items[i].call = ResultsBefore(i) + 1

\* Whatever the handlers interleave, every committed state of the run is one its
\* recovery validators replay.
CutReopens == InputReplays /\ ToolReplays /\ StopReplays /\ Ordered
=============================================================================
