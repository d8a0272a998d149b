----------------------------- MODULE ControlRead -----------------------------
(***************************************************************************)
(* Reads over the control channel (state/control-read.ts): a client pages  *)
(* through the items of a session, through the items, journal and          *)
(* checkpoints of a run, or follows the events of a run, while the         *)
(* reducers (state/reducers) go on writing and the owner of the state may  *)
(* change.  A read takes its cut in one snapshot; its answer leaves after  *)
(* more awaits and only if the owner is still the same.                    *)
(*                                                                         *)
(* A session is a number; a fork refers to an earlier session and copies   *)
(* no rows.  No writer of this version forks a session or prunes events:   *)
(* the readers are written for both, so both may happen here.              *)
(***************************************************************************)
EXTENDS Naturals, Sequences, SequencesExt, FiniteSetsExt, Functions

CONSTANTS
    MaxSession,    \* sessions
    MaxItem,       \* items of all sessions
    Bytes,         \* sizes of a row
    PageBytes,     \* METADATA_BYTES
    Limit,         \* the rows of one stream a client asks for
    MaxRevision,   \* revisions of the run
    MaxJournal,    \* rows of its journal
    Point,         \* identifiers of checkpoints
    MaxTime,       \* the last millisecond
    MaxEpoch       \* owners of the state

None == "none"
Least(a, b) == IF a < b THEN a ELSE b
Most(a, b) == IF a > b THEN a ELSE b

VARIABLES
    method,    \* what the client reads
    sess,      \* sessions: the parent, the fork cursor and the sizes of its own rows
    run,       \* the row of the run
    rows,      \* its items and journal (sizes), checkpoints and events
    time,      \* canonical time
    epoch,     \* the owner of the state
    reader     \* the client: cursors, what it received and the answer under way
vars == <<method, sess, run, rows, time, epoch, reader>>

Latest(s) == sess[s].fork + Len(sess[s].own)

\* The state a run is admitted in, with its first checkpoint and event.
Queued == [status |-> "queued", next |-> TRUE, frontier |-> TRUE, wait |-> None,
           launch |-> FALSE, reason |-> FALSE, detail |-> FALSE, stop |-> FALSE,
           cancel |-> FALSE, revision |-> 1]
Admitted(p) == [items |-> <<>>, journal |-> <<>>, points |-> {<<0, p>>},
                events |-> <<[row |-> Queued, items |-> 0]>>, pruned |-> 0]
\* An unused identifier of a checkpoint; any one will do where none is read.
Fresh(points) ==
    LET unused == {p \in Point : \A x \in points : x[2] # p}
    IN  IF method = "run.get" \/ unused = {} THEN unused ELSE {Min(unused)}
NoAnswer == [code |-> None]
NewReader == [of |-> 0, after |-> 0, journal |-> 0, point |-> <<>>, got |-> <<>>,
              points |-> {}, state |-> {}, answer |-> NoAnswer]

Init ==
    /\ method \in {"session.get", "run.get", "run.attach"}
    /\ sess = <<[parent |-> 0, fork |-> 0, own |-> <<>>]>>
    /\ run = Queued
    /\ \E p \in Fresh({}) : rows = Admitted(p)
    /\ time = 0
    /\ epoch = 1
    /\ reader = NewReader

(***************************************************************************)
(* Writers                                                                 *)
(***************************************************************************)
\* A terminated run leaves an item in its session.
AppendItem(s, b) ==
    /\ method = "session.get"
    /\ FoldSeq(LAMBDA x, n : Len(x.own) + n, 0, sess) < MaxItem
    /\ sess' = [sess EXCEPT ![s].own = Append(@, b)]
    /\ UNCHANGED <<method, run, rows, time, epoch, reader>>

\* A session that continues another one from one of its items.
Fork(s, f) ==
    /\ method = "session.get"
    /\ Len(sess) < MaxSession
    /\ sess' = Append(sess, [parent |-> s, fork |-> f, own |-> <<>>])
    /\ UNCHANGED <<method, run, rows, time, epoch, reader>>

\* Every reducer ends with the event of the state it wrote, in its transaction.
\* The events are kept where they are read.
appendRunStateEvent(next, r) ==
    /\ run' = [next EXCEPT !.revision = run.revision + 1]
    /\ rows' = [r EXCEPT !.events = IF method = "run.get" THEN @
                                   ELSE Append(@, [row |-> run', items |-> Len(r.items)])]

Writes ==
    /\ method # "session.get"
    /\ run.revision < MaxRevision
    /\ UNCHANGED <<method, sess, time, epoch, reader>>

\* Items and a checkpoint of this millisecond, under an identifier that is a digest.
Continued(r, n) ==
    {[r EXCEPT !.items = @ \o [i \in 1..n |-> 1], !.points = @ \cup {<<time, p>>}] :
        p \in Fresh(r.points)}

Journalled(r, b) == [r EXCEPT !.journal = Append(@, b)]

\* Only pages with a byte budget tell sizes apart.
RowBytes == IF method = "run.attach" THEN {Min(Bytes)} ELSE Bytes

Open == run.status \in {"queued", "running"}
Journals == Writes /\ Open /\ Len(rows.journal) < MaxJournal
LiveDispatch == Journals /\ run.status = "running" /\ ~run.stop

\* A claim writes the journal only: neither a revision nor an event.
ClaimInvocation(b) ==
    /\ LiveDispatch
    /\ rows' = Journalled(rows, b)
    /\ UNCHANGED run

\* An attempt is prepared.
PrepareInvocation(b) ==
    /\ LiveDispatch
    /\ appendRunStateEvent(run, Journalled(rows, b))

\* A completed model attempt writes its items and a checkpoint.
CompleteInvocation(b, n) ==
    /\ Journals
    /\ rows.journal # <<>>
    /\ \E r \in Continued(Journalled(rows, b), n) : appendRunStateEvent(run, r)

Activate ==
    /\ Writes
    /\ run.status = "queued"
    /\ ~run.stop
    /\ ~run.cancel
    /\ appendRunStateEvent([run EXCEPT !.status = "running", !.launch = TRUE], rows)

Seal ==
    /\ Writes
    /\ run.status = "running"
    /\ \E r \in Continued(rows, 0) :
           appendRunStateEvent([run EXCEPT !.status = "queued", !.launch = FALSE], r)

\* The run waits for an input; an active worker is sealed in the same transaction.
AwaitInput ==
    /\ Writes
    /\ Open
    /\ ~run.stop
    /\ \E r \in Continued(rows, 1) :
           appendRunStateEvent([run EXCEPT !.status = "waiting", !.wait = "input", !.launch = FALSE], r)

Answered ==
    /\ Writes
    /\ run.wait = "input"
    /\ ~run.stop
    /\ \E r \in Continued(rows, 1) :
           appendRunStateEvent([run EXCEPT !.status = "queued", !.wait = None], r)

\* The worker is lost: its generation is fenced and the run waits for its recovery.
FenceWorker ==
    /\ Writes
    /\ run.status = "running"
    /\ appendRunStateEvent([run EXCEPT !.status = "waiting", !.wait = "reconciliation",
                                       !.launch = FALSE], rows)

QuarantineWorker ==
    /\ Writes
    /\ run.wait = "reconciliation"
    /\ appendRunStateEvent([run EXCEPT !.status = "queued", !.wait = None], rows)

RequestStop(user) ==
    /\ Writes
    /\ run.status \in {"queued", "running", "waiting"}
    /\ user \/ ~run.stop
    /\ appendRunStateEvent([run EXCEPT !.stop = TRUE, !.cancel = @ \/ user], rows)

\* The checkpoint's update of the frontier comes before the terminal row's; a lost
\* worker's recovery ends in the same transaction.
CommitStop ==
    /\ Writes
    /\ run.stop
    /\ run.status \in {"queued", "running", "waiting"}
    /\ \E r \in Continued(rows, 1) :
           appendRunStateEvent([run EXCEPT !.status = IF run.cancel THEN "cancelled" ELSE "failed",
                                           !.next = FALSE, !.frontier = FALSE, !.wait = None,
                                           !.launch = FALSE, !.reason = TRUE, !.detail = TRUE], r)

Prune ==
    /\ method = "run.attach"
    /\ rows.pruned + 1 < Len(rows.events)
    /\ rows' = [rows EXCEPT !.pruned = @ + 1]
    /\ UNCHANGED <<method, sess, run, time, epoch, reader>>

Tick ==
    /\ method = "run.get"
    /\ time < MaxTime
    /\ time' = time + 1
    /\ UNCHANGED <<method, sess, run, rows, epoch, reader>>

OwnerChanges ==
    /\ epoch < MaxEpoch
    /\ epoch' = epoch + 1
    /\ UNCHANGED <<method, sess, run, rows, time, reader>>

(***************************************************************************)
(* The cut of a read                                                       *)
(***************************************************************************)
\* A row of another principal or of none, a cursor beyond the stream: refused.
Refused(code) == [code |-> code]

\* What the rows of a page take, with the punctuation between them.
byteBudget(page) == FoldSeq(LAMBDA x, n : x.bytes + n, 0, page) + (IF page = <<>> THEN 0 ELSE Len(page) - 1)

\* The longest page of at most limit rows that fits; full: the budget ended it.
Page(stream, limit, budget) ==
    LET n == Max({k \in 0..Least(limit, Len(stream)) : byteBudget(SubSeq(stream, 1, k)) <= budget})
    IN  [rows |-> SubSeq(stream, 1, n), full |-> n < Least(limit, Len(stream))]

\* Mutant: an ancestor is clipped by the nearest fork cursor only.
sessionRows_Unclipped(s, after) ==
    LET clip[q \in 0..Len(sess), through \in 0..MaxItem] ==
            IF q = 0 THEN <<>>
            ELSE LET from == Most(sess[q].fork, after)
                     own  == [k \in 1..(IF through > from THEN through - from ELSE 0) |->
                                 [session |-> q, seq |-> from + k,
                                  bytes |-> sess[q].own[from + k - sess[q].fork]]]
                 IN  clip[sess[q].parent, sess[q].fork] \o own
    IN  clip[s, Latest(s)]

\* The rows of a session above after: each ancestor is clipped by every fork
\* cursor between it and the session that is read.
sessionRows(s, after) ==
    LET clip[q \in 0..Len(sess), through \in 0..MaxItem] ==
            IF q = 0 THEN <<>>
            ELSE LET from == Most(sess[q].fork, after)
                     own  == [k \in 1..(IF through > from THEN through - from ELSE 0) |->
                                 [session |-> q, seq |-> from + k,
                                  bytes |-> sess[q].own[from + k - sess[q].fork]]]
                 IN  clip[sess[q].parent, Least(through, sess[q].fork)] \o own
    IN  clip[s, Latest(s)]

sessionCut(s, after) ==
    LET stream == sessionRows(s, after)
        page   == Page(stream, Limit, PageBytes).rows
        gap    == \E k \in DOMAIN page : page[k].seq # after + k
    IN  IF after > Latest(s) THEN Refused("invalid")
        ELSE IF gap THEN Refused("corrupt")
        ELSE [code |-> "ok", page |-> [k \in DOMAIN page |-> <<page[k].session, page[k].seq>>],
              next |-> after + Len(page), high |-> Latest(s)]

\* The matrix of a public state: what waits, runs or has ended says so everywhere.
checkedPublicState(row) ==
    /\ (row.status = "waiting") <=> (row.wait # None)
    /\ IF row.status \in {"failed", "cancelled"}
       THEN ~row.next /\ ~row.frontier /\ row.reason /\ row.detail
       ELSE row.next /\ row.frontier /\ ~row.reason /\ ~row.detail

checkedRun(row) ==
    /\ checkedPublicState(row)
    /\ (row.status = "running") <=> row.launch
    /\ row.status \in {"failed", "cancelled"} => row.stop

\* Checkpoints are ordered by the time and then by the identifier.
Before(x, y) == x[1] < y[1] \/ (x[1] = y[1] /\ x[2] < y[2])
PointsAfter(cursor) ==
    SetToSortSeq({x \in rows.points : cursor = <<>> \/ Before(cursor, x)}, Before)

runGetCut ==
    LET item(k)  == [seq |-> reader.after + k, bytes |-> 1]
        entry(k) == [seq |-> reader.journal + k, bytes |-> rows.journal[reader.journal + k]]
        items    == Page([k \in 1..(Len(rows.items) - reader.after) |-> item(k)], Limit, PageBytes)
        left     == PageBytes - byteBudget(items.rows)
        journal  == Page([k \in 1..(Len(rows.journal) - reader.journal) |-> entry(k)],
                         IF items.full THEN 0 ELSE Limit, left)
        above    == PointsAfter(reader.point)
        points   == Page([k \in DOMAIN above |-> [at |-> above[k], bytes |-> 1]],
                         IF items.full \/ journal.full THEN 0 ELSE Limit,
                         left - byteBudget(journal.rows))
        taken    == points.rows
    IN  IF rows.points = {} THEN Refused("corrupt")
        ELSE IF \/ reader.after > Len(rows.items)
                \/ reader.journal > Len(rows.journal)
                \/ reader.point # <<>> /\ reader.point \notin rows.points
        THEN Refused("invalid")
        ELSE [code |-> "ok", page |-> [k \in DOMAIN items.rows |-> items.rows[k].seq],
              next |-> reader.after + Len(items.rows), high |-> Len(rows.items),
              journal |-> reader.journal + Len(journal.rows), highJournal |-> Len(rows.journal),
              points |-> {taken[k].at : k \in DOMAIN taken},
              point |-> IF taken = <<>> THEN reader.point ELSE Last(taken).at,
              highPoint |-> CHOOSE x \in rows.points : \A y \in rows.points : ~Before(x, y)]

\* An event does not run ahead of the row and the items of the same snapshot.
checkedEvent(e) ==
    /\ e.row.revision <= run.revision
    /\ e.items <= Len(rows.items)
    /\ checkedPublicState(e.row)

runAttachCut ==
    LET latest == Len(rows.events)
        expired == reader.after < rows.pruned
        page == SubSeq(rows.events, reader.after + 1, Least(reader.after + Limit, latest))
    IN  IF reader.after > latest THEN Refused("invalid")
        ELSE IF expired THEN [code |-> "expired", snapshot |-> run, latest |-> latest]
        ELSE IF \E k \in DOMAIN page : ~checkedEvent(page[k]) THEN Refused("corrupt")
        ELSE [code |-> "ok", page |-> page, next |-> reader.after + Len(page), high |-> latest,
              snapshot |-> run]

\* One read: the channel is checked, then the cut is taken in one snapshot.
readControl(s) ==
    /\ reader.answer = NoAnswer
    /\ reader.of \in {0, s}
    /\ LET cut == IF method = "session.get" THEN sessionCut(s, reader.after)
                  ELSE IF method # "session.get" /\ ~checkedRun(run) THEN Refused("corrupt")
                  ELSE IF method = "run.get" THEN runGetCut
                  ELSE runAttachCut
       IN  reader' = [reader EXCEPT !.of = s, !.answer = [owner |-> epoch] @@ cut]
    /\ UNCHANGED <<method, sess, run, rows, time, epoch>>

(***************************************************************************)
(* The answer                                                              *)
(***************************************************************************)
\* The specification is read and the channel and the owner are checked again:
\* an answer under another owner is an error.
Current == reader.answer # NoAnswer /\ reader.answer.owner = epoch

Received(a) ==
    IF method = "run.attach"
    THEN [reader EXCEPT !.got = @ \o a.page, !.after = a.next, !.answer = NoAnswer,
                        !.state = IF a.page = <<>> THEN @ ELSE {Last(a.page).row}]
    ELSE IF method = "run.get"
    THEN [reader EXCEPT !.got = @ \o a.page, !.after = a.next, !.journal = a.journal,
                        !.points = @ \cup a.points, !.point = a.point, !.answer = NoAnswer]
    ELSE [reader EXCEPT !.got = @ \o a.page, !.after = a.next, !.answer = NoAnswer]

Answer ==
    /\ Current
    /\ reader.answer.code = "ok"
    /\ reader' = Received(reader.answer)
    /\ UNCHANGED <<method, sess, run, rows, time, epoch>>

\* The client goes on from the snapshot the error carries.
AnswerExpired ==
    /\ Current
    /\ reader.answer.code = "expired"
    /\ reader' = [reader EXCEPT !.after = reader.answer.latest, !.got = <<>>,
                                !.state = {reader.answer.snapshot}, !.answer = NoAnswer]
    /\ UNCHANGED <<method, sess, run, rows, time, epoch>>

\* The owner changed, the frame was lost or the client went away: it asks again.
AnswerLost ==
    /\ reader.answer # NoAnswer
    /\ reader' = [reader EXCEPT !.answer = NoAnswer]
    /\ UNCHANGED <<method, sess, run, rows, time, epoch>>

Next ==
    \/ \E s \in DOMAIN sess, b \in Bytes : AppendItem(s, b)
    \/ \E s \in DOMAIN sess : \E f \in 0..Latest(s) : Fork(s, f)
    \/ \E b \in RowBytes : ClaimInvocation(b)
    \/ \E b \in RowBytes : PrepareInvocation(b)
    \/ \E b \in RowBytes, n \in 1..2 : CompleteInvocation(b, n)
    \/ Activate
    \/ Seal
    \/ AwaitInput
    \/ Answered
    \/ FenceWorker
    \/ QuarantineWorker
    \/ \E user \in BOOLEAN : RequestStop(user)
    \/ CommitStop
    \/ Prune
    \/ Tick
    \/ OwnerChanges
    \/ \E s \in DOMAIN sess : readControl(s)
    \/ Answer
    \/ AnswerExpired
    \/ AnswerLost

Spec == Init /\ [][Next]_vars

-----------------------------------------------------------------------------
\* What a session logically holds: the items of its parent up to the fork, then its own.
Logical ==
    LET of[s \in 0..Len(sess)] ==
            IF s = 0 THEN <<>>
            ELSE SubSeq(of[sess[s].parent], 1, sess[s].fork)
                     \o [k \in DOMAIN sess[s].own |-> <<s, sess[s].fork + k>>]
    IN  of

\* The pages a client put together are the beginning of the stream, without a gap
\* or a repetition, whatever was written, forked, pruned or lost between them.  The
\* only checkpoint it can miss was written, with a smaller identifier, in the
\* millisecond of one it received.
PagesAreTheStream ==
    IF method = "session.get" /\ reader.of # 0 THEN
             /\ reader.after <= Len(Logical[reader.of])
             /\ reader.got = SubSeq(Logical[reader.of], 1, reader.after)
    ELSE IF method = "run.get" THEN
             /\ reader.got = [k \in 1..reader.after |-> k]
             /\ \A x \in rows.points :
                    reader.point # <<>> /\ Before(x, reader.point) /\ x \notin reader.points
                        => \E y \in reader.points : y[1] = x[1] /\ Before(x, y)
    ELSE IF method = "run.attach" THEN
             reader.got = SubSeq(rows.events, reader.after - Len(reader.got) + 1, reader.after)
    ELSE TRUE

\* A client that has followed every event, or took a snapshot where they had been
\* pruned, knows the state the run is in.
FollowerKnowsTheRun ==
    method = "run.attach" /\ reader.state # {} /\ reader.after = Len(rows.events)
        => reader.state = {run}

\* A read never finds what the reducers wrote corrupt nor a client's own cursor
\* invalid, and a page short of its high water holds something: paging ends.
ReadsSucceed ==
    LET a == reader.answer
    IN  /\ a.code \notin {"corrupt", "invalid"}
        /\ a.code = "ok" /\ a.next < a.high => a.page # <<>>
        /\ a.code = "ok" /\ method = "run.get" /\ a.next = a.high /\ a.page = <<>> =>
               \/ a.journal = a.highJournal /\ a.point = a.highPoint
               \/ a.journal > reader.journal \/ a.points # {}
=============================================================================
