--------------------------- MODULE ControlServer ---------------------------
(***************************************************************************)
(* The control socket of an installed supervisor: the native listener and  *)
(* its peers (native/state-owner/control-socket.c), the authenticated      *)
(* channel on top of them (state/control-channel.ts) and the bounded       *)
(* length-prefixed service (state/installed-control.ts).                   *)
(*                                                                         *)
(* A client writes frames, in order and without waiting for answers.  The  *)
(* service reserves the bytes of every body it holds, queues whole bodies, *)
(* answers one at a time per connection, and on close retires connections, *)
(* closes the listener and joins what still runs.  The first frame of a    *)
(* connection publishes the identity of its peer; an operation of the      *)
(* store goes through only while that identity is live.                    *)
(***************************************************************************)
EXTENDS Naturals, Sequences, FiniteSets, FiniteSetsExt

CONSTANTS
    Conn,             \* connections clients may make
    Script,           \* Script[c]: the frames of a connection, [kind, len]
    FrameBytes,       \* FRAME_BYTES, the largest body
    BufferBytes,      \* BUFFER_BYTES, all bodies the service may hold
    MaxOutstanding,   \* MAX_OUTSTANDING, frames queued or in work
    MaxConn,          \* connections the channel accepts
    MaxPending,       \* dispatches the channel has at a time
    AnswerLen,        \* the length of an answer
    MaxEpoch,         \* supervisor processes, one after another
    MaxFault

VARIABLES
    entry,        \* runtime/control-v1.sock: 0, or the socket it names
    proc,         \* the supervisor: epoch, its listener, the service's flags
    conn,         \* the connections
    outstanding, reserved,
    applied,      \* mutations the store committed, <<connection, frame>>
    faults
vars == <<entry, proc, conn, outstanding, reserved, applied, faults>>

Kinds == {"hello", "old_hello", "read", "mutate", "unknown", "malformed"}
Foreign == 100    \* a socket of somebody else under our name

NoWork == [frame |-> 0, stage |-> "none", code |-> "none"]
Fresh == [st |-> "off", peer |-> TRUE, fin |-> FALSE, closed |-> FALSE, chan |-> "none",
          hand |-> FALSE, sent |-> 0, body |-> FALSE, queued |-> <<>>, work |-> NoWork, out |-> <<>>]

Down == [epoch |-> 0, up |-> FALSE, fd |-> 0, service |-> "none", stopped |-> FALSE,
         closing |-> FALSE, failed |-> FALSE]

Init ==
    /\ entry = 0
    /\ proc = Down
    /\ conn = [c \in Conn |-> Fresh]
    /\ outstanding = 0 /\ reserved = 0
    /\ applied = {}
    /\ faults = 0

LenOf(c, i) == Script[c][i].len
KindOf(c, i) == Script[c][i].kind
BytesOf(c, q) == MapThenSumSet(LAMBDA i : LenOf(c, q[i]), DOMAIN q)
Working == {c \in Conn : conn[c].work.frame # 0}
Accepted == {c \in Conn : conn[c].st # "off" /\ conn[c].st # "backlog" /\ conn[c].chan # "closed"}

-----------------------------------------------------------------------------
(* The native side *)

\* listener_is_held: the descriptor listens and the name is still its socket.
Held == proc.fd # 0 /\ entry = proc.fd
\* peer_is_held: the accepted socket is connected, under a listener that is held.
PeerHeld(c) == Held /\ conn[c].st = "open" /\ ~conn[c].fin
\* open_process_image: the process that connected still runs, with its image.
SameProcess(c) == conn[c].peer
\* observation_is_held
ObservationHeld(c) == PeerHeld(c) /\ SameProcess(c)
\* assertCurrent of a connection of the channel.
Current(c) == ~proc.closing /\ conn[c].chan \in {"publishing", "live"} /\ ObservationHeld(c)

\* remove_stale_socket: only a refused connection is evidence that nobody listens.
Removable == entry # Foreign

\* openInstalledControl, down to open_control_listener: an old socket goes, ours is
\* bound.  A refusal ends the process.
OpenService ==
    /\ proc.up /\ proc.service = "none"
    /\ IF Removable
       THEN /\ entry' = proc.epoch
            /\ proc' = [proc EXCEPT !.fd = proc.epoch, !.service = "open"]
       ELSE /\ proc' = [Down EXCEPT !.epoch = proc.epoch]
            /\ UNCHANGED entry
    /\ UNCHANGED <<conn, outstanding, reserved, applied, faults>>

\* close_listener: peers are shut down, and the name is removed if it is ours.
Unlinked == IF Held THEN 0 ELSE entry
Shut(k) == IF k.st \in {"backlog", "open"} THEN [k EXCEPT !.st = "gone"] ELSE k

\* accept_ready on a listener that lost its name: fail_listener.  The service
\* hears of it through its error reporter and goes on without a listener.
FailListener ==
    /\ proc.fd # 0 /\ ~Held
    /\ \E c \in Conn : conn[c].st = "backlog"
    /\ entry' = Unlinked
    /\ proc' = [proc EXCEPT !.fd = 0]
    /\ conn' = [c \in Conn |-> Shut(conn[c])]
    /\ UNCHANGED <<outstanding, reserved, applied, faults>>

Connect(c) ==
    /\ conn[c].st = "off" /\ entry # 0 /\ entry = proc.fd
    /\ conn' = [conn EXCEPT ![c].st = "backlog"]
    /\ UNCHANGED <<entry, proc, outstanding, reserved, applied, faults>>

\* accept_ready, create_peer and the channel's accept: a peer that is gone or one
\* connection too many is closed, and so is every one after a failed retirement.
Accept(c) ==
    /\ conn[c].st = "backlog" /\ Held
    /\ LET ok == /\ conn[c].peer /\ ~conn[c].fin
                 /\ ~proc.closing /\ Cardinality(Accepted) < MaxConn
                 /\ ~proc.stopped
       IN conn' = [conn EXCEPT ![c].st = IF ok THEN "open" ELSE "gone",
                               ![c].closed = ~ok,
                               ![c].chan = IF ok THEN @ ELSE "closed"]
    /\ UNCHANGED <<entry, proc, outstanding, reserved, applied, faults>>

-----------------------------------------------------------------------------
(* The service *)

\* retire: what the connection holds and has queued is given back; the frame in
\* work gives its own part back when it ends.
Retired(c) ==
    BytesOf(c, conn[c].queued) +
        (IF conn[c].body THEN LenOf(c, conn[c].sent + 1) ELSE 0)
Closed(k) == [k EXCEPT !.st = IF @ = "off" THEN "off" ELSE "gone", !.closed = TRUE,
                       !.chan = "closed", !.body = FALSE, !.queued = <<>>]

Retire(c, k) ==
    IF k.closed
    THEN /\ conn' = [conn EXCEPT ![c] = k]
         /\ UNCHANGED <<outstanding, reserved>>
    ELSE /\ conn' = [conn EXCEPT ![c] = Closed(k)]
         /\ outstanding' = outstanding - Len(k.queued)
         /\ reserved' = reserved - Retired(c)

\* The data event: a header reserves its body, a body joins the queue; a bound
\* that is passed costs the connection.
Receiving(c) ==
    /\ conn[c].st = "open" /\ ~conn[c].fin /\ ~proc.stopped /\ ~conn[c].closed
    /\ conn[c].sent < Len(Script[c])

ReceiveHeader(c) ==
    /\ Receiving(c) /\ ~conn[c].body
    /\ LET len == LenOf(c, conn[c].sent + 1)
       IN IF len < 1 \/ len > FrameBytes \/ reserved + len > BufferBytes
          THEN Retire(c, conn[c])
          ELSE /\ conn' = [conn EXCEPT ![c].body = TRUE]
               /\ reserved' = reserved + len
               /\ UNCHANGED outstanding
    /\ UNCHANGED <<entry, proc, applied, faults>>

ReceiveBody(c) ==
    /\ Receiving(c) /\ conn[c].body
    /\ IF outstanding >= MaxOutstanding
       THEN Retire(c, conn[c])
       ELSE /\ conn' = [conn EXCEPT ![c].body = FALSE, ![c].sent = @ + 1,
                                    ![c].queued = Append(@, conn[c].sent + 1)]
            /\ outstanding' = outstanding + 1
            /\ UNCHANGED reserved
    /\ UNCHANGED <<entry, proc, applied, faults>>

\* The finally clause of the loop: the frame's bytes and its place are free.
Finish(c, k, answer) ==
    /\ conn' = [conn EXCEPT ![c] = [k EXCEPT !.work = NoWork]]
    /\ reserved' = reserved - LenOf(c, k.work.frame) - answer
    /\ outstanding' = outstanding - 1
\* A throw out of respond: the connection is retired, then the frame is free.
Throw(c, k, answer) ==
    IF k.closed THEN Finish(c, k, answer)
    ELSE /\ conn' = [conn EXCEPT ![c] = [Closed(k) EXCEPT !.work = NoWork]]
         /\ reserved' = reserved - Retired(c) - LenOf(c, k.work.frame) - answer
         /\ outstanding' = outstanding - Len(k.queued) - 1

\* capture_peer: the first frame observes the peer and its image.
Captured(k) == [k EXCEPT !.work.stage = "publish", !.chan = "publishing"]

\* The next round of the loop: respond parses the frame and hands it to dispatch.
\* The first frame captures the peer and publishes its identity.
Take(c) ==
    /\ conn[c].work.frame = 0 /\ conn[c].queued # <<>>
    /\ ~proc.stopped /\ ~conn[c].closed
    /\ LET f == Head(conn[c].queued)
           taken == [conn[c] EXCEPT !.queued = Tail(@), !.work.frame = f]
           known == conn[c].chan \in {"publishing", "live"}
       IN IF /\ KindOf(c, f) # "malformed"
             /\ Cardinality(Working) < MaxPending
             /\ ~proc.closing /\ ObservationHeld(c)
          THEN /\ conn' = [conn EXCEPT ![c] =
                    IF known THEN [taken EXCEPT !.work.stage = "run"] ELSE Captured(taken)]
               /\ UNCHANGED <<outstanding, reserved>>
          ELSE \* the bytes of the frame taken are still counted with the queue
               /\ conn' = [conn EXCEPT ![c] = Closed(conn[c])]
               /\ outstanding' = outstanding - Len(conn[c].queued)
               /\ reserved' = reserved - Retired(c)
    /\ UNCHANGED <<entry, proc, applied, faults>>

\* publish: the image is hashed and four artifacts are written, any of which may
\* fail; the peer must still be the one that was captured.
Publish(c) ==
    /\ conn[c].work.stage = "publish"
    /\ \/ /\ Current(c)
          /\ conn' = [conn EXCEPT ![c].chan = "live", ![c].work.stage = "run"]
          /\ UNCHANGED <<outstanding, reserved, faults>>
       \/ /\ ~Current(c)
          /\ Throw(c, conn[c], 0)
          /\ UNCHANGED faults
       \/ /\ faults < MaxFault
          /\ faults' = faults + 1
          /\ Throw(c, conn[c], 0)
    /\ UNCHANGED <<entry, proc, applied>>

\* Whether the frame may reach the store: its channel is live and current.
\* Mutant: the identity found at the start of the frame is trusted.
Authentic_Early(c) == TRUE
Authentic(c) == conn[c].chan = "live" /\ Current(c)

\* What an operation answers at its last cut in the store.
Codes(c, kind) ==
    IF kind = "unknown" THEN {"INVALID_REQUEST"}
    ELSE IF kind \in {"read", "mutate"} /\ ~conn[c].hand THEN {"AUTHORIZATION_REQUIRED"}
    ELSE IF ~Authentic(c) THEN {"ARTIFACT_MISMATCH"}
    ELSE IF kind = "old_hello" THEN {"INCOMPATIBLE_PROTOCOL"}
    ELSE IF kind = "mutate" THEN {"ok", "REVISION_CONFLICT"}
    ELSE {"ok"}

Answer(c, code) == [conn[c] EXCEPT !.work.stage = "answer", !.work.code = code]

Operate(c) ==
    /\ conn[c].work.stage = "run"
    /\ LET f == conn[c].work.frame
           kind == KindOf(c, f)
       IN \E code \in Codes(c, kind) :
            /\ conn' = [conn EXCEPT ![c] =
                    [Answer(c, code) EXCEPT !.hand = @ \/ (kind = "hello" /\ code = "ok")]]
            /\ applied' = applied \cup
                    (IF kind = "mutate" /\ code = "ok" THEN {<<c, f>>} ELSE {})
    /\ UNCHANGED <<entry, proc, outstanding, reserved, faults>>

\* errorResult of a ResourceRetirementError: nothing more is taken or answered,
\* and no service opens in this process again.
OperateUncertain(c) ==
    /\ conn[c].work.stage = "run" /\ faults < MaxFault
    /\ faults' = faults + 1
    /\ conn' = [conn EXCEPT ![c] = Answer(c, "INTERNAL")]
    /\ proc' = [proc EXCEPT !.failed = TRUE, !.stopped = TRUE]
    /\ UNCHANGED <<entry, outstanding, reserved, applied>>

\* The end of respond: no answer after a failed retirement or on a connection that
\* is closed; else the answer's bytes are reserved while it is written.
Respond(c) ==
    /\ conn[c].work.stage = "answer"
    /\ IF proc.failed THEN Throw(c, conn[c], 0)
       ELSE IF conn[c].closed \/ proc.stopped THEN Finish(c, conn[c], 0)
       ELSE IF AnswerLen > FrameBytes \/ reserved + AnswerLen > BufferBytes
            THEN Throw(c, conn[c], 0)
       ELSE /\ conn' = [conn EXCEPT ![c].work.stage = "write"]
            /\ reserved' = reserved + AnswerLen
            /\ UNCHANGED outstanding
    /\ UNCHANGED <<entry, proc, applied, faults>>

\* Both writes are joined: they succeed, or fail on a socket that is gone.
Written(c) ==
    /\ conn[c].work.stage = "write"
    /\ IF conn[c].st = "open" /\ ~conn[c].fin /\ ~conn[c].closed
       THEN Finish(c, [conn[c] EXCEPT !.out = Append(@, conn[c].work)], AnswerLen)
       ELSE Throw(c, conn[c], AnswerLen)
    /\ UNCHANGED <<entry, proc, applied, faults>>

\* The close event of the socket, for both layers.  The native retirement of the
\* observation may fail: the socket is destroyed all the same and the service stops.
SocketCloses(c) ==
    /\ ~conn[c].closed
    /\ conn[c].st = "gone" \/ (conn[c].st = "open" /\ conn[c].fin)
    /\ Retire(c, conn[c])
    /\ \/ UNCHANGED <<proc, faults>>
       \/ /\ faults < MaxFault
          /\ faults' = faults + 1
          /\ proc' = [proc EXCEPT !.failed = TRUE, !.stopped = TRUE]
    /\ UNCHANGED <<entry, applied>>

\* close of the service: nothing is taken any more, every connection is retired,
\* and the listener closes in the same turn of the event loop.
Close ==
    /\ proc.up /\ proc.service = "open"
    /\ entry' = Unlinked
    /\ proc' = [proc EXCEPT !.service = "closing", !.stopped = TRUE, !.closing = TRUE, !.fd = 0]
    /\ conn' = [c \in Conn |-> IF conn[c].st \in {"off", "backlog"} THEN Shut(conn[c])
                               ELSE Closed(conn[c])]
    /\ outstanding' = Cardinality(Working)
    /\ reserved' = reserved - MapThenSumSet(LAMBDA c : IF conn[c].closed THEN 0 ELSE Retired(c), Conn)
    /\ UNCHANGED <<applied, faults>>

\* What close waits for: the loops and the dispatches that still run.
Joined == Working = {}

Drained ==
    /\ proc.service = "closing" /\ Joined
    /\ proc' = [proc EXCEPT !.service = IF proc.failed THEN "uncertain" ELSE "closed"]
    /\ UNCHANGED <<entry, conn, outstanding, reserved, applied, faults>>

-----------------------------------------------------------------------------
(* What happens around the service *)

Lost(k) == [Closed(k) EXCEPT !.work = NoWork]
\* The process dies, or ends after its close: its sockets go, the name stays.
Exit ==
    /\ proc.up
    /\ proc.service \in {"closed", "uncertain"} \/ faults < MaxFault
    /\ faults' = IF proc.service \in {"closed", "uncertain"} THEN faults ELSE faults + 1
    /\ proc' = [Down EXCEPT !.epoch = proc.epoch]
    /\ conn' = [c \in Conn |-> IF conn[c].st = "off" THEN conn[c] ELSE Lost(conn[c])]
    /\ outstanding' = 0 /\ reserved' = 0
    /\ UNCHANGED <<entry, applied>>

Start ==
    /\ ~proc.up /\ proc.epoch < MaxEpoch
    /\ proc' = [Down EXCEPT !.epoch = proc.epoch + 1, !.up = TRUE]
    /\ UNCHANGED <<entry, conn, outstanding, reserved, applied, faults>>

\* Somebody removes our name or puts another socket there.
Replace ==
    /\ faults < MaxFault /\ faults' = faults + 1
    /\ entry' \in {0, Foreign} \ {entry}
    /\ UNCHANGED <<proc, conn, outstanding, reserved, applied>>

ClientCloses(c) ==
    /\ conn[c].st \in {"backlog", "open"} /\ ~conn[c].fin
    /\ conn' = [conn EXCEPT ![c].fin = TRUE]
    /\ UNCHANGED <<entry, proc, outstanding, reserved, applied, faults>>

\* The client's process ends but its descriptor lives on in another one.
PeerDies(c) ==
    /\ conn[c].st \in {"backlog", "open"} /\ conn[c].peer
    /\ conn' = [conn EXCEPT ![c].peer = FALSE]
    /\ UNCHANGED <<entry, proc, outstanding, reserved, applied, faults>>

Next ==
    \/ OpenService \/ FailListener \/ Close \/ Drained \/ Exit \/ Start \/ Replace
    \/ \E c \in Conn :
        \/ Connect(c) \/ Accept(c) \/ ReceiveHeader(c) \/ ReceiveBody(c) \/ Take(c)
        \/ Publish(c) \/ Operate(c) \/ OperateUncertain(c) \/ Respond(c) \/ Written(c)
        \/ SocketCloses(c) \/ ClientCloses(c) \/ PeerDies(c)

Spec == Init /\ [][Next]_vars

-----------------------------------------------------------------------------
(* Properties *)

HeldBytes(c) ==
    BytesOf(c, conn[c].queued)
        + (IF conn[c].body THEN LenOf(c, conn[c].sent + 1) ELSE 0)
        + (IF conn[c].work.frame # 0 THEN LenOf(c, conn[c].work.frame) ELSE 0)
        + (IF conn[c].work.stage = "write" THEN AnswerLen ELSE 0)
Holds(c) == Len(conn[c].queued) + (IF conn[c].work.frame # 0 THEN 1 ELSE 0)

\* The service's two counters equal what its connections hold, and stay in their
\* bounds, whichever connection is retired in the middle of a frame, an operation
\* or a write.
CountersAreExact ==
    /\ reserved = MapThenSumSet(HeldBytes, Conn) /\ reserved <= BufferBytes
    /\ outstanding = MapThenSumSet(Holds, Conn) /\ outstanding <= MaxOutstanding

\* A connection's answers are the answers to its first frames, in their order;
\* an answered mutation was committed, and none was committed before a greeting
\* that was answered or is being answered.
AnswersAreOrdered ==
    \A c \in Conn :
        /\ \A i \in DOMAIN conn[c].out :
            /\ conn[c].out[i].frame = i
            /\ (KindOf(c, i) = "mutate" /\ conn[c].out[i].code = "ok") => <<c, i>> \in applied
        /\ \A i \in DOMAIN Script[c] :
            <<c, i>> \in applied => \E j \in 1 .. i - 1 : KindOf(c, j) = "hello"

\* A close that succeeded left nothing behind: no frame in work, no reservation,
\* no channel that could authenticate, no socket of ours under the name.
ClosedIsQuiet ==
    proc.service = "closed" =>
        /\ Working = {} /\ outstanding = 0 /\ reserved = 0
        /\ \A c \in Conn : conn[c].chan \notin {"publishing", "live"}
        /\ proc.fd = 0 /\ entry # proc.epoch

\* A mutation is committed only for a peer that is still connected to the process
\* that serves it; the service removes no socket but its own or a dead one.
CommitsAreAuthentic ==
    /\ \A c \in Conn : \A i \in DOMAIN Script[c] :
        <<c, i>> \in applied' \ applied =>
            conn[c].peer /\ ~conn[c].fin /\ entry = proc.epoch /\ proc.service = "open"
    /\ entry = Foreign => entry' = Foreign \/ faults' # faults
=============================================================================
