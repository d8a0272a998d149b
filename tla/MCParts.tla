------------------------------ MODULE MCParts ------------------------------
(* The components that share no state and need no fairness, side by side: the  *)
(* initial state chooses the one that runs, and the others keep still.         *)
(* Every property says what its component keeps true.                          *)
EXTENDS SessionFiles, TLC

CONSTANTS
    Parts,  \* the components of this run
    x1, p1, p2, cp1, cp2, cp3, w1, w2, w3, rv1, op1, op2, ht1, hj1

VARIABLES
    part,  \* the component that runs, and its variables as its instance names them
    v1, v2, v3, v4, v5, v6, v7, v8, v9, v10, v11

\* Two writes that race for revision 1, a rotation of it, and a revocation.
CExpect == (w1 :> 0) @@ (w2 :> 1) @@ (w3 :> 1) @@ (rv1 :> 2)

\* One client that greets and mutates and then sends rubbish; one that never greets well.
TFrame(k, n) == [kind |-> k, len |-> n]
TScript == [c1 |-> <<TFrame("hello", 1), TFrame("mutate", 2), TFrame("malformed", 1)>>,
            c2 |-> <<TFrame("read", 1), TFrame("old_hello", 1)>>]

M == INSTANCE Compaction WITH
    recs <- v1, end <- v2, by <- v3, pick <- v4, turn <- v5, MaxRecs <- 6,
    Explicit <- {x1}, Size <- {1, 2}, KeepRecentTokens <- 3, MinNewTokens <- 2

C == INSTANCE CredentialAuthority WITH
    endpoint <- v1, facts <- v2, records <- v3, receipt <- v4, items <- v5, late <- v6,
    lock <- v7, proc <- v8, Proc <- {cp1, cp2, cp3}, Write <- {w1, w2, w3},
    Revoke <- {rv1}, Expect <- CExpect, MaxAttempt <- 2

O == INSTANCE StateOwner WITH
    disk <- v1, proc <- v2, wall <- v3, Proc <- {op1, op2}, MaxTime <- 2, MaxEpoch <- 3,
    MaxFault <- 2

T == INSTANCE ControlServer WITH
    entry <- v1, proc <- v2, conn <- v3, outstanding <- v4, reserved <- v5,
    applied <- v6, faults <- v7, Conn <- {"c1", "c2"}, Script <- TScript,
    FrameBytes <- 2, BufferBytes <- 4, MaxOutstanding <- 2, MaxConn <- 2,
    MaxPending <- 1, AnswerLen <- 1, MaxEpoch <- 2, MaxFault <- 1

N == INSTANCE Installation WITH
    disk <- v1, ins <- v2, profile <- v3, loaded <- v4, ready <- v5, socket <- v6,
    keeper <- v7, sup <- v8, client <- v9, commits <- v10, faults <- v11,
    Installer <- {p1, p2}, Client <- {p1, p2}, MaxInv <- 2, MaxFault <- 2

H == INSTANCE InstalledHandle WITH
    h <- v1, queue <- v2, op <- v3, tr <- v4, job <- v5, files <- v6, faults <- v7,
    Op <- {p1, p2}, Transport <- {ht1}, Job <- {hj1}, MaxRev <- 1, MaxFault <- 2

G == INSTANCE Generation WITH
    disk <- v1, tree <- v2, bad <- v3, mat <- v4, gen <- v5, op <- v6, worker <- v7,
    known <- v8, edits <- v9, faults <- v10, crashes <- v11, MaxEdit <- 1,
    MaxFault <- 1, MaxCrash <- 1

U == INSTANCE SourceCapture WITH
    kids <- v1, stamp <- v2, link <- v3, edits <- v4, walk <- v5, inv <- v6, cap <- v7,
    todo <- v8, mark <- v9, MaxEdit <- 2, MaxEntries <- 6

B == INSTANCE ProviderStream WITH
    wire <- v1, at <- v2, parser <- v3, events <- v4, error <- v5, obs <- v6,
    turn <- v7, MaxUnits <- 30, MaxTokens <- 1

R == INSTANCE ControlRead WITH
    method <- v1, sess <- v2, run <- v3, rows <- v4, time <- v5, epoch <- v6,
    reader <- v7, MaxSession <- 3, MaxItem <- 3, Bytes <- {1, 2}, PageBytes <- 3,
    Limit <- 2, MaxRevision <- 4, MaxJournal <- 2, Point <- {1, 2, 3}, MaxTime <- 1,
    MaxEpoch <- 2

K == INSTANCE ModelBroker WITH
    b <- v1, peer <- v2, sent <- v3, item <- v4, expired <- v5, Binding <- {p1, p2},
    NoBinding <- "none"

F == INSTANCE PlatformTask WITH
    t <- v1, busy <- v2, failed <- v3, env <- v4, late <- v5, store <- v6,
    Task <- {p1, p2}, MaxItem <- 2

\* The variables from the n-th on are not used.
Unused10 == v10 = 0 /\ v11 = 0
unused10 == <<v10, v11>>
Unused9 == v9 = 0 /\ Unused10
unused9 == <<v9, unused10>>
Unused8 == v8 = 0 /\ Unused9
unused8 == <<v8, unused9>>
Unused7 == v7 = 0 /\ Unused8
unused7 == <<v7, unused8>>
Unused6 == v6 = 0 /\ Unused7
unused6 == <<v6, unused7>>
Unused4 == v4 = 0 /\ v5 = 0 /\ Unused6
unused4 == <<v4, v5, unused6>>
Unused1 == v1 = 0 /\ v2 = 0 /\ v3 = 0 /\ Unused4
unused1 == <<v1, v2, v3, unused4>>

PartsInit ==
    /\ part \in Parts
    /\ Init /\ (part # "session" => legacy = "none")
    /\ \/ part = "session" /\ Unused1
       \/ part = "compact" /\ M!Init /\ Unused6
       \/ part = "credential" /\ C!Init /\ Unused9
       \/ part = "owner" /\ O!Init /\ Unused4
       \/ part = "control" /\ T!Init /\ Unused8
       \/ part = "install" /\ N!Init
       \/ part = "handle" /\ H!Init /\ Unused8
       \/ part = "generation" /\ G!Init
       \/ part = "source" /\ U!Init /\ Unused10
       \/ part = "stream" /\ B!Init /\ Unused8
       \/ part = "read" /\ R!Init /\ Unused8
       \/ part = "broker" /\ K!Init /\ Unused6
       \/ part = "platform" /\ F!Init /\ Unused7

PartsNext ==
    \/ part = "compact" /\ M!Next /\ UNCHANGED <<part, vars, unused6>>
    \/ part = "session" /\ Next /\ UNCHANGED <<part, unused1>>
    \/ part = "credential" /\ C!Next /\ UNCHANGED <<part, vars, unused9>>
    \/ part = "owner" /\ O!Next /\ UNCHANGED <<part, vars, unused4>>
    \/ part = "control" /\ T!Next /\ UNCHANGED <<part, vars, unused8>>
    \/ part = "install" /\ N!Next /\ UNCHANGED <<part, vars>>
    \/ part = "handle" /\ H!Next /\ UNCHANGED <<part, vars, unused8>>
    \/ part = "generation" /\ G!Next /\ UNCHANGED <<part, vars>>
    \/ part = "source" /\ U!Next /\ UNCHANGED <<part, vars, unused10>>
    \/ part = "stream" /\ B!Next /\ UNCHANGED <<part, vars, unused8>>
    \/ part = "read" /\ R!Next /\ UNCHANGED <<part, vars, unused8>>
    \/ part = "broker" /\ K!Next /\ UNCHANGED <<part, vars, unused6>>
    \/ part = "platform" /\ F!Next /\ UNCHANGED <<part, vars, unused7>>

partsVars == <<part, vars, unused1>>
PartsSpec == PartsInit /\ [][PartsNext]_partsVars

Symmetry ==
    Permutations({p1, p2})

\* What Compaction asks of its constants.
ASSUME CompactAssumption == M!CompactionConstants

\* Compaction: an automatic cut separates no tool result from its call, leaves
\* every explicit transaction on one side and keeps the recent tokens.
\* ProviderStream: a turn compiled from a response, wherever that was cut off, is
\* what the provider said; its calls are distinct; a whole response is never lost;
\* and the events told on the way add up to it.
CutsAreWhole ==
    /\ part = "compact" => M!CallsStayWhole /\ M!TxStaysWhole /\ M!KeepsRecent
    /\ part = "stream" => B!TurnIsMeant /\ B!CallsAreDistinct /\ B!WholeIsKept /\ B!EventsAgree

\* CredentialAuthority: the active authority's secret is in the service, every
\* secret there is known, one attempt is open, and a complete cleanup is one; the
\* history of a grant grows by one generation at a time, under a registered
\* endpoint, and ends with its revocation.
\* PlatformTask: a call of the secret service is answered and joined only when its
\* worker, watchdog, timer and copy of the secret are gone, and answers what it did.
\* ModelBroker: a transport that says it released nothing has shown the provider
\* nothing, its answers come after the key is wiped, and no guard outlives it.
SecretsAreKnown ==
    /\ [](/\ part = "credential" =>
                C!ActiveIsStored /\ C!NoUnknownItem /\ C!OnePending /\ C!CleanIsGone
          /\ part = "platform" => F!JoinedIsQuiet /\ F!OneTaskAtATime /\ F!AnswerIsTrue
          /\ part = "broker" =>
                K!NoReleaseIsTrue /\ K!AnsweredIsRetired /\ K!OneRequest /\ K!BorrowsAreAlive)
    /\ [][part = "credential" => C!HistoryIsTerminal]_partsVars

\* StateOwner: no living owner is superseded, no database is open without a lock
\* of its own, a genesis adopts nothing that was there, and the retained history
\* of every epoch can be read; operations are dated in the order they commit,
\* across clocks that go back and owners that die, and none commits during a
\* regression.
OneStateOwner ==
    /\ [](part = "owner" =>
            O!OwnerIsAlive /\ O!DatabaseIsLocked /\ O!BirthIsClean /\ O!HistoryIsReadable)
    /\ [][part = "owner" => O!DatedInOrder]_partsVars

\* ControlServer: the service's counters equal what its connections hold, answers
\* come in the order of the frames and tell what was committed, a close leaves
\* nothing, and a mutation commits only for a peer that is still there.
\* ControlRead: the pages of a stream put together are the stream while writers go
\* on, a follower of the events knows the run, and no read finds corrupt what the
\* writers wrote.
ControlIsExact ==
    /\ [](/\ part = "control" => T!CountersAreExact /\ T!AnswersAreOrdered /\ T!ClosedIsQuiet
          /\ part = "read" => R!PagesAreTheStream /\ R!FollowerKnowsTheRun /\ R!ReadsSucceed)
    /\ [][part = "control" => T!CommitsAreAuthentic]_partsVars

\* Installation: a selection that can be read is whole whichever installer died, a
\* supervisor holds its anchor longer than its store and that longer than its
\* service, serves only under a live keeper and never after a stop, and tells a
\* client its credential is final only if the supervisor the client saw did it.
\* InstalledHandle: nothing that reads the selected files outlives their
\* descriptors, and nothing succeeds on files that changed.
InstallIsContained ==
    /\ [](/\ part = "install" => N!SelectionIsWhole /\ N!HeldInOrder
          /\ part = "handle" => H!ScopeOutlivesUse /\ H!GuardsAreJoined)
    /\ [][/\ part = "install" => N!ServesContained /\ N!ClientIsSure
          /\ part = "handle" => H!SuccessIsCurrent]_partsVars

\* Generation: a recovery that is told nothing was allocated finds no directory, one
\* that is told the resources are retired finds no handle, a generation is minted
\* only over the whole frozen checkpoint, a stop leaves a birth that can be bound,
\* and a walk of the tree reads no torn file and ends with what is there.
\* SourceCapture: a projection that succeeds is the source as it was at one instant,
\* and holds nothing from below the controlled home and no link.
TreesAreExact ==
    /\ [](part = "generation" => G!UnallocatedIsAbsent /\ G!MintedIsFrozen /\ G!BirthIsBindable)
    /\ [](part = "source" => U!CaptureIsSnapshot /\ U!CaptureIsConfined)
    /\ [][part = "generation" => G!RetirementIsComplete /\ G!WalkIsCurrent /\ G!FilesAreWhole]_partsVars
=============================================================================
