------------------------------ MODULE MCState ------------------------------
(* The components around the state directory that share no variable with each   *)
(* other, side by side: the initial state chooses the one that runs.  The run   *)
(* kernel stays in its initial state when it does not run.                      *)
EXTENDS RecoveryClosure, TLC

CONSTANTS
    Parts,  \* the components of this run
    p1, p2, q1, q2, ap3

VARIABLES
    part,  \* the component that runs, and its variables as its instance names them
    v1, v2, v3, v4, v5, v6, v7, v8, v9, v10, v11, v12, v13, v14

\* A model turn that asks for a read and an edit.
MCKinds == <<"model", "read", "edit">>
MCCeiling == [modelTokens |-> 1, toolCalls |-> 2]

\* Retries of one key under two request ids, the same key with another intent,
\* another key that reuses an id, and the same ids and key under another method.
ReqOf(i, m, k, n, f) ==
    [id |-> i, method |-> m, key |-> k, intent |-> n, ws |-> "w", form |-> f]
ARequest ==
    {ReqOf("i1", "run.submit", "a", "x", "supported"), ReqOf("i2", "run.submit", "a", "x", "supported"),
     ReqOf("i3", "run.submit", "a", "z", "other"), ReqOf("i3", "run.submit", "a", "z", "malformed"),
     ReqOf("i1", "run.submit", "b", "y", "supported"), ReqOf("i1", "session.create", "a", "x", "supported"),
     ReqOf("i2", "session.create", "a", "x", "supported"), ReqOf("i2", "session.create", "a", "z", "supported")}

\* Every disposition comes first and comes after another one.
WBatches == {<<"input", "ask">>, <<"ask", "deny">>, <<"allow", "input">>}

\* Two publications agree on the kind of the content, the third does not.
AKindOf == (p1 :> "k") @@ (p2 :> "k") @@ (ap3 :> "l")

A == INSTANCE Admission WITH
    control <- v1, admitted <- v2, source <- v3, staging <- v4, owner <- v5, h <- v6,
    tasks <- v7, answers <- v8, calls <- v9, faults <- v10, Request <- ARequest,
    Handler <- {p1, p2}, Capacity <- 1, MaxCall <- 3, MaxEpoch <- 2, MaxFault <- 1

W == INSTANCE RunWaits WITH
    batch <- v1, run <- v2, items <- v3, journal <- v4, cps <- v5, control <- v6,
    now <- v7, fence <- v8, call <- v9, Batches <- WBatches, Handler <- {p1, p2},
    RequestId <- {q1, q2}, Deadline <- 2, Ttl <- 1, MaxTime <- 2, MaxRenewal <- 1

K == INSTANCE WorkerScope WITH
    epoch <- v1, row <- v2, ctl <- v3, pend <- v4, js <- v5, seen <- v6, witness <- v7,
    cg <- v8, mem <- v9, proc <- v10, killed <- v11, receipt <- v12, wrote <- v13,
    faults <- v14, Inv <- {"i1"}, MaxCtl <- 2, MaxEpoch <- 2, MaxFault <- 1,
    None <- None

T == INSTANCE ArtifactStore WITH
    dir <- v1, synced <- v2, inode <- v3, pub <- v4, row <- v5, conn <- v6, lost <- v7,
    faults <- v8, Pub <- {p1, p2, ap3}, KindOf <- AKindOf, Chunks <- 1, MaxAttempt <- 2,
    MaxFault <- 1

\* The variables from the n-th on are not used.
Unused11 == v11 = 0 /\ v12 = 0 /\ v13 = 0 /\ v14 = 0
unused11 == <<v11, v12, v13, v14>>
Unused10 == v10 = 0 /\ Unused11
unused10 == <<v10, unused11>>
Unused9 == v9 = 0 /\ Unused10
unused9 == <<v9, unused10>>
Unused1 == v1 = 0 /\ v2 = 0 /\ v3 = 0 /\ v4 = 0 /\ v5 = 0 /\ v6 = 0 /\ v7 = 0 /\ v8 = 0 /\ Unused9
unused1 == <<v1, v2, v3, v4, v5, v6, v7, v8, unused9>>

PartsInit ==
    /\ part \in Parts
    /\ Init
    /\ \/ part = "kernel" /\ Unused1
       \/ part = "admission" /\ A!Init /\ Unused11
       \/ part = "waits" /\ W!Init /\ Unused10
       \/ part = "scope" /\ K!Init
       \/ part = "artifact" /\ T!Init /\ Unused9

PartsNext ==
    \/ part = "kernel" /\ Next /\ UNCHANGED <<part, unused1>>
    \/ part = "admission" /\ A!Next /\ UNCHANGED <<part, vars, unused11>>
    \/ part = "waits" /\ W!Next /\ UNCHANGED <<part, vars, unused10>>
    \/ part = "scope" /\ K!Next /\ UNCHANGED <<part, vars>>
    \/ part = "artifact" /\ T!Next /\ UNCHANGED <<part, vars, unused9>>

partsVars == <<part, vars, unused1>>
PartsSpec == PartsInit /\ [][PartsNext]_partsVars

Symmetry ==
    Permutations({p1, p2})
    \cup Permutations({q1, q2})


\* Admission: every answer to a key and intent names the same run or session, an
\* admitted run has the source that was captured for it, and a capture in flight
\* belongs to the living owner.
AdmissionAgrees ==
    part = "admission" => A!AdmissionAgrees

\* RunWaits: the rows a process finds when it reopens a run between any two steps
\* of a batch (input, approval, stop, deadline, renewal) are a cut it can resume.
WaitsReopen == part = "waits" => W!CutReopens

\* WorkerScope: what a stop or retirement receipt says is so, and a scope that was
\* reported stopped has no living process; only a claimed invocation of the current
\* owner writes, and a process is released only under the controller that bore it.
WorkersAreConfined ==
    /\ [](part = "scope" => K!ReceiptsAreTrue /\ K!StoppedIsDead)
    /\ [][part = "scope" => K!WritesAreClaimed /\ K!ReleasedUnderParent]_partsVars

\* ArtifactStore: the name of a content names all of it and what a row declares
\* is found again, across deaths at any system call and a loss of power;
\* publications of one content never fail each other, and its declaration stays.
ContentIsWhole ==
    /\ [](part = "artifact" => T!NamedIsWhole /\ T!DeclaredIsDurable /\ T!FailureIsOwn)
    /\ [][part = "artifact" => T!DeclarationStays]_partsVars
=============================================================================
