-------------------------- MODULE RecoveryClosure --------------------------
(***************************************************************************)
(* What a supervisor demands of the retained rows of a Run before it does  *)
(* anything with them (src/src/state/recovery-closure.ts and the validators *)
(* it calls).  The reducers of RunKernel write the rows one at a time; the *)
(* validators were written by the readers.  RecoveryAccepts says that the  *)
(* two agree.                                                              *)
(*                                                                         *)
(* The digests, times and artifacts that bind the rows to each other are   *)
(* the fields of RunKernel's records; a row names a generation or a launch *)
(* by its identity.                                                        *)
(***************************************************************************)
EXTENDS RunKernel

Claimed(a) == att[a[1]][a[2]].claimed
Unretired == {l \in Launch : Live(l)}
Retired == {l \in Launch : launch[l].phase = "retired"}
\* retirementKind = 'preparation': the launch never got its execution fields.
PreparationRetired(l) == l \in Retired /\ launch[l].write = "none"
Of(g) == {l \in Launch : launch[l].gen = g}
Born == {g \in Gen : gen[g].phase # "none"}

-----------------------------------------------------------------------------
(* The journal.                                                            *)

\* The phases of an attempt: prepared, then failed, or claimed and then an
\* outcome; the next attempt comes after the outcome of the last one.
validateJournalGraph ==
    \A a \in Attempts :
        /\ IF Claimed(a) THEN Phase(a) # "prepared"
                         ELSE Phase(a) \in {"prepared", "failed"}
        /\ att[a[1]][a[2]].released => Claimed(a)
        /\ a[2] < Len(att[a[1]]) => Phase(a) \in {"failed", "unknown"}

\* An attempt that is not settled keeps its reservation.  A settled one was
\* charged by its first outcome, so a rolled back edit stays charged.
Charges(a) == \/ Phase(a) \in {"completed", "unknown", "abandoned"}
              \/ Phase(a) = "failed" /\ Kinds[a[1]] = "edit" /\ Claimed(a)
Units(c, As) == Cardinality({a \in As : Counter(a[1]) = c})
validateJournalArtifactsAndBudgets ==
    \A c \in DOMAIN Ceiling :
        /\ run.reserved[c] = Units(c, {a \in Attempts : Phase(a) \in {"prepared", "dispatch_claimed"}})
        /\ run.consumed[c] = Units(c, {a \in Attempts : Charges(a)})

-----------------------------------------------------------------------------
(* Launches and generations.                                               *)

\* A preparation that never got its directory has nothing to show.
validateUnallocatedPreparation(l) == launch[l].gen = None /\ launch[l].prep = "intent"
\* The generation of a retired preparation is retired with it.
validateWorkerPreparationRetirement(l) ==
    \/ validateUnallocatedPreparation(l)
    \/ launch[l].gen # None /\ gen[launch[l].gen].phase = "retired"

validateWorkerPreparationHistory ==
    \A l \in Launch :
        /\ launch[l].phase = "preparing" =>
             /\ launch[l].owner = owner /\ launch[l].fresh
             /\ run.status = "queued" /\ run.active = None
             /\ launch[l].gen # None => gen[launch[l].gen].phase \in Unlaunched
        /\ launch[l].prep = "controller" => launch[l].gen # None
        /\ PreparationRetired(l) => validateWorkerPreparationRetirement(l)

\* Every seal has its one retired worker, and every sealed worker its seal.
validateRetainedWorkerSeal ==
    LET sealed == {l \in Retired : launch[l].write = "sealed"} IN
    /\ \A g \in Gen : gen[g].phase = "sealed" =>
         Cardinality(Of(g) \cap sealed) = 1 /\ \A l \in Of(g) : launch[l].epoch > 0
    /\ \A l \in sealed : gen[launch[l].gen].phase = "sealed"

\* No Run and no living launch points at a retired generation.
assertClosedGenerationPointers ==
    \A g \in Gen : gen[g].phase = "retired" =>
        Of(g) \cap Unretired = {} /\ (run.active # None => launch[run.active].gen # g)

\* A retired generation was quarantined before, by a launch that is retired.
readRetiredGenerationSource ==
    \A g \in Gen : gen[g].phase = "retired" =>
        \E l \in Of(g) \cap Retired :
            \/ PreparationRetired(l)
            \/ launch[l].write \in {"preactivated_readonly", "fenced_reconciling"}

\* A quarantine keeps the launch it comes from: one that died or was given up
\* before its activation, or one that was fenced.
validatePreactivationQuarantine(l) ==
    launch[l].write = "preactivated_readonly" /\ launch[l].epoch = 0
validateRetainedWorkerQuarantines ==
    \A g \in Gen : gen[g].phase = "quarantined" =>
        \E l \in Of(g) \cap Retired :
            \/ validatePreactivationQuarantine(l)
            \/ launch[l].write = "fenced_reconciling" /\ launch[l].epoch > 0

validateLaunchGraph ==
    /\ \A l \in Unretired : launch[l].phase # "preparing" =>
        LET g == launch[l].gen IN
        /\ g \in Born
        /\ launch[l].phase = "activated" =>
             /\ gen[g].phase \in Writable /\ gen[g].phase = launch[l].write
             /\ gen[g].launch = l /\ gen[g].epoch = launch[l].epoch
        /\ launch[l].phase = "reconciling" => gen[g].phase = "fenced_reconciling"
    /\ IF run.status = "running"
       THEN /\ run.active # None /\ launch[run.active].phase = "activated"
            /\ launch[run.active].epoch = run.epoch
       ELSE run.active = None

-----------------------------------------------------------------------------
(* A lost worker, and the end of the Run.                                  *)

\* The inspections of one wait are counted, and the last of them ends it.
validateWorkerProbeState ==
    \/ probe.phase = "pending" /\ probe.count < ProbeLimit
    \/ probe.phase = "in_flight" /\ probe.count > 0 /\ probe.owner \in 1 .. owner
    \/ probe.phase = "exhausted" /\ probe.count = ProbeLimit

\* A wait, one launch that is being reconciled and one fenced generation go
\* together; the fence leaves no live worker beside it.
validateWorkerRecoveryWait ==
    LET reconciling == {l \in Launch : Fenced(l)}
        fenced == {g \in Gen : gen[g].phase = "fenced_reconciling"}
    IN \/ run.status # "waiting" /\ reconciling = {} /\ fenced = {}
       \/ /\ run.status = "waiting" /\ run.active = None
          /\ Cardinality(reconciling) = 1 /\ Cardinality(fenced) = 1 /\ Unretired = reconciling
          /\ \A l \in reconciling, g \in fenced :
               /\ launch[l].epoch = run.epoch /\ launch[l].write = "fenced_reconciling"
               /\ launch[l].gen = g /\ gen[g].launch = l /\ gen[g].epoch = launch[l].epoch
          /\ validateWorkerProbeState

\* A claimed model call that failed was never released and cost nothing.
validateInstalledModelNoReleaseHistory ==
    \A a \in Attempts : Kinds[a[1]] = "model" /\ Phase(a) = "failed" /\ Claimed(a) =>
        ~att[a[1]][a[2]].released

\* A rolled back edit lost its generation.
validatePrivateToolRollbackHistory ==
    \A a \in Attempts : Kinds[a[1]] = "edit" /\ Phase(a) = "failed" /\ Claimed(a) =>
        \E g \in Gen : gen[g].phase = "retired" /\ gen[g].epoch = att[a[1]][a[2]].epoch

\* A model call of unknown outcome had its original claim, and an ended Run
\* leaves it to a claimant that is dead.
validateInstalledBrokerAmbiguityHistory == \A a \in Attempts : ModelUnknown(a) => Claimed(a)
validateInstalledBrokerTerminalHistory ==
    run.status \in Terminal => \A a \in Attempts : ModelUnknown(a) => ClaimantDead(a)

\* Every worker of an ended Run left a sealed or a retired generation.
assertRetiredGenerationCut ==
    \A l \in Retired : launch[l].gen # None =>
        \/ gen[launch[l].gen].phase = "retired"
        \/ gen[launch[l].gen].phase = "sealed" /\ launch[l].write = "sealed"

\* The stop intent decides the status; what is left of the journal is resolved.
validateStopRecovery ==
    /\ run.stop \in {"budget", "runtime"} => run.status # "waiting" /\ SettledHistory
    /\ run.status \in Terminal =>
        /\ run.stop # None /\ run.status = Target(run.stop) /\ run.active = None
        /\ \A c \in DOMAIN Ceiling : run.reserved[c] = 0
        /\ Unretired = {} /\ \A g \in Born : gen[g].phase \in {"sealed", "retired"}
        /\ assertRetiredGenerationCut
        /\ \A a \in Attempts : Phase(a) \in {"completed", "failed"} \/ ModelUnknown(a)

readRecoveryClosure ==
    /\ validateWorkerPreparationHistory
    /\ validateJournalGraph /\ validateJournalArtifactsAndBudgets
    /\ assertClosedGenerationPointers /\ readRetiredGenerationSource
    /\ validateRetainedWorkerSeal /\ validateLaunchGraph
    /\ validateRetainedWorkerQuarantines /\ validateWorkerRecoveryWait
    /\ validateInstalledModelNoReleaseHistory /\ validatePrivateToolRollbackHistory
    /\ validateInstalledBrokerAmbiguityHistory /\ validateInstalledBrokerTerminalHistory
    /\ validateStopRecovery

\* The retained rows always recover: whatever the order of reducers, restarts,
\* lost workers and stops, the rows of the Run pass every validator, its budget
\* is what the journal says and within the ceiling.  Two kinds of Run are left
\* out because the validators refuse them by design of the code as it stands:
\* the preparing launch of an owner that is gone, and a Run that was stopped for
\* its budget or its model and whose worker was lost before the stop was drained.
RecoveryAccepts ==
    /\ Recoverable => readRecoveryClosure
    /\ \A c \in DOMAIN Ceiling : run.reserved[c] + run.consumed[c] <= Ceiling[c]
=============================================================================
