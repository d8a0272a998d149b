------------------------ MODULE CredentialAuthority ------------------------
(* The credential authority store (state/store.ts): one credential grant on  *)
(* one endpoint, written, rotated, revoked and swept by CLI processes, each  *)
(* write finished by the Supervisor (finalizeCredential).  The secret lives  *)
(* in the platform's secret service, the authority in a database; the two    *)
(* are kept together by operation facts that are written before and after    *)
(* every platform call.  All of it happens under one store-wide lock, but a  *)
(* process may die at any step and a failed create may still land later.     *)
EXTENDS Naturals, Sequences, FiniteSets, SequencesExt

CONSTANTS
    Proc,      \* invocations of the CLI, each of one command
    Write,     \* write request ids
    Revoke,    \* revoke request ids
    Expect,    \* request id -> the authority revision it expects; 0: enroll
    MaxAttempt \* attempts of one request (3 in the code)

VARIABLES
    endpoint,  \* the endpoint registration: "none", "active" or "revoked"
    facts,     \* write request -> its attempts, with their phases
    records,   \* the authority revisions of the grant
    receipt,   \* revoke request -> its receipt
    items,     \* the items in the secret service
    late,      \* items whose create failed and may still be executed
    lock,      \* the process in the store's lock, or "free"
    proc       \* process -> its command, where it is, the items left to sweep

vars == <<endpoint, facts, records, receipt, items, late, lock, proc>>
db == <<endpoint, facts, records, receipt>>

Pending == {"prepared", "secret_stored"}
NoReceipt == [phase |-> "none", revision |-> 0]
Fresh == [op |-> "none", req |-> "none", pc |-> "idle", sweep |-> {}, next |-> "none"]

\* ---- reading the store -----------------------------------------------------

latest == IF records = <<>> THEN [state |-> "absent", item |-> <<>>, gen |-> 0] ELSE Last(records)
pending(r) == facts[r] # <<>> /\ Last(facts[r]).phase \in Pending
committed(r) == facts[r] # <<>> /\ Last(facts[r]).phase = "committed"
alive(p) == proc[p].pc \notin {"idle", "done"}

\* credentialWriteIntent: what a request may do to the grant as it is now.
credentialWriteIntent(r) ==
    /\ endpoint = "active"
    /\ IF Expect[r] = 0 THEN records = <<>>
                        ELSE latest.state = "active" /\ Len(records) = Expect[r]
    /\ \A o \in Write \ {r} : ~pending(o)

\* credentialFrozenWriteIntent: a retried request still names the next revision.
credentialFrozenWriteIntent(r) ==
    facts[r] # <<>> => /\ Last(facts[r]).revision = Len(records) + 1
                       /\ Last(facts[r]).gen = latest.gen + 1

\* assertCredentialPendingDead: the process that prepared an open attempt is gone.
assertCredentialPendingDead(r) == pending(r) => ~alive(Last(facts[r]).by)

\* credentialWriteContinuation classifies a request: answered, refused, new, or
\* one whose abandoned attempts must be swept first.
credentialWriteContinuation(r) ==
    IF committed(r) THEN "committed"
    ELSE IF facts[r] # <<>> /\ Last(facts[r]).phase = "aborted" /\ Len(facts[r]) = MaxAttempt THEN "refused"
    ELSE IF ~credentialWriteIntent(r) \/ ~credentialFrozenWriteIntent(r) \/ ~assertCredentialPendingDead(r) THEN "refused"
    ELSE IF facts[r] = <<>> THEN "new"
    ELSE "resume"

\* credentialWriteCleanupState: every planned item of the request but the
\* one the active authority uses.
\* Mutant: the active item is not spared.
sweepable_All(r) == {<<r, k>> : k \in DOMAIN facts[r]}

sweepable(r) ==
    {<<r, k>> : k \in DOMAIN facts[r]} \ (IF latest.state = "active" THEN {latest.item} ELSE {})

\* ---- steps -----------------------------------------------------------------

Init ==
    /\ endpoint = "none"
    /\ facts = [r \in Write |-> <<>>]
    /\ records = <<>>
    /\ receipt = [v \in Revoke |-> NoReceipt]
    /\ items = {}
    /\ late = {}
    /\ lock = "free"
    /\ proc = [p \in Proc |-> Fresh]

At(p, pc) == proc[p].pc = pc
Goto(p, pc) == proc' = [proc EXCEPT ![p].pc = pc]
req(p) == proc[p].req
End(p) == Goto(p, "done") /\ lock' = IF lock = p THEN "free" ELSE lock
Retire(p, pc) == Goto(p, pc) /\ lock' = "free"
Sweeping(p, set, next) == proc' = [proc EXCEPT ![p].pc = "sweep", ![p].sweep = set, ![p].next = next]

\* commitEndpointAuthority: registered once, revoked once, never registered again.
commitEndpointAuthority ==
    /\ lock = "free"
    /\ \/ endpoint = "none" /\ endpoint' = "active"
       \/ endpoint = "active" /\ endpoint' = "revoked"
    /\ UNCHANGED <<facts, records, receipt, items, late, lock, proc>>

Start(p) ==
    /\ At(p, "idle")
    /\ \/ \E r \in Write : proc' = [proc EXCEPT ![p] = [Fresh EXCEPT !.op = "write", !.req = r, !.pc = "classify"]]
       \/ \E v \in Revoke : proc' = [proc EXCEPT ![p] = [Fresh EXCEPT !.op = "revoke", !.req = v, !.pc = "revoke"]]
       \/ \E r \in Write : proc' = [proc EXCEPT ![p] = [Fresh EXCEPT !.op = "cleanup", !.req = r, !.pc = "cleanup"]]
       \/ \E v \in Revoke : proc' = [proc EXCEPT ![p] = [Fresh EXCEPT !.op = "cleanup", !.req = v, !.pc = "cleanup"]]
    /\ UNCHANGED <<db, items, late, lock>>

\* writeCredentialAuthority, first scope: classification only.
Classify(p) ==
    /\ At(p, "classify") /\ lock = "free"
    /\ Goto(p, CASE credentialWriteContinuation(req(p)) = "new"    -> "input"
                 [] credentialWriteContinuation(req(p)) = "resume" -> "resume"
                 [] OTHER -> "done")
    /\ UNCHANGED <<db, items, late, lock>>

\* Second scope, of a request with attempts: they are swept and aborted.
Resume(p) ==
    /\ At(p, "resume") /\ lock = "free"
    /\ IF credentialWriteContinuation(req(p)) = "resume"
       THEN Sweeping(p, sweepable(req(p)), "input") /\ lock' = p
       ELSE End(p)
    /\ UNCHANGED <<db, items, late>>

\* The secret is read without the lock; the third scope starts over, and
\* sweeps again what was abandoned meanwhile.
Input(p) ==
    /\ At(p, "input") /\ lock = "free"
    /\ CASE credentialWriteContinuation(req(p)) = "new" -> Goto(p, "prepare") /\ lock' = p
         [] credentialWriteContinuation(req(p)) = "resume" ->
              Sweeping(p, sweepable(req(p)), "prepare") /\ lock' = p
         [] OTHER -> End(p)
    /\ UNCHANGED <<db, items, late>>

\* cleanupCredentialWriteRequest: one delete_known; one that fails ends the command.
Sweep(p) ==
    /\ At(p, "sweep")
    /\ \E i \in proc[p].sweep :
          \/ items' = items \ {i} /\ proc' = [proc EXCEPT ![p].sweep = @ \ {i}] /\ UNCHANGED lock
          \/ End(p) /\ UNCHANGED items
    /\ UNCHANGED <<db, late>>

\* ... and when all are gone the open attempt is aborted as a recovered orphan.
SweepAborts(p) ==
    /\ At(p, "sweep") /\ proc[p].sweep = {}
    /\ facts' = IF pending(req(p))
                THEN [facts EXCEPT ![req(p)][Len(facts[req(p)])].phase = "aborted"] ELSE facts
    /\ CASE proc[p].next = "prepare" -> Goto(p, "prepare") /\ UNCHANGED lock
         [] proc[p].next = "input"   -> Retire(p, "input")
         [] proc[p].next = "done"    -> End(p)
    /\ UNCHANGED <<endpoint, records, receipt, items, late>>

\* prepareCredentialWrite: the next attempt, and the item it is going to create.
prepareCredentialWrite(p) ==
    /\ At(p, "prepare")
    /\ IF credentialWriteContinuation(req(p)) \in {"new", "resume"} /\ ~pending(req(p))
       THEN /\ facts' = [facts EXCEPT ![req(p)] =
                  Append(@, [phase |-> "prepared", by |-> p, revision |-> Len(records) + 1,
                             gen |-> latest.gen + 1])]
            /\ Goto(p, "create") /\ UNCHANGED lock
       ELSE End(p) /\ UNCHANGED facts
    /\ UNCHANGED <<endpoint, records, receipt, items, late>>

theItem(p) == <<req(p), Len(facts[req(p)])>>

\* create_compare answers: the item is stored and read back ...
Create(p) ==
    /\ At(p, "create")
    /\ items' = items \cup {theItem(p)}
    /\ Goto(p, "store")
    /\ UNCHANGED <<db, late, lock>>

\* ... or it fails, and whether the service still executes it is unknown.
CreateFails(p) ==
    /\ At(p, "create")
    /\ late' \in {late, late \cup {theItem(p)}}
    /\ facts' = [facts EXCEPT ![req(p)][Len(facts[req(p)])].phase = "aborted"]
    /\ End(p)
    /\ UNCHANGED <<endpoint, records, receipt, items>>

Stored(p) ==
    /\ At(p, "store")
    /\ facts' = [facts EXCEPT ![req(p)][Len(facts[req(p)])].phase = "secret_stored"]
    /\ Retire(p, "finalize")
    /\ UNCHANGED <<endpoint, records, receipt, items, late>>

\* finalizeCredential: the Supervisor inspects the item, checks the endpoint and
\* the intended revision again and commits record and fact in one transaction,
\* for the producer that is still connected.
finalizable(p) ==
    /\ pending(req(p)) /\ Last(facts[req(p)]).phase = "secret_stored" /\ Last(facts[req(p)]).by = p
    /\ theItem(p) \in items
    /\ endpoint = "active"
    /\ Last(facts[req(p)]).revision = Len(records) + 1
    /\ Last(facts[req(p)]).gen = latest.gen + 1
    /\ IF Expect[req(p)] = 0 THEN records = <<>> ELSE latest.state = "active"

finalizeCredential(p) ==
    /\ At(p, "finalize") /\ lock = "free" /\ finalizable(p)
    /\ records' = Append(records, [state |-> "active", item |-> theItem(p), gen |-> Last(facts[req(p)]).gen])
    /\ facts' = [facts EXCEPT ![req(p)][Len(facts[req(p)])].phase = "committed"]
    /\ Goto(p, IF Expect[req(p)] = 0 THEN "done" ELSE "retireOld")
    /\ UNCHANGED <<endpoint, receipt, items, late, lock>>

\* Refused: the Supervisor closes, its time fence is not healthy, the credential
\* expired, or one of the checks failed.
FinalizeRefused(p) ==
    /\ At(p, "finalize") /\ lock = "free"
    /\ End(p)
    /\ UNCHANGED <<db, items, late>>

\* After a rotation the previous item is deleted, unless it is the active one
\* again; a failure is left to a later sweep.
RetireOld(p) ==
    /\ At(p, "retireOld") /\ lock = "free"
    /\ LET old == records[Expect[req(p)]].item
       IN  items' \in {items, IF latest.state = "active" /\ latest.item = old THEN items ELSE items \ {old}}
    /\ End(p)
    /\ UNCHANGED <<db, late>>

\* commitCredentialRevocation: a terminal revision and its receipt, or the
\* receipt of a request for a grant that is revoked already.
commitCredentialRevocation(p) ==
    /\ At(p, "revoke") /\ lock = "free"
    /\ CASE receipt[req(p)].phase # "none" -> Goto(p, "revoked") /\ UNCHANGED <<records, receipt, lock>>
         [] receipt[req(p)].phase = "none" /\ latest.state # "absent" /\ Len(records) = Expect[req(p)] ->
              /\ records' = IF latest.state = "revoked" THEN records
                            ELSE Append(records, [latest EXCEPT !.state = "revoked"])
              /\ receipt' = [receipt EXCEPT ![req(p)] = [phase |-> "metadata_committed", revision |-> Len(records')]]
              /\ Goto(p, "revoked") /\ UNCHANGED lock
         [] OTHER -> End(p) /\ UNCHANGED <<records, receipt>>
    /\ UNCHANGED <<endpoint, facts, items, late>>

\* cleanupCredentialRevocation: a completed receipt is never rewritten.
cleanupCredentialRevocation(p) ==
    /\ At(p, "revoked") /\ lock = "free"
    /\ LET done == receipt[req(p)].phase = "cleanup_complete"
           set(phase) == [receipt EXCEPT ![req(p)].phase = IF done THEN @ ELSE phase]
       IN  \/ items' = items \ {latest.item} /\ receipt' = set("cleanup_complete")
           \/ receipt' = set("cleanup_failed") /\ UNCHANGED items
    /\ End(p)
    /\ UNCHANGED <<endpoint, facts, records, late>>

\* cleanupCredentialAuthority: the explicit sweep of one request.
cleanupCredentialAuthority(p) ==
    /\ At(p, "cleanup") /\ lock = "free"
    /\ IF req(p) \in Revoke
       THEN /\ IF receipt[req(p)].phase = "none" THEN End(p) ELSE Goto(p, "revoked") /\ UNCHANGED lock
       ELSE IF facts[req(p)] = <<>> \/ ~assertCredentialPendingDead(req(p)) \/ sweepable(req(p)) = {}
            THEN End(p)
            ELSE Sweeping(p, sweepable(req(p)), "done") /\ lock' = p
    /\ UNCHANGED <<db, items, late>>

\* The process dies; one that waited for its create leaves it undecided.
Crash(p) ==
    /\ alive(p)
    /\ late' \in IF At(p, "create") THEN {late, late \cup {theItem(p)}} ELSE {late}
    /\ End(p)
    /\ UNCHANGED <<db, items>>

\* The secret service executes a create its client gave up on.
LateCreate ==
    /\ \E i \in late : items' = items \cup {i} /\ late' = late \ {i}
    /\ UNCHANGED <<db, lock, proc>>

Ended == (\A p \in Proc : At(p, "done")) /\ UNCHANGED vars

Next ==
    \/ commitEndpointAuthority \/ LateCreate \/ Ended
    \/ \E p \in Proc :
          \/ Start(p) \/ Classify(p) \/ Resume(p) \/ Input(p) \/ Sweep(p) \/ SweepAborts(p)
          \/ prepareCredentialWrite(p) \/ Create(p) \/ CreateFails(p) \/ Stored(p)
          \/ finalizeCredential(p) \/ FinalizeRefused(p) \/ RetireOld(p)
          \/ commitCredentialRevocation(p) \/ cleanupCredentialRevocation(p)
          \/ cleanupCredentialAuthority(p) \/ Crash(p)

Spec == Init /\ [][Next]_vars

\* ---- properties ------------------------------------------------------------

\* The secret of the active authority is in the secret service: no sweep of an
\* abandoned attempt, retired revision or revoked grant removes it, whatever
\* crashed before (credentialWriteCleanupState, the rotation's cleanup).
ActiveIsStored == latest.state = "active" => latest.item \in items

\* Every secret in the service is named by a retained attempt: what a dead or
\* failed process left there can still be found and swept.
NoUnknownItem == \A i \in items \cup late : i[2] \in DOMAIN facts[i[1]]

\* At most one attempt on the grant is open, so two processes never finish the
\* same revision from different secrets.
OnePending == \A r, o \in Write : pending(r) /\ pending(o) => r = o

\* The authority history only grows, a revoked grant gets no further revision,
\* and a new active revision is the next generation and needs an endpoint that
\* is still registered.
HistoryIsTerminal ==
    /\ IsPrefix(records, records')
    /\ latest.state = "revoked" => records' = records
    /\ Len(records') > Len(records) /\ Last(records').state = "active"
         => endpoint = "active" /\ Last(records').gen = latest.gen + 1

\* A receipt that says cleanup_complete tells the truth: the revoked secret is gone.
CleanIsGone ==
    \A v \in Revoke : receipt[v].phase = "cleanup_complete" => latest.state = "revoked" /\ latest.item \notin items
=============================================================================
