----------------------------- MODULE Admission -----------------------------
(* Admission of Sessions and Runs: reducers/session.ts, reducers/admission.ts, *)
(* source-inspection-owner.ts, and the handlers of StateStore that call them.  *)
(* Requests of any number of clients are served by handlers of one process,    *)
(* which dies or is closed and is succeeded.  A request is its bytes: the id   *)
(* of the call, the admission key, and the intent that the key is given to.    *)
(* Digests, artifacts and their closures are the records themselves.           *)
EXTENDS Naturals, FiniteSets

CONSTANTS
    Request,    \* [id, method, key, intent, ws, form]: what clients may send
    Handler,    \* concurrent handlers of the process
    Capacity,   \* assertInstalledRunAdmissionCapacity
    MaxCall,    \* bound: calls
    MaxEpoch,   \* bound: state owners
    MaxFault    \* bound: refusals of the clock, credentials, files and joins

VARIABLES
    control,  \* control_requests: [request, response] by id
    admitted, \* sessions and runs by <<method, key>>
    source,   \* source_inspection_attempts by key
    staging,  \* directories under source-inspections, by <<key, intent>>
    owner,    \* the state owner: epoch and mode
    h,        \* the handlers
    tasks,    \* sourceInspections: the leader of each key
    answers,  \* what clients were told for good: <<request, response>>
    calls, faults

vars == <<control, admitted, source, staging, owner, h, tasks, answers, calls, faults>>
db == <<control, admitted, source>>

Id == {r.id : r \in Request}
Key == {r.key : r \in Request}
Method == {r.method : r \in Request}
Absent == [none |-> TRUE]
Idle == [pc |-> "idle"]

req(x) == h[x].req
mine(x) == control[<<req(x).method, req(x).id>>]
row(x) == admitted[<<req(x).method, req(x).key>>]
attempt(x) == source[req(x).key]
inspectionId(r) == <<r.key, r.intent>>
Unretired == {k \in Key : source[k] # Absent /\ source[k].phase = "capturing"}
aborted == owner.mode = "closing"

Init ==
    /\ control = [i \in Method \X Id |-> Absent]
    /\ admitted = [k \in Method \X Key |-> Absent]
    /\ source = [k \in Key |-> Absent]
    /\ staging = {} /\ owner = [epoch |-> 1, mode |-> "open"]
    /\ h = [x \in Handler |-> Idle] /\ tasks = [k \in Key |-> Absent]
    /\ answers = {} /\ calls = 0 /\ faults = 0

At(x, pc) == owner.mode \in {"open", "closing"} /\ h[x].pc = pc
Goto(x, pc) == h' = [h EXCEPT ![x].pc = pc]

\* settled of captureSubmittedSource: the entry of a key goes with its leader's
\* task, and who waited for that task goes on, or is refused with it.
Waits(x) == {y \in Handler : h[y].pc = "joined" /\ h[y].leader = x}
Settle(x, next, ok) ==
    /\ tasks' = [k \in Key |-> IF tasks[k] # Absent /\ tasks[k].leader = x THEN Absent ELSE tasks[k]]
    /\ h' = [y \in Handler |-> IF y = x THEN next
                               ELSE IF y \notin Waits(x) THEN h[y]
                               ELSE IF ok THEN [h[y] EXCEPT !.pc = "capacity"] ELSE Idle]

\* A refusal that binds nothing.
Refuse(x) == Settle(x, Idle, FALSE) /\ UNCHANGED answers

\* A response that was bound to the request id.
Answer(x, response) == Settle(x, Idle, TRUE) /\ answers' = answers \cup {<<req(x), response>>}

Bound(x, response) == [control EXCEPT ![<<req(x).method, req(x).id>>] = [req |-> req(x), resp |-> response]]

\* The transaction is refused by the time fence, the frame or the disk.
Fails(x) ==
    /\ faults < MaxFault /\ faults' = faults + 1 /\ Refuse(x)
    /\ UNCHANGED <<db, staging, owner, calls>>

\* normalizeRunSubmitRequest: the closed schema of the public request.
normalizeRunSubmitRequest(r) == r.form # "malformed"

\* assertInstalledRunRecipe: what this installation can run, asked of new work only.
assertInstalledRunRecipe(r) == r.form = "supported"

\* submitInstalledRun, createInstalledSession: no new call once close has begun,
\* and nothing is read for a malformed one.
ownInstalledAdmission(x) ==
    /\ owner.mode = "open" /\ h[x] = Idle /\ calls < MaxCall
    /\ \E r \in Request :
          h' = IF normalizeRunSubmitRequest(r) THEN [h EXCEPT ![x] = [pc |-> "replay", req |-> r]] ELSE h
    /\ calls' = calls + 1
    /\ UNCHANGED <<db, staging, owner, tasks, answers, faults>>

-----------------------------------------------------------------------------
(* Replay.                                                                 *)

refused(s) == s # Absent /\ s.phase = "retired" /\ s.outcome # "captured"

\* errorResponse: the class of a failed capture that a client may see.
errorResponse(cause, k) ==
    <<CASE cause = "cancelled" -> "CANCEL_REQUESTED"
        [] cause = "deadline" -> "BUDGET_EXHAUSTED"
        [] cause = "rejected" -> "INVALID_REQUEST"
        [] cause = "died" -> "INTERNAL", k>>

\* decode, assertErrorResponse: a row has an outcome exactly when it is retired, and
\* an outcome has the class of its response.
decode(s) ==
    /\ s.phase = "capturing" <=> s.outcome = "none"
    /\ s.outcome \in {"none", "captured"} <=> s.resp = <<>>
    /\ s.outcome = "cancelled" <=> s.resp = errorResponse("cancelled", s.req.key)

\* readSourceInspectionRetirement: who may say that a capture is over.  Its own
\* owner, after a join; or a later one, after a death, and then nothing was captured.
readSourceInspectionRetirement(s) ==
    \/ s.closure = "joined" /\ s.inspector = s.epoch
    \/ s.closure = "died" /\ s.inspector > s.epoch /\ s.outcome # "captured"
retained(s) == s.phase = "retired" /\ decode(s) /\ readSourceInspectionRetirement(s)

\* The retained closure of an admitted Run: its original request and its source.
closed(x) ==
    /\ control[<<req(x).method, row(x).by>>] # Absent
    /\ req(x).method = "run.submit" =>
          attempt(x) # Absent /\ retained(attempt(x)) /\ attempt(x).outcome = "captured"

\* The read half of replayCreateSession and of replayInstalledRunAdmission.
replayAdmission(x) ==
    /\ At(x, "replay")
    /\ \/ /\ mine(x) # Absent /\ mine(x).req # req(x) /\ Refuse(x)          \* REQUEST_ID_CONFLICT
       \/ /\ mine(x) # Absent => mine(x).req = req(x)
          /\ row(x) # Absent /\ row(x).intent # req(x).intent /\ Refuse(x)  \* ADMISSION_KEY_CONFLICT
       \/ /\ mine(x) # Absent /\ mine(x).req = req(x)
          /\ row(x) # Absent /\ row(x).intent = req(x).intent
          /\ IF mine(x).resp = row(x).resp /\ closed(x) THEN Answer(x, mine(x).resp) ELSE Refuse(x)
       \/ /\ mine(x) = Absent /\ row(x) # Absent /\ row(x).intent = req(x).intent
          /\ IF closed(x) THEN Goto(x, "alias") /\ UNCHANGED <<tasks, answers>> ELSE Refuse(x)
       \/ /\ row(x) = Absent /\ (mine(x) # Absent => mine(x).req = req(x))
          /\ IF req(x).method = "session.create"
             THEN /\ Goto(x, "create") /\ UNCHANGED <<tasks, answers>>
             ELSE \/ /\ mine(x) # Absent
                     /\ ~(refused(attempt(x)) /\ attempt(x).resp = mine(x).resp) /\ Refuse(x)
                  \/ /\ mine(x) # Absent => refused(attempt(x)) /\ attempt(x).resp = mine(x).resp
                     /\ Goto(x, "retained") /\ UNCHANGED <<tasks, answers>>
    /\ UNCHANGED <<db, staging, owner, calls, faults>>

\* The binding transaction of both replays: another request id for an admitted
\* intent gets the original response.
bindAlias(x) ==
    /\ At(x, "alias")
    /\ \/ /\ \/ mine(x) # Absent /\ (mine(x).req # req(x) \/ mine(x).resp # row(x).resp)
             \/ mine(x) = Absent /\ aborted /\ req(x).method = "session.create"
          /\ Refuse(x) /\ UNCHANGED control
       \/ /\ mine(x) # Absent => mine(x).req = req(x) /\ mine(x).resp = row(x).resp
          /\ mine(x) = Absent => ~(aborted /\ req(x).method = "session.create")
          /\ control' = IF mine(x) = Absent THEN Bound(x, row(x).resp) ELSE control
          /\ Answer(x, row(x).resp)
    /\ UNCHANGED <<admitted, source, staging, owner, calls, faults>>

\* createSessionWithin's transaction.  A request that lost the race replays.
createSessionWithin(x) ==
    /\ At(x, "create")
    /\ \/ /\ \/ mine(x) # Absent /\ mine(x).req # req(x)
             \/ mine(x) = Absent /\ row(x) # Absent /\ row(x).intent # req(x).intent
             \/ mine(x) = Absent /\ row(x) = Absent /\ aborted
          /\ Refuse(x) /\ UNCHANGED <<control, admitted>>
       \/ /\ \/ mine(x) # Absent /\ mine(x).req = req(x)
             \/ mine(x) = Absent /\ row(x) # Absent /\ row(x).intent = req(x).intent
          /\ Goto(x, "replay") /\ UNCHANGED <<control, admitted, tasks, answers>>
       \/ /\ mine(x) = Absent /\ row(x) = Absent /\ ~aborted
          /\ admitted' = [admitted EXCEPT ![<<req(x).method, req(x).key>>] =
                            [intent |-> req(x).intent, by |-> req(x).id, resp |-> <<"session", req(x).key>>]]
          /\ control' = Bound(x, <<"session", req(x).key>>)
          /\ Answer(x, <<"session", req(x).key>>)
    /\ UNCHANGED <<source, staging, owner, calls, faults>>

-----------------------------------------------------------------------------
(* The source of a Run.                                                    *)

\* assertSourceInspectionRequestId
requestIdIsFree(x, expected) ==
    /\ mine(x) # Absent => mine(x).req = req(x)
    /\ \A k \in Key : source[k] # Absent /\ source[k].req.id = req(x).id =>
          source[k].req = req(x) /\ (expected # Absent => inspectionId(source[k].req) = expected)

\* replaySubmittedSource: a retained capture is used again, a retained refusal is
\* bound to this request id, and no attempt at all leaves the caller to make one.
replaySubmittedSource(x, next) ==
    /\ LET s == attempt(x) IN
       \/ /\ \/ ~requestIdIsFree(x, Absent)
             \/ s # Absent /\ s.intent # req(x).intent
             \/ s = Absent /\ (mine(x) # Absent \/ row(x) # Absent)
             \/ s # Absent /\ ~retained(s)
             \/ s # Absent /\ refused(s) /\ mine(x) # Absent /\ mine(x).resp # s.resp
          /\ Refuse(x) /\ UNCHANGED control
       \/ /\ requestIdIsFree(x, Absent) /\ s = Absent /\ mine(x) = Absent /\ row(x) = Absent
          /\ Goto(x, next) /\ UNCHANGED <<control, tasks, answers>>
       \/ /\ requestIdIsFree(x, Absent) /\ s # Absent /\ s.intent = req(x).intent /\ retained(s)
          /\ IF s.outcome = "captured"
             THEN Settle(x, [pc |-> "assemble", req |-> req(x)], TRUE) /\ UNCHANGED <<control, answers>>
             ELSE /\ mine(x) # Absent => mine(x).resp = s.resp
                  /\ control' = IF mine(x) = Absent THEN Bound(x, s.resp) ELSE control
                  /\ Answer(x, s.resp)
    /\ UNCHANGED <<admitted, source, staging, owner, calls, faults>>

\* submitInstalledRunOwned between the two replays: a retained refusal is answered
\* before credentials are looked at.
submitInstalledRunOwned(x) ==
    /\ At(x, "retained")
    /\ \/ /\ attempt(x) # Absent /\ attempt(x).intent # req(x).intent /\ Refuse(x)
       \/ /\ attempt(x) # Absent => attempt(x).intent = req(x).intent
          /\ Goto(x, IF refused(attempt(x)) THEN "refusal" ELSE "credential")
          /\ UNCHANGED <<tasks, answers>>
    /\ UNCHANGED <<db, staging, owner, calls, faults>>

replayRefusal(x) == At(x, "refusal") /\ replaySubmittedSource(x, "credential")

\* StateStore.captureSubmittedSource: one task per key; a follower of the same
\* intent waits for it, and fails with it.
joinCapture(x) ==
    /\ At(x, "credential")
    /\ LET first == tasks[req(x).key] IN
       \/ /\ \/ aborted \/ ~assertInstalledRunRecipe(req(x))
             \/ first # Absent /\ first.intent # req(x).intent
             \/ ~requestIdIsFree(x, IF first = Absent THEN Absent ELSE inspectionId(req(x)))
          /\ Refuse(x)
       \/ /\ ~aborted /\ assertInstalledRunRecipe(req(x)) /\ first # Absent /\ first.intent = req(x).intent
          /\ requestIdIsFree(x, inspectionId(req(x)))
          /\ h' = [h EXCEPT ![x] = [pc |-> "joined", req |-> req(x), leader |-> first.leader]]
          /\ UNCHANGED <<tasks, answers>>
       \/ /\ ~aborted /\ assertInstalledRunRecipe(req(x)) /\ first = Absent /\ requestIdIsFree(x, Absent)
          /\ tasks' = [tasks EXCEPT ![req(x).key] = [intent |-> req(x).intent, leader |-> x]]
          /\ Goto(x, "capacity") /\ UNCHANGED answers
    /\ UNCHANGED <<db, staging, owner, calls, faults>>

ActiveRuns == Cardinality({k \in Key : admitted[<<"run.submit", k>>] # Absent /\ admitted[<<"run.submit", k>>].live})

\* The Run reaches a terminal status.
endRun ==
    /\ \E k \in Key :
          /\ admitted[<<"run.submit", k>>] # Absent /\ admitted[<<"run.submit", k>>].live
          /\ admitted' = [admitted EXCEPT ![<<"run.submit", k>>].live = FALSE]
    /\ owner.mode = "open"
    /\ UNCHANGED <<control, source, staging, owner, h, tasks, answers, calls, faults>>

\* assertInstalledRunAdmissionCapacity, read before anything is captured.
admissionCapacity(x) ==
    /\ At(x, "capacity")
    /\ IF aborted \/ ~requestIdIsFree(x, Absent) \/ ActiveRuns >= Capacity
       THEN Refuse(x)
       ELSE Goto(x, "source") /\ UNCHANGED <<tasks, answers>>
    /\ UNCHANGED <<db, staging, owner, calls, faults>>

replayCapture(x) == At(x, "source") /\ replaySubmittedSource(x, "target")

\* createVerifiedSourceInspectionTarget: the workspace, its trust and the Session.
createVerifiedSourceInspectionTarget(x) ==
    /\ At(x, "target")
    /\ IF aborted THEN Refuse(x) ELSE Goto(x, "stage") /\ UNCHANGED <<tasks, answers>>
    /\ UNCHANGED <<db, staging, owner, calls, faults>>

\* createSourceInspectionStaging: mkdirat of a name that the inspection id fixes.
createStaging(x) ==
    /\ At(x, "stage")
    /\ IF inspectionId(req(x)) \in staging
       THEN Refuse(x) /\ UNCHANGED staging
       ELSE /\ staging' = staging \cup {inspectionId(req(x))}
            /\ Goto(x, "reserve") /\ UNCHANGED <<tasks, answers>>
    /\ UNCHANGED <<db, owner, calls, faults>>

\* reserveSourceInspectionAttempt: the row that owns the directory.
reserveSourceInspectionAttempt(x) ==
    /\ At(x, "reserve")
    /\ IF /\ requestIdIsFree(x, inspectionId(req(x)))
          /\ mine(x) = Absent /\ row(x) = Absent /\ attempt(x) = Absent
          /\ ~(\E k \in Unretired : source[k].ws = req(x).ws)
       THEN /\ source' = [source EXCEPT ![req(x).key] =
                 [phase |-> "capturing", intent |-> req(x).intent, ws |-> req(x).ws, req |-> req(x),
                  epoch |-> owner.epoch, outcome |-> "none", resp |-> <<>>, closure |-> "none",
                  inspector |-> 0]]
            /\ Goto(x, "capture")
       ELSE Goto(x, "unreserved") /\ UNCHANGED source
    /\ UNCHANGED <<control, admitted, staging, owner, tasks, answers, calls, faults>>

\* ... or the clock refuses it; either way what was staged is retired.
reservationFails(x) ==
    /\ At(x, "reserve") /\ faults < MaxFault /\ faults' = faults + 1
    /\ Goto(x, "unreserved")
    /\ UNCHANGED <<db, staging, owner, tasks, answers, calls>>

\* publishNonGitSourceProjection and the checks that follow it, under the signal of
\* close and the deadline.
captureSource(x) ==
    /\ At(x, "capture")
    /\ \E cause \in {"none", "rejected", "deadline", "cancelled"} :
          /\ cause = "cancelled" <=> aborted
          /\ cause \in {"rejected", "deadline"} => faults < MaxFault
          /\ faults' = IF cause \in {"rejected", "deadline"} THEN faults + 1 ELSE faults
          /\ h' = [h EXCEPT ![x] = [pc |-> "unstage", req |-> req(x), cause |-> cause]]
    /\ UNCHANGED <<db, staging, owner, tasks, answers, calls>>

\* retireSourceInspectionStaging: the directory is gone before the row says so.
retireStaging(x) ==
    /\ h[x].pc \in {"unstage", "unreserved"} /\ At(x, h[x].pc)
    /\ staging' = staging \ {inspectionId(req(x))}
    /\ IF h[x].pc = "unreserved" THEN Refuse(x)
       ELSE Goto(x, "retire") /\ UNCHANGED <<tasks, answers>>
    /\ UNCHANGED <<db, owner, calls, faults>>

\* A retirement that is not certain: the task is kept, with its row, until the
\* process dies, and its followers are refused with it.
retirementFails(x) ==
    /\ h[x].pc \in {"unstage", "unreserved"} /\ At(x, h[x].pc)
    /\ faults < MaxFault /\ faults' = faults + 1
    /\ h' = [y \in Handler |-> IF y = x THEN [h[x] EXCEPT !.pc = "kept"] ELSE IF y \in Waits(x) THEN Idle ELSE h[y]]
    /\ UNCHANGED <<db, staging, owner, tasks, answers, calls>>

Retired(k, cause, closure) ==
    [source EXCEPT ![k] = [@ EXCEPT
        !.phase = "retired", !.closure = closure, !.inspector = owner.epoch,
        !.outcome = IF cause = "none" THEN "captured" ELSE IF cause = "cancelled" THEN cause ELSE "failed",
        !.resp = IF cause = "none" THEN <<>> ELSE errorResponse(cause, k)]]

\* The final cut of captureSubmittedSource: a signal or a deadline that came since
\* turns a capture into a refusal; a refusal is the first response of this request.
retireSource(x) ==
    /\ At(x, "retire")
    /\ IF ~requestIdIsFree(x, inspectionId(req(x)))
       THEN Refuse(x) /\ UNCHANGED <<control, source, faults>>
       ELSE \E late \in BOOLEAN :
            LET cause == IF aborted THEN "cancelled"
                         ELSE IF h[x].cause = "none" /\ late THEN "deadline" ELSE h[x].cause
            IN  /\ late => faults < MaxFault
                /\ faults' = IF late THEN faults + 1 ELSE faults
                /\ source' = Retired(req(x).key, cause, "joined")
                /\ IF cause = "none"
                   THEN Settle(x, [pc |-> "assemble", req |-> req(x)], TRUE) /\ UNCHANGED <<control, answers>>
                   ELSE /\ control' = Bound(x, errorResponse(cause, req(x).key))
                        /\ Answer(x, errorResponse(cause, req(x).key))
    /\ UNCHANGED <<admitted, staging, owner, calls>>

-----------------------------------------------------------------------------
(* The Run.                                                                *)

\* assembleInstalledRun: over the committed capture, and over instructions that are
\* read from the workspace once more.
assembleInstalledRun(x) ==
    /\ At(x, "assemble")
    /\ IF attempt(x) # Absent /\ retained(attempt(x)) /\ attempt(x).outcome = "captured"
       THEN Goto(x, "instruct") /\ UNCHANGED <<tasks, answers>> ELSE Refuse(x)
    /\ UNCHANGED <<db, staging, owner, calls, faults>>

captureInstalledWorkspaceInstructions(x) ==
    /\ At(x, "instruct")
    /\ IF aborted THEN Refuse(x) ELSE Goto(x, "prepare") /\ UNCHANGED <<tasks, answers>>
    /\ UNCHANGED <<db, staging, owner, calls, faults>>

\* admitRunInternal before its transaction: one more replay, and the closure of
\* everything the request refers to.
admitRunInternal(x) ==
    /\ At(x, "prepare")
    /\ IF aborted THEN Refuse(x)
       ELSE /\ Goto(x, IF mine(x) # Absent \/ row(x) # Absent THEN "replay" ELSE "admit")
            /\ UNCHANGED <<tasks, answers>>
    /\ UNCHANGED <<db, staging, owner, calls, faults>>

\* Mutant: the capacity is what was read before the capture.
hasCapacity_Before == TRUE
\* assertInstalledRunAdmissionCapacity again, in the transaction that inserts.
hasCapacity == ActiveRuns < Capacity

\* admitInstalledRun: the Run, its checkpoint and the first response, or a replay
\* of what was admitted since.
admitInstalledRun(x) ==
    /\ At(x, "admit")
    /\ \/ /\ \/ mine(x) # Absent /\ mine(x).req # req(x)
             \/ mine(x) = Absent /\ row(x) # Absent /\ row(x).intent # req(x).intent
             \/ mine(x) = Absent /\ row(x) = Absent /\ ~hasCapacity
          /\ Refuse(x) /\ UNCHANGED <<control, admitted>>
       \/ /\ \/ mine(x) # Absent /\ mine(x).req = req(x)
             \/ mine(x) = Absent /\ row(x) # Absent /\ row(x).intent = req(x).intent
          /\ Goto(x, "replay") /\ UNCHANGED <<control, admitted, tasks, answers>>
       \/ /\ mine(x) = Absent /\ row(x) = Absent /\ hasCapacity
          /\ admitted' = [admitted EXCEPT ![<<req(x).method, req(x).key>>] =
                            [intent |-> req(x).intent, by |-> req(x).id, resp |-> <<"run", req(x).key>>, live |-> TRUE]]
          /\ control' = Bound(x, <<"run", req(x).key>>)
          /\ Answer(x, <<"run", req(x).key>>)
    /\ UNCHANGED <<source, staging, owner, calls, faults>>

\* Where a handler may find its clock, its credentials, its workspace or its
\* connection gone; what it holds is closed and the caller is told to try again.
refuse(x) ==
    /\ h[x].pc \in {"alias", "create", "refusal", "credential", "source", "target", "stage",
                    "assemble", "instruct", "prepare", "admit"}
    /\ At(x, h[x].pc) /\ Fails(x)

-----------------------------------------------------------------------------
(* The process.                                                            *)

\* beginClose: the signal of every task.
beginClose ==
    /\ owner.mode = "open" /\ owner' = [owner EXCEPT !.mode = "closing"]
    /\ UNCHANGED <<db, staging, h, tasks, answers, calls, faults>>

\* gracefullyReleaseStateOwner: after the handlers, and with every inspection
\* retired; a successor opens the store.
release ==
    /\ owner.mode = "closing" /\ \A x \in Handler : h[x] = Idle
    /\ Unretired = {} /\ owner.epoch < MaxEpoch
    /\ owner' = [epoch |-> owner.epoch + 1, mode |-> "starting"]
    /\ UNCHANGED <<db, staging, h, tasks, answers, calls, faults>>

\* The process dies, and with it every handler and task.
Dies ==
    /\ owner.epoch < MaxEpoch
    /\ owner' = [epoch |-> owner.epoch + 1, mode |-> "starting"]
    /\ h' = [x \in Handler |-> Idle] /\ tasks' = [k \in Key |-> Absent]
    /\ UNCHANGED <<db, staging, answers, calls, faults>>

\* retireAbandonedSourceInspections: a dead owner's capture is retired as failed,
\* and bound to no request; only a client may ask for it.
retireAbandonedSourceInspections ==
    /\ owner.mode = "starting"
    /\ IF Unretired = {}
       THEN owner' = [owner EXCEPT !.mode = "open"] /\ UNCHANGED <<source, staging>>
       ELSE \E k \in Unretired :
              /\ source[k].epoch < owner.epoch
              /\ source' = Retired(k, "died", "died")
              /\ staging' = staging \ {inspectionId(source[k].req)}
              /\ UNCHANGED owner
    /\ UNCHANGED <<control, admitted, h, tasks, answers, calls, faults>>

Next ==
    \/ endRun \/ beginClose \/ release \/ Dies \/ retireAbandonedSourceInspections
    \/ \E x \in Handler :
        \/ ownInstalledAdmission(x) \/ replayAdmission(x) \/ bindAlias(x) \/ createSessionWithin(x)
        \/ submitInstalledRunOwned(x) \/ replayRefusal(x) \/ joinCapture(x)
        \/ admissionCapacity(x) \/ replayCapture(x)
        \/ createVerifiedSourceInspectionTarget(x) \/ createStaging(x)
        \/ reserveSourceInspectionAttempt(x) \/ reservationFails(x) \/ captureSource(x)
        \/ retireStaging(x) \/ retirementFails(x) \/ retireSource(x) \/ assembleInstalledRun(x)
        \/ captureInstalledWorkspaceInstructions(x) \/ admitRunInternal(x)
        \/ admitInstalledRun(x)
        \/ refuse(x)

Spec == Init /\ [][Next]_vars

-----------------------------------------------------------------------------
(* What admission promises.                                                *)

\* One key, one answer: whoever asks for a key, under whatever request id, before
\* or after a crash, during a race or by a replay, is told the same, and what was
\* told is bound to the id it was told to.
AnswersAgree ==
    /\ \A a, b \in answers :
         a[1].method = b[1].method /\ a[1].key = b[1].key => a[2] = b[2] /\ a[1].intent = b[1].intent
    /\ \A a \in answers : control[<<a[1].method, a[1].id>>] = [req |-> a[1], resp |-> a[2]]

\* A Run stands on a source that was captured for its intent and whose capture is
\* over, and there are never more Runs than the process may hold.
RunHasItsSource ==
    /\ \A k \in Key : admitted[<<"run.submit", k>>] # Absent =>
         /\ source[k] # Absent /\ retained(source[k]) /\ source[k].outcome = "captured"
         /\ source[k].intent = admitted[<<"run.submit", k>>].intent
    /\ ActiveRuns <= Capacity

\* A workspace is captured once at a time, a retired capture can be read back and
\* left no directory, and one that is open in an open store is worked on, could not be joined,
\* or has lost its request id to a request with other bytes.
CaptureIsOwned ==
    /\ \A k, j \in Unretired : source[k].ws = source[j].ws => k = j
    /\ \A k \in Key : source[k] # Absent /\ source[k].phase = "retired" =>
         retained(source[k]) /\ inspectionId(source[k].req) \notin staging
    /\ owner.mode = "open" => \A k \in Unretired :
         \/ \E x \in Handler : h[x].pc \in {"capture", "unstage", "retire", "kept"} /\ req(x) = source[k].req
         \/ LET taken == control[<<"run.submit", source[k].req.id>>]
            IN  taken # Absent /\ taken.req # source[k].req

\* All three.
AdmissionAgrees == AnswersAgree /\ RunHasItsSource /\ CaptureIsOwned
=============================================================================
