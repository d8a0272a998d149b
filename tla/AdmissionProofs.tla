-------------------------- MODULE AdmissionProofs --------------------------
(* What admission promises for any requests, handlers, deaths and faults.    *)
(* Every key has one task and the task one leader, so that a leader at work  *)
(* finds the attempt of its key as it left it; and what a request id is      *)
(* bound to is the response of the admitted row of its key or, where none is *)
(* admitted, that of the refused source.                                     *)
EXTENDS Admission, FiniteSetTheorems, TLAPS

\* What the theorems ask of the constants: finitely many requests of the two
\* methods, some of them for a Run, and a capacity that is a number.
AdmissionConstants ==
    /\ IsFiniteSet(Request) /\ Capacity \in Nat
    /\ \A r \in Request : r.method \in {"run.submit", "session.create"}
    /\ "run.submit" \in Method

\* ---- the inductive invariant -------------------------------------------------

Cause == {"none", "rejected", "deadline", "cancelled"}
Refusal == {"rejected", "deadline", "cancelled", "died"}
Intent == {r.intent : r \in Request}
Workspace == {r.ws : r \in Request}
Responses == {errorResponse(c, k) : c \in Refusal, k \in Key} \cup ({"session", "run"} \X Key)

\* The labels of a handler that works on a capture, and of one that has it behind it.
Fresh == {"target", "stage", "reserve", "unreserved"}
Capturing == {"capture", "unstage", "retire"}
Leading == {"capacity", "source", "kept"} \cup Fresh \cup Capturing
Building == {"assemble", "instruct", "prepare", "admit"}
RunLabels == Leading \cup Building \cup {"retained", "refusal", "credential", "joined"}
Labels == RunLabels \cup {"replay", "alias", "create"}

Working == [pc : Labels, req : Request]
Joined == [pc : Labels, req : Request, leader : Handler]
Captured == [pc : Labels, req : Request, cause : Cause]
Handling == {Idle} \cup Working \cup Joined \cup Captured
Binding == [req : Request, resp : Responses]
Session == [intent : Intent, by : Id, resp : Responses]
Run == [intent : Intent, by : Id, resp : Responses, live : BOOLEAN]
SourceRow == [phase : {"capturing", "retired"}, intent : Intent, ws : Workspace, req : Request,
              epoch : Nat, outcome : {"none", "captured", "cancelled", "failed"},
              resp : {<<>>} \cup Responses, closure : {"none", "joined", "died"}, inspector : Nat]
Task == [intent : Intent, leader : Handler]

AdmTyped ==
    /\ control \in [Method \X Id -> {Absent} \cup Binding]
    /\ admitted \in [Method \X Key -> {Absent} \cup Session \cup Run]
    /\ \A k \in Key : admitted[<<"run.submit", k>>] \in {Absent} \cup Run
    /\ source \in [Key -> {Absent} \cup SourceRow]
    /\ owner \in [epoch : Nat, mode : {"open", "closing", "starting"}]
    /\ h \in [Handler -> Handling]
    /\ tasks \in [Key -> {Absent} \cup Task]

\* The task of a key has a leader at work on it, and whoever is at work leads the
\* task of its key, unless it followed one whose source is retired.
TaskInv ==
    /\ \A k \in Key : tasks[k] # Absent =>
         /\ h[tasks[k].leader].pc \in Leading /\ req(tasks[k].leader).key = k
         /\ req(tasks[k].leader).intent = tasks[k].intent
    /\ \A x \in Handler :
         /\ h[x].pc \in Leading =>
              \/ tasks[req(x).key] # Absent /\ tasks[req(x).key].leader = x
              \/ /\ h[x].pc \in {"capacity", "source"} /\ attempt(x) # Absent
                 /\ attempt(x).phase = "retired"
         /\ h[x].pc = "joined" =>
              /\ tasks[req(x).key] # Absent /\ tasks[req(x).key].leader = h[x].leader
              /\ tasks[req(x).key].intent = req(x).intent

\* What a handler may rely on at each place.
StepInv ==
    \A x \in Handler :
      /\ h[x].pc \in RunLabels => req(x).method = "run.submit"
      /\ h[x].pc = "create" => req(x).method = "session.create"
      /\ h[x].pc = "alias" => row(x) # Absent /\ row(x).intent = req(x).intent
      /\ h[x].pc = "joined" => h[x] \in Joined
      /\ h[x].pc \in {"unstage", "retire"} => h[x] \in Captured
      /\ h[x].pc \in Fresh => attempt(x) = Absent
      /\ h[x].pc \in Capturing =>
           /\ attempt(x) # Absent /\ attempt(x).phase = "capturing" /\ attempt(x).req = req(x)
           /\ attempt(x).epoch = owner.epoch
      /\ h[x].pc = "retire" => inspectionId(req(x)) \notin staging
      /\ h[x].pc \in Building =>
           /\ attempt(x) # Absent /\ attempt(x).intent = req(x).intent
           /\ attempt(x).phase = "retired" /\ attempt(x).outcome = "captured"

\* A row of a source is that of its key and of one request id, and decodes.
SourceInv ==
    /\ \A k \in Key : source[k] # Absent =>
         /\ source[k].req.key = k /\ source[k].intent = source[k].req.intent
         /\ source[k].ws = source[k].req.ws /\ source[k].req.method = "run.submit"
         /\ decode(source[k])
         /\ source[k].phase = "retired" => readSourceInspectionRetirement(source[k])
    /\ \A k, j \in Key : source[k] # Absent /\ source[j] # Absent
                           /\ source[k].req.id = source[j].req.id => k = j

\* What a request id is bound to follows from its key.
Follows(c) ==
    LET a == admitted[<<c.req.method, c.req.key>>]
        s == source[c.req.key]
    IN  IF a # Absent THEN a.intent = c.req.intent /\ c.resp = a.resp
        ELSE c.req.method = "run.submit" /\ refused(s) /\ s.intent = c.req.intent /\ c.resp = s.resp

BoundInv ==
    \A m \in Method, d \in Id : control[<<m, d>>] # Absent =>
        /\ control[<<m, d>>].req.method = m /\ control[<<m, d>>].req.id = d
        /\ Follows(control[<<m, d>>])

RunSourced ==
    \A k \in Key : admitted[<<"run.submit", k>>] # Absent =>
        /\ source[k] # Absent /\ source[k].phase = "retired" /\ source[k].outcome = "captured"
        /\ source[k].intent = admitted[<<"run.submit", k>>].intent

\* Answers were given to requests, and stay in the table.
Answered ==
    \A a \in answers :
        /\ a[1] \in Request
        /\ control[<<a[1].method, a[1].id>>] = [req |-> a[1], resp |-> a[2]]

Inv ==
    AdmTyped /\ TaskInv /\ StepInv /\ SourceInv /\ BoundInv /\ RunSourced /\ Answered
        /\ ActiveRuns <= Capacity /\ CaptureIsOwned

\* ---- records -----------------------------------------------------------------

LEMMA RowsAreThere ==
    /\ \A s \in SourceRow : s # Absent
    /\ \A a \in Session \cup Run : a # Absent
    /\ \A c \in Binding : c # Absent
    /\ \A t \in Task : t # Absent
  <1>1. ASSUME NEW s \in SourceRow PROVE s # Absent
    <2>1. DOMAIN s = {"phase", "intent", "ws", "req", "epoch", "outcome", "resp", "closure", "inspector"}
      BY DEF SourceRow
    <2> QED BY <2>1 DEF Absent
  <1>2. ASSUME NEW a \in Session PROVE a # Absent
    <2>1. DOMAIN a = {"intent", "by", "resp"}
      BY DEF Session
    <2> QED BY <2>1 DEF Absent
  <1>3. ASSUME NEW a \in Run PROVE a # Absent
    <2>1. DOMAIN a = {"intent", "by", "resp", "live"}
      BY DEF Run
    <2> QED BY <2>1 DEF Absent
  <1>4. ASSUME NEW c \in Binding PROVE c # Absent
    <2>1. DOMAIN c = {"req", "resp"}
      BY DEF Binding
    <2> QED BY <2>1 DEF Absent
  <1>5. ASSUME NEW t \in Task PROVE t # Absent
    <2>1. DOMAIN t = {"intent", "leader"}
      BY DEF Task
    <2> QED BY <2>1 DEF Absent
  <1> QED BY <1>1, <1>2, <1>3, <1>4, <1>5

\* A handler with a label has a request, and only the idle one has none.
LEMMA Busy ==
    ASSUME AdmTyped, NEW x \in Handler
    PROVE  /\ h[x] = Idle <=> h[x].pc = "idle"
           /\ h[x] # Idle => h[x].pc \in Labels /\ h[x].req \in Request
  <1>1. h[x] \in {Idle} \cup Working \cup Joined \cup Captured
    BY DEF AdmTyped, Handling
  <1>2. ASSUME h[x] \in Working \cup Joined \cup Captured PROVE h[x].pc \in Labels /\ h[x].req \in Request
    BY <1>2 DEF Working, Joined, Captured
  <1>3. "idle" \notin Labels
    BY DEF Labels, RunLabels, Leading, Fresh, Capturing, Building
  <1>4. Idle.pc = "idle"
    BY DEF Idle
  <1> QED BY <1>1, <1>2, <1>3, <1>4

LEMMA Named ==
    ASSUME AdmissionConstants, NEW r \in Request
    PROVE  /\ r.method \in Method /\ r.id \in Id /\ r.key \in Key /\ r.intent \in Intent /\ r.ws \in Workspace
           /\ <<r.method, r.id>> \in Method \X Id /\ <<r.method, r.key>> \in Method \X Key
           /\ r.method \in {"run.submit", "session.create"}
  BY DEF AdmissionConstants, Method, Id, Key, Intent, Workspace

\* The classes of a refusal are told apart, and none is empty.
LEMMA Classes ==
    ASSUME NEW c \in Refusal, NEW k \in Key
    PROVE  /\ errorResponse(c, k) \in Responses /\ errorResponse(c, k) # <<>>
           /\ errorResponse(c, k) = errorResponse("cancelled", k) <=> c = "cancelled"
  <1>1. errorResponse(c, k) \in Responses
    BY DEF Responses
  <1>2. ASSUME NEW e \in Refusal
        PROVE  \E n \in {"CANCEL_REQUESTED", "BUDGET_EXHAUSTED", "INVALID_REQUEST", "INTERNAL"} : errorResponse(e, k) = <<n, k>> /\ (n = "CANCEL_REQUESTED" <=> e = "cancelled")
    <2>1. errorResponse("cancelled", k) = <<"CANCEL_REQUESTED", k>>
      BY DEF errorResponse
    <2>2. errorResponse("deadline", k) = <<"BUDGET_EXHAUSTED", k>>
      BY DEF errorResponse
    <2>3. errorResponse("rejected", k) = <<"INVALID_REQUEST", k>>
      BY DEF errorResponse
    <2>4. errorResponse("died", k) = <<"INTERNAL", k>>
      BY DEF errorResponse
    <2>5. CASE e = "cancelled"
      BY <2>1, <2>5
    <2>6. CASE e = "deadline"
      BY <2>2, <2>6
    <2>7. CASE e = "rejected"
      BY <2>3, <2>7
    <2>8. CASE e = "died"
      BY <2>4, <2>8
    <2> QED BY <2>5, <2>6, <2>7, <2>8 DEF Refusal
  <1>3. "cancelled" \in Refusal
    BY DEF Refusal
  <1>4. PICK n \in {"CANCEL_REQUESTED", "BUDGET_EXHAUSTED", "INVALID_REQUEST", "INTERNAL"} : errorResponse(c, k) = <<n, k>> /\ (n = "CANCEL_REQUESTED" <=> c = "cancelled")
    BY <1>2
  <1>5. PICK m \in {"CANCEL_REQUESTED", "BUDGET_EXHAUSTED", "INVALID_REQUEST", "INTERNAL"} : errorResponse("cancelled", k) = <<m, k>> /\ m = "CANCEL_REQUESTED"
    BY <1>2, <1>3
  <1>6. <<n, k>> # <<>> /\ (<<n, k>> = <<m, k>> <=> n = m)
    OBVIOUS
  <1> QED BY <1>1, <1>4, <1>5, <1>6

\* ---- what a handler does -----------------------------------------------------

\* A handler that goes on keeps its request and what it found, and no other moves.
LEMMA GotoMeans ==
    ASSUME AdmTyped, NEW x \in Handler, h[x] # Idle, NEW l \in Labels, Goto(x, l)
    PROVE  /\ h' \in [Handler -> Handling] /\ h'[x].pc = l /\ h'[x].req = h[x].req /\ h'[x] # Idle
           /\ h[x] \in Captured => h'[x] \in Captured /\ h'[x].cause = h[x].cause
           /\ h[x] \in Joined => h'[x] \in Joined
           /\ \A y \in Handler : y # x => h'[y] = h[y]
  <1>1. h' = [h EXCEPT ![x].pc = l] /\ h \in [Handler -> Handling]
    BY DEF Goto, AdmTyped
  <1>2. h' = [h EXCEPT ![x] = [h[x] EXCEPT !.pc = l]]
    BY <1>1
  <1>3. h'[x] = [h[x] EXCEPT !.pc = l] /\ \A y \in Handler : y # x => h'[y] = h[y]
    BY <1>1, <1>2
  <1>4. "idle" \notin Labels
    BY DEF Labels, RunLabels, Leading, Fresh, Capturing, Building
  <1>5. h[x] \in Working \cup Joined \cup Captured
    BY <1>1 DEF Handling
  <1>6. CASE h[x] \in Working
    <2>1. PICK p \in Labels, r \in Request : h[x] = [pc |-> p, req |-> r]
      BY <1>6 DEF Working
    <2>2. h'[x] = [pc |-> l, req |-> r]
      BY <1>3, <2>1
    <2>3. h'[x] \in Working
      BY <2>2 DEF Working
    <2>4. h[x] \notin Captured /\ h[x] \notin Joined
      <3>1. DOMAIN h[x] = {"pc", "req"}
        BY <2>1
      <3> QED BY <3>1 DEF Captured, Joined
    <2>5. h'[x].pc = l /\ h'[x].req = h[x].req
      BY <2>1, <2>2
    <2> QED BY <1>1, <1>2, <1>3, <1>4, <2>3, <2>4, <2>5 DEF Handling, Idle
  <1>7. CASE h[x] \in Joined
    <2>1. PICK p \in Labels, r \in Request, d \in Handler : h[x] = [pc |-> p, req |-> r, leader |-> d]
      BY <1>7 DEF Joined
    <2>2. h'[x] = [pc |-> l, req |-> r, leader |-> d]
      BY <1>3, <2>1
    <2>3. h'[x] \in Joined
      BY <2>2 DEF Joined
    <2>4. h[x] \notin Captured
      <3>1. DOMAIN h[x] = {"pc", "req", "leader"}
        BY <2>1
      <3> QED BY <3>1 DEF Captured
    <2>5. h'[x].pc = l /\ h'[x].req = h[x].req
      BY <2>1, <2>2
    <2> QED BY <1>1, <1>2, <1>3, <1>4, <2>3, <2>4, <2>5 DEF Handling, Idle
  <1>8. CASE h[x] \in Captured
    <2>1. PICK p \in Labels, r \in Request, c \in Cause : h[x] = [pc |-> p, req |-> r, cause |-> c]
      BY <1>8 DEF Captured
    <2>2. h'[x] = [pc |-> l, req |-> r, cause |-> c]
      BY <1>3, <2>1
    <2>3. h'[x] \in Captured
      BY <2>2 DEF Captured
    <2>4. h[x] \notin Joined
      <3>1. DOMAIN h[x] = {"pc", "req", "cause"}
        BY <2>1
      <3> QED BY <3>1 DEF Joined
    <2>5. h'[x].pc = l /\ h'[x].req = h[x].req /\ h'[x].cause = h[x].cause
      BY <2>1, <2>2
    <2> QED BY <1>1, <1>2, <1>3, <1>4, <2>3, <2>4, <2>5 DEF Handling, Idle
  <1> QED BY <1>5, <1>6, <1>7, <1>8

\* A task that ends takes its entry with it, and its followers go on or go home.
LEMMA SettleMeans ==
    ASSUME AdmTyped, StepInv, NEW x \in Handler, NEW next \in {Idle} \cup Working, NEW ok \in BOOLEAN,
           Settle(x, next, ok)
    PROVE  /\ h' \in [Handler -> Handling] /\ tasks' \in [Key -> {Absent} \cup Task]
           /\ h'[x] = next
           /\ \A y \in Handler : y # x =>
                \/ h'[y] = h[y] /\ ~(h[y].pc = "joined" /\ h[y].leader = x)
                \/ h'[y] = Idle
                \/ /\ ok /\ h[y].pc = "joined" /\ h[y].leader = x
                   /\ h'[y].pc = "capacity" /\ h'[y].req = h[y].req
           /\ \A k \in Key : tasks'[k] = IF tasks[k] # Absent /\ tasks[k].leader = x THEN Absent ELSE tasks[k]
  <1>1. h' = [y \in Handler |-> IF y = x THEN next
                               ELSE IF y \notin Waits(x) THEN h[y]
                               ELSE IF ok THEN [h[y] EXCEPT !.pc = "capacity"] ELSE Idle]
    BY DEF Settle
  <1>2. tasks' = [k \in Key |-> IF tasks[k] # Absent /\ tasks[k].leader = x THEN Absent ELSE tasks[k]]
    BY DEF Settle
  <1>3. tasks' \in [Key -> {Absent} \cup Task]
    BY <1>2 DEF AdmTyped
  <1>4. ASSUME NEW y \in Handler, y # x
        PROVE  /\ h'[y] \in Handling
               /\ \/ h'[y] = h[y] /\ ~(h[y].pc = "joined" /\ h[y].leader = x)
                  \/ h'[y] = Idle
                  \/ /\ ok /\ h[y].pc = "joined" /\ h[y].leader = x
                     /\ h'[y].pc = "capacity" /\ h'[y].req = h[y].req
    <2>1. h[y] \in Handling /\ Idle \in Handling
      BY DEF AdmTyped, Handling
    <2>2. CASE y \notin Waits(x)
      BY <1>1, <1>4, <2>1, <2>2 DEF Waits
    <2>3. CASE y \in Waits(x) /\ ~ok
      BY <1>1, <1>4, <2>1, <2>3
    <2>4. CASE y \in Waits(x) /\ ok
      <3>1. h'[y] = [h[y] EXCEPT !.pc = "capacity"]
        BY <1>1, <1>4, <2>4
      <3>2. h[y].pc = "joined" /\ h[y].leader = x
        BY <2>4 DEF Waits
      <3>3. h[y] \in Joined
        BY <3>2 DEF StepInv
      <3>4. PICK p \in Labels, r \in Request, d \in Handler : h[y] = [pc |-> p, req |-> r, leader |-> d]
        BY <3>3 DEF Joined
      <3>5. h'[y] = [pc |-> "capacity", req |-> r, leader |-> d]
        BY <3>1, <3>4
      <3>6. "capacity" \in Labels
        BY DEF Labels, RunLabels, Leading
      <3>7. h'[y] \in Joined
        BY <3>5, <3>6 DEF Joined
      <3>8. h'[y].pc = "capacity" /\ h'[y].req = h[y].req
        BY <3>4, <3>5
      <3> QED BY <2>4, <3>2, <3>7, <3>8 DEF Handling
    <2> QED BY <2>2, <2>3, <2>4
  <1>5. h'[x] = next /\ next \in Handling
    BY <1>1 DEF Handling
  <1>6. h' \in [Handler -> Handling]
    BY <1>1, <1>4, <1>5
  <1> QED BY <1>2, <1>3, <1>4, <1>5, <1>6

\* A retired row keeps whose it is and says how it ended.
LEMMA RetiredMeans ==
    ASSUME AdmTyped, NEW k \in Key, source[k] # Absent, NEW c \in Cause \cup {"died"},
           NEW closure \in {"joined", "died"}, source' = Retired(k, c, closure)
    PROVE  /\ source' \in [Key -> {Absent} \cup SourceRow] /\ source'[k] # Absent
           /\ source'[k].phase = "retired" /\ source'[k].closure = closure /\ source'[k].inspector = owner.epoch
           /\ source'[k].outcome = IF c = "none" THEN "captured" ELSE IF c = "cancelled" THEN c ELSE "failed"
           /\ source'[k].resp = IF c = "none" THEN <<>> ELSE errorResponse(c, k)
           /\ source'[k].req = source[k].req /\ source'[k].intent = source[k].intent
           /\ source'[k].ws = source[k].ws /\ source'[k].epoch = source[k].epoch
           /\ \A j \in Key : j # k => source'[j] = source[j]
  <1> DEFINE o == IF c = "none" THEN "captured" ELSE IF c = "cancelled" THEN c ELSE "failed"
             v == IF c = "none" THEN <<>> ELSE errorResponse(c, k)
  <1>1. source \in [Key -> {Absent} \cup SourceRow] /\ source[k] \in SourceRow /\ owner.epoch \in Nat
    BY DEF AdmTyped
  <1>2. source' = [source EXCEPT ![k] = [source[k] EXCEPT !.phase = "retired", !.closure = closure,
                     !.inspector = owner.epoch, !.outcome = o, !.resp = v]]
    BY DEF Retired
  <1>3. o \in {"captured", "cancelled", "failed"}
    OBVIOUS
  <1>4. v \in {<<>>} \cup Responses
    BY Classes DEF Cause, Refusal
  <1> HIDE DEF o, v
  <1>5. source'[k] = [source[k] EXCEPT !.phase = "retired", !.closure = closure,
                        !.inspector = owner.epoch, !.outcome = o, !.resp = v]
    BY <1>1, <1>2
  <1>6. \A j \in Key : j # k => source'[j] = source[j]
    BY <1>1, <1>2
  <1>7. PICK s \in SourceRow : s = source[k]
    BY <1>1
  <1>8. source'[k] = [phase |-> "retired", intent |-> s.intent, ws |-> s.ws, req |-> s.req, epoch |-> s.epoch,
                      outcome |-> o, resp |-> v, closure |-> closure, inspector |-> owner.epoch]
    BY <1>5, <1>7 DEF SourceRow
  <1>9. s.intent \in Intent /\ s.ws \in Workspace /\ s.req \in Request /\ s.epoch \in Nat
    BY DEF SourceRow
  <1>10. source'[k] \in SourceRow
    BY <1>1, <1>3, <1>4, <1>8, <1>9 DEF SourceRow
  <1>11. source' \in [Key -> {Absent} \cup SourceRow]
    BY <1>1, <1>2, <1>5, <1>10
  <1>12. source'[k] # Absent
    BY <1>10, RowsAreThere
  <1>13. /\ source'[k].phase = "retired" /\ source'[k].closure = closure /\ source'[k].inspector = owner.epoch
         /\ source'[k].outcome = o /\ source'[k].resp = v /\ source'[k].req = s.req
         /\ source'[k].intent = s.intent /\ source'[k].ws = s.ws /\ source'[k].epoch = s.epoch
    BY <1>8
  <1> QED BY <1>6, <1>7, <1>11, <1>12, <1>13 DEF o, v

\* ---- which action writes what ------------------------------------------------

\* The steps that answer, and those that write each table.
LEMMA Writers ==
    ASSUME [Next]_vars
    PROVE  /\ source' = source \/ retireAbandonedSourceInspections
              \/ \E x \in Handler : reserveSourceInspectionAttempt(x) \/ retireSource(x)
           /\ admitted' = admitted \/ endRun \/ \E x \in Handler : createSessionWithin(x) \/ admitInstalledRun(x)
           /\ control' = control
              \/ \E x \in Handler : \/ bindAlias(x) \/ createSessionWithin(x) \/ replayRefusal(x)
                                    \/ replayCapture(x) \/ retireSource(x) \/ admitInstalledRun(x)
           /\ answers' = answers
              \/ \E x \in Handler : \/ replayAdmission(x) \/ bindAlias(x) \/ createSessionWithin(x) \/ replayRefusal(x)
                                    \/ replayCapture(x) \/ retireSource(x) \/ admitInstalledRun(x)
           /\ staging' = staging \/ retireAbandonedSourceInspections
              \/ \E x \in Handler : createStaging(x) \/ retireStaging(x)
           /\ owner' = owner \/ beginClose \/ release \/ Dies \/ retireAbandonedSourceInspections
  <1>1. CASE UNCHANGED vars
    BY <1>1 DEF vars
  <1>2. CASE endRun \/ beginClose \/ release \/ Dies \/ retireAbandonedSourceInspections
    BY <1>2 DEF endRun, beginClose, release, Dies, retireAbandonedSourceInspections, db
  <1>3. ASSUME NEW x \in Handler,
               \/ ownInstalledAdmission(x) \/ replayAdmission(x) \/ bindAlias(x) \/ createSessionWithin(x)
        PROVE  /\ UNCHANGED <<source, staging, owner>>
               /\ admitted' = admitted \/ createSessionWithin(x)
               /\ control' = control \/ bindAlias(x) \/ createSessionWithin(x)
               /\ answers' = answers \/ replayAdmission(x) \/ bindAlias(x) \/ createSessionWithin(x)
    BY <1>3 DEF ownInstalledAdmission, replayAdmission, bindAlias, createSessionWithin, db
  <1>4. ASSUME NEW x \in Handler,
               \/ submitInstalledRunOwned(x) \/ replayRefusal(x) \/ joinCapture(x) \/ admissionCapacity(x)
               \/ replayCapture(x) \/ createVerifiedSourceInspectionTarget(x)
        PROVE  /\ UNCHANGED <<source, staging, owner, admitted>>
               /\ control' = control \/ replayRefusal(x) \/ replayCapture(x)
               /\ answers' = answers \/ replayRefusal(x) \/ replayCapture(x)
    BY <1>4 DEF submitInstalledRunOwned, replayRefusal, joinCapture, admissionCapacity, replayCapture,
         createVerifiedSourceInspectionTarget, replaySubmittedSource, Refuse, db
  <1>5. ASSUME NEW x \in Handler,
               \/ createStaging(x) \/ reserveSourceInspectionAttempt(x) \/ reservationFails(x)
               \/ captureSource(x) \/ retireStaging(x) \/ retirementFails(x)
        PROVE  /\ UNCHANGED <<control, owner, admitted, answers>>
               /\ staging' = staging \/ createStaging(x) \/ retireStaging(x)
               /\ source' = source \/ reserveSourceInspectionAttempt(x)
    BY <1>5 DEF createStaging, reserveSourceInspectionAttempt, reservationFails, captureSource,
         retireStaging, retirementFails, Refuse, db
  <1>6. ASSUME NEW x \in Handler,
               \/ retireSource(x) \/ assembleInstalledRun(x) \/ captureInstalledWorkspaceInstructions(x)
               \/ admitRunInternal(x) \/ admitInstalledRun(x) \/ refuse(x)
        PROVE  /\ UNCHANGED <<staging, owner>>
               /\ source' = source \/ retireSource(x)
               /\ admitted' = admitted \/ admitInstalledRun(x)
               /\ control' = control \/ retireSource(x) \/ admitInstalledRun(x)
               /\ answers' = answers \/ retireSource(x) \/ admitInstalledRun(x)
    BY <1>6 DEF retireSource, assembleInstalledRun, captureInstalledWorkspaceInstructions, admitRunInternal,
         admitInstalledRun, refuse, Fails, Refuse, db
  <1>7. CASE Next
    <2>1. CASE \E x \in Handler : \/ ownInstalledAdmission(x) \/ replayAdmission(x) \/ bindAlias(x)
                                  \/ createSessionWithin(x)
      BY <1>3, <2>1
    <2>2. CASE \E x \in Handler : \/ submitInstalledRunOwned(x) \/ replayRefusal(x) \/ joinCapture(x)
                                  \/ admissionCapacity(x) \/ replayCapture(x)
                                  \/ createVerifiedSourceInspectionTarget(x)
      BY <1>4, <2>2
    <2>3. CASE \E x \in Handler : \/ createStaging(x) \/ reserveSourceInspectionAttempt(x)
                                  \/ reservationFails(x) \/ captureSource(x) \/ retireStaging(x)
                                  \/ retirementFails(x)
      BY <1>5, <2>3
    <2>4. CASE \E x \in Handler : \/ retireSource(x) \/ assembleInstalledRun(x)
                                  \/ captureInstalledWorkspaceInstructions(x) \/ admitRunInternal(x)
                                  \/ admitInstalledRun(x) \/ refuse(x)
      BY <1>6, <2>4
    <2> QED BY <1>2, <1>7, <2>1, <2>2, <2>3, <2>4 DEF Next
  <1> QED BY <1>1, <1>7

\* A reservation writes the row of a key that had none, in a workspace that no
\* other capture is open on.
LEMMA ReserveMeans ==
    ASSUME AdmissionConstants, AdmTyped, NEW x \in Handler, reserveSourceInspectionAttempt(x)
    PROVE  \/ source' = source /\ Goto(x, "unreserved")
           \/ /\ Goto(x, "capture") /\ requestIdIsFree(x, inspectionId(req(x)))
              /\ mine(x) = Absent /\ row(x) = Absent /\ attempt(x) = Absent
              /\ ~(\E k \in Unretired : source[k].ws = req(x).ws)
              /\ source' \in [Key -> {Absent} \cup SourceRow]
              /\ source'[req(x).key] =
                    [phase |-> "capturing", intent |-> req(x).intent, ws |-> req(x).ws, req |-> req(x),
                     epoch |-> owner.epoch, outcome |-> "none", resp |-> <<>>, closure |-> "none",
                     inspector |-> 0]
              /\ source'[req(x).key] # Absent
              /\ \A j \in Key : j # req(x).key => source'[j] = source[j]
  <1> DEFINE new == [phase |-> "capturing", intent |-> req(x).intent, ws |-> req(x).ws, req |-> req(x),
                     epoch |-> owner.epoch, outcome |-> "none", resp |-> <<>>, closure |-> "none",
                     inspector |-> 0]
  <1>1. h[x].pc = "reserve"
    BY DEF reserveSourceInspectionAttempt, At
  <1>2. h[x].req \in Request
    BY <1>1, Busy DEF Idle
  <1>3. h[x].req.key \in Key /\ h[x].req.intent \in Intent /\ h[x].req.ws \in Workspace
    BY <1>2, Named
  <1>4. owner.epoch \in Nat /\ source \in [Key -> {Absent} \cup SourceRow]
    BY DEF AdmTyped
  <1>5. new \in SourceRow
    BY <1>2, <1>3, <1>4 DEF SourceRow, req
  <1>6. new # Absent
    BY <1>5, RowsAreThere
  <1>7. CASE source' = source /\ Goto(x, "unreserved")
    BY <1>7
  <1>8. CASE /\ requestIdIsFree(x, inspectionId(req(x)))
             /\ mine(x) = Absent /\ row(x) = Absent /\ attempt(x) = Absent
             /\ ~(\E k \in Unretired : source[k].ws = req(x).ws)
             /\ source' = [source EXCEPT ![req(x).key] = new] /\ Goto(x, "capture")
    <2> HIDE DEF new
    <2>1. source' \in [Key -> {Absent} \cup SourceRow] /\ source'[req(x).key] = new
          /\ \A j \in Key : j # req(x).key => source'[j] = source[j]
      BY <1>3, <1>4, <1>5, <1>8 DEF req
    <2> QED BY <1>6, <1>8, <2>1 DEF new
  <1> QED BY <1>7, <1>8 DEF reserveSourceInspectionAttempt

\* The last cut refuses a request id that was taken, or retires the row.
LEMMA RetireMeans ==
    ASSUME AdmissionConstants, AdmTyped, StepInv, NEW x \in Handler, retireSource(x)
    PROVE  /\ h[x].pc = "retire" /\ h[x].req \in Request
           /\ \/ /\ ~requestIdIsFree(x, inspectionId(req(x)))
                 /\ Refuse(x) /\ UNCHANGED <<control, source>>
              \/ /\ requestIdIsFree(x, inspectionId(req(x)))
                 /\ \E c \in Cause :
                      /\ source' = Retired(req(x).key, c, "joined")
                      /\ IF c = "none"
                         THEN Settle(x, [pc |-> "assemble", req |-> req(x)], TRUE) /\ UNCHANGED <<control, answers>>
                         ELSE /\ control' = Bound(x, errorResponse(c, req(x).key))
                              /\ Answer(x, errorResponse(c, req(x).key))
  <1>1. h[x].pc = "retire"
    BY DEF retireSource, At
  <1>2. h[x].req \in Request
    BY <1>1, Busy DEF Idle
  <1>3. h[x].cause \in Cause
    BY <1>1 DEF StepInv, Captured
  <1>4. CASE ~requestIdIsFree(x, inspectionId(req(x)))
    BY <1>1, <1>2, <1>4 DEF retireSource
  <1>5. CASE requestIdIsFree(x, inspectionId(req(x)))
    <2>1. PICK late \in BOOLEAN :
            LET c == IF aborted THEN "cancelled" ELSE IF h[x].cause = "none" /\ late THEN "deadline" ELSE h[x].cause
            IN  /\ source' = Retired(req(x).key, c, "joined")
                /\ IF c = "none"
                   THEN Settle(x, [pc |-> "assemble", req |-> req(x)], TRUE) /\ UNCHANGED <<control, answers>>
                   ELSE /\ control' = Bound(x, errorResponse(c, req(x).key))
                        /\ Answer(x, errorResponse(c, req(x).key))
      BY <1>5 DEF retireSource
    <2> DEFINE c == IF aborted THEN "cancelled" ELSE IF h[x].cause = "none" /\ late THEN "deadline" ELSE h[x].cause
    <2>2. c \in Cause
      BY <1>3 DEF Cause
    <2> QED BY <1>1, <1>2, <1>5, <2>1, <2>2
  <1> QED BY <1>4, <1>5

LEMMA AbandonMeans ==
    ASSUME retireAbandonedSourceInspections
    PROVE  /\ owner.mode = "starting" /\ UNCHANGED <<control, admitted, h, tasks, answers>>
           /\ \/ Unretired = {} /\ owner' = [owner EXCEPT !.mode = "open"] /\ UNCHANGED <<source, staging>>
              \/ \E k \in Unretired :
                   /\ source[k].epoch < owner.epoch /\ source' = Retired(k, "died", "died")
                   /\ staging' = staging \ {inspectionId(source[k].req)} /\ owner' = owner
  BY DEF retireAbandonedSourceInspections

\* A source keeps whose it is, a retired one does not change, and who may change
\* another is at the place that does.
LEMMA SourceSteps ==
    ASSUME AdmissionConstants, AdmTyped, StepInv, [Next]_vars
    PROVE  /\ source' \in [Key -> {Absent} \cup SourceRow]
           /\ \A k \in Key :
                /\ source[k] # Absent =>
                     /\ source'[k] # Absent /\ source'[k].req = source[k].req
                     /\ source'[k].intent = source[k].intent /\ source'[k].ws = source[k].ws
                     /\ source'[k].epoch = source[k].epoch
                /\ source[k] # Absent /\ source[k].phase = "retired" => source'[k] = source[k]
                /\ source'[k] # source[k] =>
                     \/ source[k] = Absent
                        /\ \E x \in Handler : reserveSourceInspectionAttempt(x) /\ h[x].pc = "reserve" /\ k = req(x).key
                     \/ /\ source[k] # Absent /\ source'[k].phase = "retired"
                        /\ \/ \E x \in Handler : h[x].pc = "retire" /\ k = req(x).key /\ retireSource(x)
                           \/ source[k].epoch < owner.epoch /\ k \in Unretired /\ retireAbandonedSourceInspections
  <1>0. source \in [Key -> {Absent} \cup SourceRow]
    BY DEF AdmTyped
  <1>1. CASE source' = source
    BY <1>0, <1>1
  <1>2. ASSUME NEW x \in Handler, reserveSourceInspectionAttempt(x), source' # source
        PROVE  /\ source' \in [Key -> {Absent} \cup SourceRow]
               /\ h[x].pc = "reserve" /\ req(x).key \in Key /\ source[req(x).key] = Absent
               /\ \A k \in Key : k # req(x).key => source'[k] = source[k]
    <2>1. h[x].pc = "reserve" /\ h[x].req \in Request
      BY <1>2, Busy DEF reserveSourceInspectionAttempt, At, Idle
    <2> QED BY <1>2, <2>1, ReserveMeans, Named DEF req, attempt
  <1>3. ASSUME NEW k \in Key, NEW c \in Cause \cup {"died"}, NEW closure \in {"joined", "died"},
               source[k] # Absent, source[k].phase = "capturing", source' = Retired(k, c, closure)
        PROVE  /\ source' \in [Key -> {Absent} \cup SourceRow]
               /\ source'[k] # Absent /\ source'[k].phase = "retired" /\ source'[k].req = source[k].req
               /\ source'[k].intent = source[k].intent /\ source'[k].ws = source[k].ws
               /\ source'[k].epoch = source[k].epoch
               /\ \A j \in Key : j # k => source'[j] = source[j]
    BY <1>3, RetiredMeans
  <1>4. CASE \E x \in Handler : reserveSourceInspectionAttempt(x)
    BY <1>1, <1>2, <1>4
  <1>5. ASSUME NEW x \in Handler, retireSource(x), source' # source
        PROVE  /\ h[x].pc = "retire" /\ req(x).key \in Key
               /\ source[req(x).key] # Absent /\ source[req(x).key].phase = "capturing"
               /\ \E c \in Cause : source' = Retired(req(x).key, c, "joined")
    <2>1. h[x].pc = "retire" /\ h[x].req \in Request
      BY <1>5, RetireMeans
    <2>2. \E c \in Cause : source' = Retired(req(x).key, c, "joined")
      BY <1>5, RetireMeans
    <2>3. attempt(x) # Absent /\ attempt(x).phase = "capturing"
      BY <2>1 DEF StepInv, Capturing
    <2> QED BY <2>1, <2>2, <2>3, Named DEF req, attempt
  <1>6. CASE \E x \in Handler : retireSource(x)
    BY <1>1, <1>3, <1>5, <1>6
  <1>7. CASE retireAbandonedSourceInspections
    <2>1. CASE source' # source
      <3>1. PICK k \in Unretired : source[k].epoch < owner.epoch /\ source' = Retired(k, "died", "died")
        BY <1>7, <2>1, AbandonMeans
      <3>2. k \in Key /\ source[k] # Absent /\ source[k].phase = "capturing"
        BY <3>1 DEF Unretired
      <3> QED BY <1>3, <1>7, <3>1, <3>2
    <2> QED BY <1>1, <2>1
  <1> QED BY <1>1, <1>4, <1>6, <1>7, Writers

\* ---- tasks -------------------------------------------------------------------

\* A handler goes on, stays a leader or stays none, and joins nobody.
Walk(x) ==
    \E l \in Labels \ {"joined"} :
        /\ Goto(x, l) /\ UNCHANGED tasks /\ h[x].pc \notin {"idle", "joined"}
        /\ h[x].pc \in Leading <=> l \in Leading
        /\ h[x].pc \in {"capacity", "source"} /\ l \notin {"capacity", "source"} => attempt(x) = Absent

\* A handler is done with its capture; others go on from it only when the source is
\* retired.
Ends(x) ==
    /\ h[x].pc \notin {"idle", "joined"}
    /\ \E next \in {Idle, [pc |-> "assemble", req |-> req(x)]}, ok \in BOOLEAN :
          /\ Settle(x, next, ok)
          /\ ok /\ h[x].pc \in Leading => source'[req(x).key] # Absent /\ source'[req(x).key].phase = "retired"

LEMMA RefuseEnds ==
    ASSUME NEW x \in Handler, h[x].pc \notin {"idle", "joined"}, Refuse(x)
    PROVE  Ends(x)
  BY DEF Refuse, Ends

LEMMA AnswerEnds ==
    ASSUME NEW x \in Handler, h[x].pc \notin {"idle", "joined"}, NEW r, Answer(x, r),
           h[x].pc \in Leading => source'[req(x).key] # Absent /\ source'[req(x).key].phase = "retired"
    PROVE  Ends(x)
  BY DEF Answer, Ends

LEMMA GotoWalks ==
    ASSUME NEW x \in Handler, NEW l \in Labels \ {"joined"}, Goto(x, l), UNCHANGED tasks,
           h[x].pc \notin {"idle", "joined"}, h[x].pc \in Leading <=> l \in Leading,
           h[x].pc \in {"capacity", "source"} /\ l \notin {"capacity", "source"} => attempt(x) = Absent
    PROVE  Walk(x)
  BY DEF Walk

USE DEF Labels, RunLabels, Leading, Fresh, Capturing, Building

LEMMA EarlySteps ==
    ASSUME NEW x \in Handler,
           replayAdmission(x) \/ bindAlias(x) \/ createSessionWithin(x) \/ submitInstalledRunOwned(x)
    PROVE  Walk(x) \/ Ends(x)
  <1>1. ASSUME replayAdmission(x) PROVE Walk(x) \/ Ends(x)
    <2>1. h[x].pc = "replay"
      BY <1>1 DEF replayAdmission, At
    <2>2. \/ Refuse(x) \/ Answer(x, mine(x).resp)
          \/ \E l \in {"alias", "create", "retained"} : Goto(x, l) /\ UNCHANGED tasks
      BY <1>1 DEF replayAdmission
    <2> QED BY <2>1, <2>2, RefuseEnds, AnswerEnds, GotoWalks
  <1>2. ASSUME bindAlias(x) PROVE Walk(x) \/ Ends(x)
    <2>1. h[x].pc = "alias"
      BY <1>2 DEF bindAlias, At
    <2>2. Refuse(x) \/ Answer(x, row(x).resp)
      BY <1>2 DEF bindAlias
    <2> QED BY <2>1, <2>2, RefuseEnds, AnswerEnds
  <1>3. ASSUME createSessionWithin(x) PROVE Walk(x) \/ Ends(x)
    <2>1. h[x].pc = "create"
      BY <1>3 DEF createSessionWithin, At
    <2>2. Refuse(x) \/ (Goto(x, "replay") /\ UNCHANGED tasks) \/ Answer(x, <<"session", req(x).key>>)
      BY <1>3 DEF createSessionWithin
    <2> QED BY <2>1, <2>2, RefuseEnds, AnswerEnds, GotoWalks
  <1>4. ASSUME submitInstalledRunOwned(x) PROVE Walk(x) \/ Ends(x)
    <2>1. h[x].pc = "retained"
      BY <1>4 DEF submitInstalledRunOwned, At
    <2>2. Refuse(x) \/ (\E l \in {"refusal", "credential"} : Goto(x, l) /\ UNCHANGED tasks)
      BY <1>4 DEF submitInstalledRunOwned
    <2> QED BY <2>1, <2>2, RefuseEnds, GotoWalks
  <1> QED BY <1>1, <1>2, <1>3, <1>4

\* A replay of the source ends only at a retained row.
LEMMA ReplayMeans ==
    ASSUME NEW x \in Handler, NEW next, replaySubmittedSource(x, next)
    PROVE  /\ UNCHANGED <<admitted, source, staging, owner>>
           /\ \/ Refuse(x) /\ UNCHANGED control
              \/ /\ attempt(x) = Absent /\ Goto(x, next) /\ UNCHANGED <<control, tasks, answers>>
              \/ /\ attempt(x) # Absent /\ attempt(x).intent = req(x).intent /\ retained(attempt(x))
                 /\ attempt(x).outcome = "captured" /\ UNCHANGED <<control, answers>>
                 /\ Settle(x, [pc |-> "assemble", req |-> req(x)], TRUE)
              \/ /\ attempt(x) # Absent /\ attempt(x).intent = req(x).intent /\ retained(attempt(x))
                 /\ attempt(x).outcome # "captured" /\ requestIdIsFree(x, Absent)
                 /\ mine(x) # Absent => mine(x).resp = attempt(x).resp
                 /\ control' = IF mine(x) = Absent THEN Bound(x, attempt(x).resp) ELSE control
                 /\ Answer(x, attempt(x).resp)
  BY DEF replaySubmittedSource

LEMMA ReplaySteps ==
    ASSUME NEW x \in Handler, replayRefusal(x) \/ replayCapture(x)
    PROVE  Walk(x) \/ Ends(x)
  <1>1. \E next \in {"credential", "target"} :
          /\ replaySubmittedSource(x, next)
          /\ h[x].pc = IF next = "credential" THEN "refusal" ELSE "source"
    BY DEF replayRefusal, replayCapture, At
  <1>2. PICK next \in {"credential", "target"} :
          /\ replaySubmittedSource(x, next)
          /\ h[x].pc = IF next = "credential" THEN "refusal" ELSE "source"
    BY <1>1
  <1>3. CASE Refuse(x)
    BY <1>2, <1>3, RefuseEnds
  <1>4. CASE attempt(x) = Absent /\ Goto(x, next) /\ UNCHANGED tasks
    BY <1>2, <1>4, GotoWalks
  <1>5. ASSUME retained(attempt(x)), attempt(x) # Absent, source' = source
        PROVE  source'[req(x).key] # Absent /\ source'[req(x).key].phase = "retired"
    BY <1>5 DEF retained, attempt
  <1>6. CASE /\ attempt(x) # Absent /\ retained(attempt(x)) /\ source' = source
             /\ Settle(x, [pc |-> "assemble", req |-> req(x)], TRUE)
    BY <1>2, <1>5, <1>6 DEF Ends
  <1>7. CASE attempt(x) # Absent /\ retained(attempt(x)) /\ source' = source /\ Answer(x, attempt(x).resp)
    BY <1>2, <1>5, <1>7, AnswerEnds
  <1> QED BY <1>2, <1>3, <1>4, <1>6, <1>7, ReplayMeans

LEMMA LeaderSteps ==
    ASSUME AdmissionConstants, AdmTyped, StepInv, NEW x \in Handler,
           \/ admissionCapacity(x) \/ createVerifiedSourceInspectionTarget(x) \/ createStaging(x)
           \/ reserveSourceInspectionAttempt(x) \/ reservationFails(x) \/ retireStaging(x) \/ retireSource(x)
    PROVE  Walk(x) \/ Ends(x)
  <1>1. ASSUME admissionCapacity(x) PROVE Walk(x) \/ Ends(x)
    <2>1. h[x].pc = "capacity"
      BY <1>1 DEF admissionCapacity, At
    <2>2. Refuse(x) \/ (Goto(x, "source") /\ UNCHANGED tasks)
      BY <1>1 DEF admissionCapacity
    <2> QED BY <2>1, <2>2, RefuseEnds, GotoWalks
  <1>2. ASSUME createVerifiedSourceInspectionTarget(x) PROVE Walk(x) \/ Ends(x)
    <2>1. h[x].pc = "target"
      BY <1>2 DEF createVerifiedSourceInspectionTarget, At
    <2>2. Refuse(x) \/ (Goto(x, "stage") /\ UNCHANGED tasks)
      BY <1>2 DEF createVerifiedSourceInspectionTarget
    <2> QED BY <2>1, <2>2, RefuseEnds, GotoWalks
  <1>3. ASSUME createStaging(x) PROVE Walk(x) \/ Ends(x)
    <2>1. h[x].pc = "stage"
      BY <1>3 DEF createStaging, At
    <2>2. Refuse(x) \/ (Goto(x, "reserve") /\ UNCHANGED tasks)
      BY <1>3 DEF createStaging
    <2> QED BY <2>1, <2>2, RefuseEnds, GotoWalks
  <1>4. ASSUME reserveSourceInspectionAttempt(x) PROVE Walk(x) \/ Ends(x)
    <2>1. h[x].pc = "reserve" /\ UNCHANGED tasks
      BY <1>4 DEF reserveSourceInspectionAttempt, At
    <2>2. Goto(x, "capture") \/ Goto(x, "unreserved")
      BY <1>4, ReserveMeans
    <2> QED BY <2>1, <2>2, GotoWalks
  <1>5. ASSUME reservationFails(x) PROVE Walk(x) \/ Ends(x)
    <2>1. h[x].pc = "reserve" /\ UNCHANGED tasks /\ Goto(x, "unreserved")
      BY <1>5 DEF reservationFails, At
    <2> QED BY <2>1, GotoWalks
  <1>6. ASSUME retireStaging(x) PROVE Walk(x) \/ Ends(x)
    <2>1. h[x].pc \in {"unstage", "unreserved"}
      BY <1>6 DEF retireStaging
    <2>2. Refuse(x) \/ (Goto(x, "retire") /\ UNCHANGED tasks /\ h[x].pc # "unreserved")
      BY <1>6 DEF retireStaging
    <2> QED BY <2>1, <2>2, RefuseEnds, GotoWalks
  <1>7. ASSUME retireSource(x) PROVE Walk(x) \/ Ends(x)
    <2>1. h[x].pc = "retire" /\ h[x].req \in Request
      BY <1>7, RetireMeans
    <2>2. req(x).key \in Key /\ attempt(x) # Absent
      BY <2>1, Named DEF req, StepInv
    <2>3. CASE Refuse(x)
      BY <2>1, <2>3, RefuseEnds
    <2>4. ASSUME NEW c \in Cause, source' = Retired(req(x).key, c, "joined"),
                 IF c = "none" THEN Settle(x, [pc |-> "assemble", req |-> req(x)], TRUE)
                 ELSE Answer(x, errorResponse(c, req(x).key))
          PROVE  Ends(x)
      <3>1. source'[req(x).key] # Absent /\ source'[req(x).key].phase = "retired"
        BY <2>2, <2>4, RetiredMeans DEF attempt
      <3>2. CASE c = "none"
        BY <2>1, <2>4, <3>1, <3>2 DEF Ends
      <3>3. CASE c # "none"
        BY <2>1, <2>4, <3>1, <3>3, AnswerEnds
      <3> QED BY <3>2, <3>3
    <2> QED BY <1>7, <2>3, <2>4, RetireMeans
  <1> QED BY <1>1, <1>2, <1>3, <1>4, <1>5, <1>6, <1>7

LEMMA RunSteps ==
    ASSUME NEW x \in Handler,
           \/ assembleInstalledRun(x) \/ captureInstalledWorkspaceInstructions(x) \/ admitRunInternal(x)
           \/ admitInstalledRun(x) \/ refuse(x)
    PROVE  Walk(x) \/ Ends(x)
  <1>1. ASSUME assembleInstalledRun(x) PROVE Walk(x) \/ Ends(x)
    <2>1. h[x].pc = "assemble"
      BY <1>1 DEF assembleInstalledRun, At
    <2>2. Refuse(x) \/ (Goto(x, "instruct") /\ UNCHANGED tasks)
      BY <1>1 DEF assembleInstalledRun
    <2> QED BY <2>1, <2>2, RefuseEnds, GotoWalks
  <1>2. ASSUME captureInstalledWorkspaceInstructions(x) PROVE Walk(x) \/ Ends(x)
    <2>1. h[x].pc = "instruct"
      BY <1>2 DEF captureInstalledWorkspaceInstructions, At
    <2>2. Refuse(x) \/ (Goto(x, "prepare") /\ UNCHANGED tasks)
      BY <1>2 DEF captureInstalledWorkspaceInstructions
    <2> QED BY <2>1, <2>2, RefuseEnds, GotoWalks
  <1>3. ASSUME admitRunInternal(x) PROVE Walk(x) \/ Ends(x)
    <2>1. h[x].pc = "prepare"
      BY <1>3 DEF admitRunInternal, At
    <2>2. Refuse(x) \/ (\E l \in {"replay", "admit"} : Goto(x, l) /\ UNCHANGED tasks)
      BY <1>3 DEF admitRunInternal
    <2> QED BY <2>1, <2>2, RefuseEnds, GotoWalks
  <1>4. ASSUME admitInstalledRun(x) PROVE Walk(x) \/ Ends(x)
    <2>1. h[x].pc = "admit"
      BY <1>4 DEF admitInstalledRun, At
    <2>2. Refuse(x) \/ (Goto(x, "replay") /\ UNCHANGED tasks) \/ Answer(x, <<"run", req(x).key>>)
      BY <1>4 DEF admitInstalledRun
    <2> QED BY <2>1, <2>2, RefuseEnds, AnswerEnds, GotoWalks
  <1>5. ASSUME refuse(x) PROVE Walk(x) \/ Ends(x)
    <2>1. h[x].pc \notin {"idle", "joined"} /\ Refuse(x)
      BY <1>5 DEF refuse, Fails
    <2> QED BY <2>1, RefuseEnds
  <1> QED BY <1>1, <1>2, <1>3, <1>4, <1>5

\* Retired rows do not change.
Retained == \A k \in Key : source[k] # Absent /\ source[k].phase = "retired" => source'[k] = source[k]
TablesTyped == h' \in [Handler -> Handling] /\ tasks' \in [Key -> {Absent} \cup Task]

LEMMA TaskWalks ==
    ASSUME AdmissionConstants, AdmTyped, StepInv, TaskInv, Retained, NEW x \in Handler, Walk(x)
    PROVE  TablesTyped /\ TaskInv'
  <1>1. PICK l \in Labels \ {"joined"} :
          /\ Goto(x, l) /\ UNCHANGED tasks /\ h[x].pc \notin {"idle", "joined"}
          /\ h[x].pc \in Leading <=> l \in Leading
          /\ h[x].pc \in {"capacity", "source"} /\ l \notin {"capacity", "source"} => attempt(x) = Absent
    BY DEF Walk
  <1>2. h[x] # Idle
    BY <1>1 DEF Idle
  <1>3. /\ h' \in [Handler -> Handling] /\ h'[x].pc = l /\ h'[x].req = h[x].req
        /\ \A y \in Handler : y # x => h'[y] = h[y]
    BY <1>1, <1>2, GotoMeans
  <1>4. tasks \in [Key -> {Absent} \cup Task] /\ \A k \in Key : tasks[k] # Absent => tasks[k].leader \in Handler
    BY DEF AdmTyped, Task
  <1>5. \A y \in Handler : h'[y].req = h[y].req /\ (h'[y].pc \in Leading <=> h[y].pc \in Leading)
    BY <1>1, <1>3
  <1>6. TablesTyped
    BY <1>1, <1>3, <1>4 DEF TablesTyped
  <1>7. ASSUME NEW k \in Key, tasks'[k] # Absent
        PROVE  /\ h'[tasks'[k].leader].pc \in Leading /\ h'[tasks'[k].leader].req.key = k
               /\ h'[tasks'[k].leader].req.intent = tasks'[k].intent
    BY <1>1, <1>4, <1>5, <1>7 DEF TaskInv, req
  <1>8. ASSUME NEW y \in Handler, h'[y].pc \in Leading
        PROVE  \/ tasks'[h'[y].req.key] # Absent /\ tasks'[h'[y].req.key].leader = y
               \/ /\ h'[y].pc \in {"capacity", "source"} /\ source'[h'[y].req.key] # Absent
                  /\ source'[h'[y].req.key].phase = "retired"
    <2>1. h[y].pc \in Leading /\ h'[y].req = h[y].req
      BY <1>5, <1>8
    <2>2. h[y].req.key \in Key
      BY <2>1, Busy, Named DEF Idle
    <2>3. CASE tasks[h[y].req.key] # Absent /\ tasks[h[y].req.key].leader = y
      BY <1>1, <2>1, <2>3
    <2>4. CASE h[y].pc \in {"capacity", "source"} /\ source[h[y].req.key] # Absent /\ source[h[y].req.key].phase = "retired"
      <3>1. source'[h[y].req.key] = source[h[y].req.key]
        BY <2>2, <2>4 DEF Retained
      <3>2. h'[y].pc \in {"capacity", "source"}
        BY <1>1, <1>3, <2>4 DEF attempt, req
      <3> QED BY <2>1, <2>4, <3>1, <3>2
    <2> QED BY <2>1, <2>3, <2>4 DEF TaskInv, req, attempt
  <1>9. ASSUME NEW y \in Handler, h'[y].pc = "joined"
        PROVE  /\ tasks'[h'[y].req.key] # Absent /\ tasks'[h'[y].req.key].leader = h'[y].leader
               /\ tasks'[h'[y].req.key].intent = h'[y].req.intent
    <2>1. y # x /\ h'[y] = h[y]
      BY <1>1, <1>3, <1>9
    <2> QED BY <1>1, <1>9, <2>1 DEF TaskInv, req
  <1> QED BY <1>6, <1>7, <1>8, <1>9 DEF TaskInv, req, attempt

LEMMA TaskEnds ==
    ASSUME AdmissionConstants, AdmTyped, StepInv, TaskInv, Retained, NEW x \in Handler, Ends(x)
    PROVE  TablesTyped /\ TaskInv'
  <1>1. PICK next \in {Idle, [pc |-> "assemble", req |-> req(x)]}, ok \in BOOLEAN :
          /\ Settle(x, next, ok)
          /\ ok /\ h[x].pc \in Leading => source'[req(x).key] # Absent /\ source'[req(x).key].phase = "retired"
    BY DEF Ends
  <1>2. h[x] # Idle /\ h[x].pc # "joined"
    BY DEF Idle, Ends
  <1>3. h[x].req \in Request
    BY <1>2, Busy
  <1>4. next \in {Idle} \cup Working /\ next.pc \in {"idle", "assemble"}
    BY <1>3 DEF Working, req, Idle
  <1>5. /\ TablesTyped /\ h'[x] = next
        /\ \A y \in Handler : y # x =>
                \/ h'[y] = h[y] /\ ~(h[y].pc = "joined" /\ h[y].leader = x)
                \/ h'[y] = Idle
                \/ /\ ok /\ h[y].pc = "joined" /\ h[y].leader = x
                   /\ h'[y].pc = "capacity" /\ h'[y].req = h[y].req
        /\ \A k \in Key : tasks'[k] = IF tasks[k] # Absent /\ tasks[k].leader = x THEN Absent ELSE tasks[k]
    BY <1>1, <1>4, SettleMeans DEF TablesTyped
  <1>6. \A k \in Key : tasks[k] # Absent => tasks[k].leader \in Handler
    BY DEF AdmTyped, Task
  <1>7. \A y \in Handler : y # x => h'[y] = h[y] \/ h[y].pc = "joined"
    BY <1>1 DEF Settle, Waits
  <1>8. ASSUME NEW k \in Key, tasks'[k] # Absent
        PROVE  /\ h'[tasks'[k].leader].pc \in Leading /\ h'[tasks'[k].leader].req.key = k
               /\ h'[tasks'[k].leader].req.intent = tasks'[k].intent
    <2>1. tasks'[k] = tasks[k] /\ tasks[k] # Absent /\ tasks[k].leader # x
      BY <1>5, <1>8
    <2>2. /\ h[tasks[k].leader].pc \in Leading /\ h[tasks[k].leader].req.key = k
          /\ h[tasks[k].leader].req.intent = tasks[k].intent
      BY <2>1 DEF TaskInv, req
    <2>3. h'[tasks[k].leader] = h[tasks[k].leader]
      BY <1>6, <1>7, <2>1, <2>2
    <2> QED BY <2>1, <2>2, <2>3
  <1>9. ASSUME NEW y \in Handler, h'[y].pc \in Leading
        PROVE  \/ tasks'[h'[y].req.key] # Absent /\ tasks'[h'[y].req.key].leader = y
               \/ /\ h'[y].pc \in {"capacity", "source"} /\ source'[h'[y].req.key] # Absent
                  /\ source'[h'[y].req.key].phase = "retired"
    <2>1. y # x
      BY <1>4, <1>5, <1>9
    <2>2. h[y].req.key \in Key
      <3>1. h[y] # Idle
        BY <1>5, <1>9, <2>1 DEF Idle
      <3> QED BY <3>1, Busy, Named
    <2>3. CASE h'[y] = h[y]
      <3>1. CASE tasks[h[y].req.key] # Absent /\ tasks[h[y].req.key].leader = y
        BY <1>5, <2>1, <2>2, <2>3, <3>1
      <3>2. CASE h[y].pc \in {"capacity", "source"} /\ source[h[y].req.key] # Absent /\ source[h[y].req.key].phase = "retired"
        BY <2>2, <2>3, <3>2 DEF Retained
      <3> QED BY <1>9, <2>3, <3>1, <3>2 DEF TaskInv, req, attempt
    <2>4. CASE /\ ok /\ h[y].pc = "joined" /\ h[y].leader = x
               /\ h'[y].pc = "capacity" /\ h'[y].req = h[y].req
      <3>1. tasks[h[y].req.key] # Absent /\ tasks[h[y].req.key].leader = x
        BY <2>4 DEF TaskInv, req
      <3>2. h[x].pc \in Leading /\ h[x].req.key = h[y].req.key
        BY <2>2, <3>1 DEF TaskInv, req
      <3>3. source'[h[y].req.key] # Absent /\ source'[h[y].req.key].phase = "retired"
        BY <1>1, <2>4, <3>2 DEF req
      <3> QED BY <2>4, <3>3
    <2> QED BY <1>5, <1>9, <2>1, <2>3, <2>4 DEF Idle
  <1>10. ASSUME NEW y \in Handler, h'[y].pc = "joined"
        PROVE  /\ tasks'[h'[y].req.key] # Absent /\ tasks'[h'[y].req.key].leader = h'[y].leader
               /\ tasks'[h'[y].req.key].intent = h'[y].req.intent
    <2>1. y # x /\ h'[y] = h[y] /\ h[y].leader # x
      BY <1>4, <1>5, <1>10 DEF Idle
    <2>2. h[y].req.key \in Key
      <3>1. h[y] # Idle
        BY <1>10, <2>1 DEF Idle
      <3> QED BY <3>1, Busy, Named
    <2>3. /\ tasks[h[y].req.key] # Absent /\ tasks[h[y].req.key].leader = h[y].leader
          /\ tasks[h[y].req.key].intent = h[y].req.intent
      BY <1>10, <2>1 DEF TaskInv, req
    <2> QED BY <1>5, <2>1, <2>2, <2>3
  <1> QED BY <1>5, <1>8, <1>9, <1>10 DEF TaskInv, req, attempt

LEMMA TaskJoins ==
    ASSUME AdmissionConstants, AdmTyped, StepInv, TaskInv, Retained, NEW x \in Handler, joinCapture(x)
    PROVE  TablesTyped /\ TaskInv'
  <1>1. h[x].pc = "credential" /\ h[x].req \in Request /\ h[x] # Idle
    BY Busy DEF joinCapture, At, Idle
  <1>2. h[x].req.key \in Key /\ h[x].req.intent \in Intent
    BY <1>1, Named
  <1>3. /\ tasks \in [Key -> {Absent} \cup Task] /\ h \in [Handler -> Handling]
        /\ \A k \in Key : tasks[k] # Absent => tasks[k].leader \in Handler
    BY DEF AdmTyped, Task
  <1>4. CASE Refuse(x)
    BY <1>1, <1>4, RefuseEnds, TaskEnds
  <1>5. ASSUME tasks[h[x].req.key] # Absent, tasks[h[x].req.key].intent = h[x].req.intent,
               h' = [h EXCEPT ![x] = [pc |-> "joined", req |-> h[x].req, leader |-> tasks[h[x].req.key].leader]],
               tasks' = tasks
        PROVE  TablesTyped /\ TaskInv'
    <2>1. [pc |-> "joined", req |-> h[x].req, leader |-> tasks[h[x].req.key].leader] \in Joined
      BY <1>1, <1>2, <1>3, <1>5 DEF Joined
    <2>2. /\ h' \in [Handler -> Handling] /\ \A y \in Handler : y # x => h'[y] = h[y]
          /\ h'[x].pc = "joined" /\ h'[x].req = h[x].req /\ h'[x].leader = tasks[h[x].req.key].leader
      BY <1>3, <1>5, <2>1 DEF Handling
    <2>3. ASSUME NEW k \in Key, tasks'[k] # Absent
          PROVE  /\ h'[tasks'[k].leader].pc \in Leading /\ h'[tasks'[k].leader].req.key = k
                 /\ h'[tasks'[k].leader].req.intent = tasks'[k].intent
      <3>1. /\ h[tasks[k].leader].pc \in Leading /\ h[tasks[k].leader].req.key = k
            /\ h[tasks[k].leader].req.intent = tasks[k].intent
        BY <1>5, <2>3 DEF TaskInv, req
      <3> QED BY <1>1, <1>3, <1>5, <2>2, <2>3, <3>1
    <2>4. ASSUME NEW y \in Handler, h'[y].pc \in Leading
          PROVE  \/ tasks'[h'[y].req.key] # Absent /\ tasks'[h'[y].req.key].leader = y
                 \/ /\ h'[y].pc \in {"capacity", "source"} /\ source'[h'[y].req.key] # Absent
                    /\ source'[h'[y].req.key].phase = "retired"
      <3>1. h'[y] = h[y]
        BY <2>2, <2>4
      <3>2. h[y].req.key \in Key
        BY <2>4, <3>1, Busy, Named DEF Idle
      <3> QED BY <1>5, <2>4, <3>1, <3>2 DEF TaskInv, req, attempt, Retained
    <2>5. ASSUME NEW y \in Handler, h'[y].pc = "joined"
          PROVE  /\ tasks'[h'[y].req.key] # Absent /\ tasks'[h'[y].req.key].leader = h'[y].leader
                 /\ tasks'[h'[y].req.key].intent = h'[y].req.intent
      BY <1>5, <2>2, <2>5 DEF TaskInv, req
    <2> QED BY <1>3, <1>5, <2>2, <2>3, <2>4, <2>5 DEF TaskInv, req, attempt, TablesTyped
  <1>6. ASSUME tasks[h[x].req.key] = Absent, Goto(x, "capacity"),
               tasks' = [tasks EXCEPT ![h[x].req.key] = [intent |-> h[x].req.intent, leader |-> x]]
        PROVE  TablesTyped /\ TaskInv'
    <2>1. [intent |-> h[x].req.intent, leader |-> x] \in Task
      BY <1>2 DEF Task
    <2>2. /\ tasks' \in [Key -> {Absent} \cup Task] /\ \A k \in Key : k # h[x].req.key => tasks'[k] = tasks[k]
          /\ tasks'[h[x].req.key] # Absent /\ tasks'[h[x].req.key].leader = x
          /\ tasks'[h[x].req.key].intent = h[x].req.intent
      BY <1>2, <1>3, <1>6, <2>1, RowsAreThere
    <2>3. /\ h' \in [Handler -> Handling] /\ h'[x].pc = "capacity" /\ h'[x].req = h[x].req
          /\ \A y \in Handler : y # x => h'[y] = h[y]
      BY <1>1, <1>6, GotoMeans
    <2>4. ASSUME NEW k \in Key, tasks'[k] # Absent
          PROVE  /\ h'[tasks'[k].leader].pc \in Leading /\ h'[tasks'[k].leader].req.key = k
                 /\ h'[tasks'[k].leader].req.intent = tasks'[k].intent
      <3>1. CASE k = h[x].req.key
        BY <2>2, <2>3, <3>1
      <3>2. CASE k # h[x].req.key
        <4>1. /\ h[tasks[k].leader].pc \in Leading /\ h[tasks[k].leader].req.key = k
              /\ h[tasks[k].leader].req.intent = tasks[k].intent
          BY <2>2, <2>4, <3>2 DEF TaskInv, req
        <4> QED BY <1>1, <1>3, <2>2, <2>3, <2>4, <3>2, <4>1
      <3> QED BY <3>1, <3>2
    <2>5. ASSUME NEW y \in Handler, h'[y].pc \in Leading
          PROVE  \/ tasks'[h'[y].req.key] # Absent /\ tasks'[h'[y].req.key].leader = y
                 \/ /\ h'[y].pc \in {"capacity", "source"} /\ source'[h'[y].req.key] # Absent
                    /\ source'[h'[y].req.key].phase = "retired"
      <3>1. CASE y = x
        BY <2>2, <2>3, <3>1
      <3>2. CASE y # x
        <4>1. h'[y] = h[y]
          BY <2>3, <3>2
        <4>2. h[y].req.key \in Key
          BY <2>5, <4>1, Busy, Named DEF Idle
        <4>3. CASE tasks[h[y].req.key] # Absent /\ tasks[h[y].req.key].leader = y
          BY <1>6, <2>2, <4>1, <4>2, <4>3
        <4>4. CASE h[y].pc \in {"capacity", "source"} /\ source[h[y].req.key] # Absent /\ source[h[y].req.key].phase = "retired"
          BY <4>1, <4>2, <4>4 DEF Retained
        <4> QED BY <2>5, <4>1, <4>3, <4>4 DEF TaskInv, req, attempt
      <3> QED BY <3>1, <3>2
    <2>6. ASSUME NEW y \in Handler, h'[y].pc = "joined"
          PROVE  /\ tasks'[h'[y].req.key] # Absent /\ tasks'[h'[y].req.key].leader = h'[y].leader
                 /\ tasks'[h'[y].req.key].intent = h'[y].req.intent
      <3>1. h'[y] = h[y]
        BY <2>3, <2>6
      <3>2. h[y].req.key \in Key
        BY <2>6, <3>1, Busy, Named DEF Idle
      <3> QED BY <1>6, <2>2, <2>6, <3>1, <3>2 DEF TaskInv, req
    <2> QED BY <2>2, <2>3, <2>4, <2>5, <2>6 DEF TaskInv, req, attempt, TablesTyped
  <1> QED BY <1>4, <1>5, <1>6 DEF joinCapture, req

\* The place and what is found there change, the request and the tasks do not.
LEMMA TaskStays ==
    ASSUME AdmissionConstants, AdmTyped, StepInv, TaskInv, Retained, NEW x \in Handler,
           h[x].pc \in {"capture", "unstage", "unreserved"}, tasks' = tasks,
           h' \in [Handler -> Handling], h'[x].pc \in {"unstage", "kept"}, h'[x].req = h[x].req,
           \A y \in Handler : y # x => h'[y] = h[y] \/ (h[y].pc = "joined" /\ h'[y] = Idle)
    PROVE  TablesTyped /\ TaskInv'
  <1>1. tasks \in [Key -> {Absent} \cup Task] /\ \A k \in Key : tasks[k] # Absent => tasks[k].leader \in Handler
    BY DEF AdmTyped, Task
  <1>2. ASSUME NEW k \in Key, tasks'[k] # Absent
        PROVE  /\ h'[tasks'[k].leader].pc \in Leading /\ h'[tasks'[k].leader].req.key = k
               /\ h'[tasks'[k].leader].req.intent = tasks'[k].intent
    <2>1. /\ h[tasks[k].leader].pc \in Leading /\ h[tasks[k].leader].req.key = k
          /\ h[tasks[k].leader].req.intent = tasks[k].intent
      BY <1>2 DEF TaskInv, req
    <2> QED BY <1>1, <1>2, <2>1
  <1>3. ASSUME NEW y \in Handler, h'[y].pc \in Leading
        PROVE  \/ tasks'[h'[y].req.key] # Absent /\ tasks'[h'[y].req.key].leader = y
               \/ /\ h'[y].pc \in {"capacity", "source"} /\ source'[h'[y].req.key] # Absent
                  /\ source'[h'[y].req.key].phase = "retired"
    <2>1. CASE y = x
      BY <2>1 DEF TaskInv, req
    <2>2. CASE y # x
      <3>1. h'[y] = h[y]
        BY <1>3, <2>2 DEF Idle
      <3>2. h[y].req.key \in Key
        BY <1>3, <3>1, Busy, Named DEF Idle
      <3> QED BY <1>3, <3>1, <3>2 DEF TaskInv, req, attempt, Retained
    <2> QED BY <2>1, <2>2
  <1>4. ASSUME NEW y \in Handler, h'[y].pc = "joined"
        PROVE  /\ tasks'[h'[y].req.key] # Absent /\ tasks'[h'[y].req.key].leader = h'[y].leader
               /\ tasks'[h'[y].req.key].intent = h'[y].req.intent
    <2>1. h'[y] = h[y]
      BY <1>4 DEF Idle
    <2> QED BY <1>4, <2>1 DEF TaskInv, req
  <1> QED BY <1>1, <1>2, <1>3, <1>4 DEF TaskInv, req, attempt, TablesTyped

LEMMA TaskCaptures ==
    ASSUME AdmissionConstants, AdmTyped, StepInv, NEW x \in Handler, captureSource(x)
    PROVE  /\ h[x].pc = "capture" /\ h' \in [Handler -> Handling] /\ h'[x].pc = "unstage" /\ h'[x].req = h[x].req
           /\ h'[x] \in Captured /\ \A y \in Handler : y # x => h'[y] = h[y]
           /\ UNCHANGED <<control, admitted, source, staging, owner, tasks, answers>>
  <1>1. h[x].pc = "capture" /\ h[x].req \in Request
    BY Busy DEF captureSource, At, Idle
  <1>2. UNCHANGED <<control, admitted, source, staging, owner, tasks, answers>>
    BY DEF captureSource, db
  <1>3. PICK c \in Cause : h' = [h EXCEPT ![x] = [pc |-> "unstage", req |-> req(x), cause |-> c]]
    BY DEF captureSource, Cause
  <1>4. [pc |-> "unstage", req |-> req(x), cause |-> c] \in Captured
    BY <1>1 DEF Captured, req
  <1>5. h \in [Handler -> Handling]
    BY DEF AdmTyped
  <1> QED BY <1>1, <1>2, <1>3, <1>4, <1>5 DEF Handling, req

\* Whatever a handler holds, being kept changes only its place.
LEMMA TaskKeeps ==
    ASSUME AdmissionConstants, AdmTyped, StepInv, NEW x \in Handler, retirementFails(x)
    PROVE  /\ h[x].pc \in {"unstage", "unreserved"} /\ h' \in [Handler -> Handling] /\ h'[x].pc = "kept"
           /\ h'[x].req = h[x].req
           /\ \A y \in Handler : y # x => h'[y] = h[y] \/ (h[y].pc = "joined" /\ h'[y] = Idle)
           /\ UNCHANGED <<control, admitted, source, staging, owner, tasks, answers>>
  <1>1. /\ h[x].pc \in {"unstage", "unreserved"} /\ h[x] # Idle
        /\ h' = [y \in Handler |-> IF y = x THEN [h[x] EXCEPT !.pc = "kept"] ELSE IF y \in Waits(x) THEN Idle ELSE h[y]]
        /\ UNCHANGED <<control, admitted, source, staging, owner, tasks, answers>>
    BY DEF retirementFails, db, Idle
  <1>2. h[x] \in Working \cup Joined \cup Captured
    BY <1>1 DEF AdmTyped, Handling
  <1>3. h'[x] = [h[x] EXCEPT !.pc = "kept"]
    BY <1>1
  <1>4. h'[x] \in Handling /\ h'[x].pc = "kept" /\ h'[x].req = h[x].req
    <2>1. CASE h[x] \in Working
      <3>1. PICK p \in Labels, r \in Request : h[x] = [pc |-> p, req |-> r]
        BY <2>1 DEF Working
      <3>2. h'[x] = [pc |-> "kept", req |-> r]
        BY <1>3, <3>1
      <3>3. h'[x] \in Working
        BY <3>2 DEF Working
      <3> QED BY <3>1, <3>2, <3>3 DEF Handling
    <2>2. CASE h[x] \in Joined
      <3>1. PICK p \in Labels, r \in Request, d \in Handler : h[x] = [pc |-> p, req |-> r, leader |-> d]
        BY <2>2 DEF Joined
      <3>2. h'[x] = [pc |-> "kept", req |-> r, leader |-> d]
        BY <1>3, <3>1
      <3>3. h'[x] \in Joined
        BY <3>2 DEF Joined
      <3> QED BY <3>1, <3>2, <3>3 DEF Handling
    <2>3. CASE h[x] \in Captured
      <3>1. PICK p \in Labels, r \in Request, c \in Cause : h[x] = [pc |-> p, req |-> r, cause |-> c]
        BY <2>3 DEF Captured
      <3>2. h'[x] = [pc |-> "kept", req |-> r, cause |-> c]
        BY <1>3, <3>1
      <3>3. h'[x] \in Captured
        BY <3>2 DEF Captured
      <3> QED BY <3>1, <3>2, <3>3 DEF Handling
    <2> QED BY <1>2, <2>1, <2>2, <2>3
  <1>5. \A y \in Handler : y # x => h'[y] = h[y] \/ (h[y].pc = "joined" /\ h'[y] = Idle)
    BY <1>1 DEF Waits
  <1>6. h' \in [Handler -> Handling]
    <2>1. ASSUME NEW y \in Handler PROVE h'[y] \in Handling
      BY <1>4, <1>5 DEF AdmTyped, Handling
    <2> QED BY <1>1, <2>1
  <1> QED BY <1>1, <1>4, <1>5, <1>6

LEMMA TaskStarts ==
    ASSUME AdmissionConstants, AdmTyped, StepInv, TaskInv, Retained, NEW x \in Handler, ownInstalledAdmission(x)
    PROVE  TablesTyped /\ TaskInv'
  <1>1. h[x].pc = "idle" /\ tasks' = tasks
    BY DEF ownInstalledAdmission, Idle
  <1>2. /\ tasks \in [Key -> {Absent} \cup Task] /\ h \in [Handler -> Handling]
        /\ \A k \in Key : tasks[k] # Absent => tasks[k].leader \in Handler
    BY DEF AdmTyped, Task
  <1>3. h' \in [Handler -> Handling] /\ h'[x].pc \in {"idle", "replay"}
        /\ \A y \in Handler : y # x => h'[y] = h[y]
    <2>1. CASE h' = h
      BY <1>1, <1>2, <2>1
    <2>2. ASSUME NEW r \in Request, h' = [h EXCEPT ![x] = [pc |-> "replay", req |-> r]]
          PROVE  h' \in [Handler -> Handling] /\ h'[x].pc \in {"idle", "replay"}
                 /\ \A y \in Handler : y # x => h'[y] = h[y]
      <3>1. [pc |-> "replay", req |-> r] \in Working
        BY DEF Working
      <3> QED BY <1>2, <2>2, <3>1 DEF Handling
    <2> QED BY <2>1, <2>2 DEF ownInstalledAdmission
  <1>4. ASSUME NEW k \in Key, tasks'[k] # Absent
        PROVE  /\ h'[tasks'[k].leader].pc \in Leading /\ h'[tasks'[k].leader].req.key = k
               /\ h'[tasks'[k].leader].req.intent = tasks'[k].intent
    BY <1>1, <1>2, <1>3, <1>4 DEF TaskInv, req
  <1>5. ASSUME NEW y \in Handler, h'[y].pc \in Leading
        PROVE  \/ tasks'[h'[y].req.key] # Absent /\ tasks'[h'[y].req.key].leader = y
               \/ /\ h'[y].pc \in {"capacity", "source"} /\ source'[h'[y].req.key] # Absent
                  /\ source'[h'[y].req.key].phase = "retired"
    <2>1. h'[y] = h[y]
      BY <1>3, <1>5
    <2>2. h[y].req.key \in Key
      BY <1>5, <2>1, Busy, Named DEF Idle
    <2> QED BY <1>1, <1>5, <2>1, <2>2 DEF TaskInv, req, attempt, Retained
  <1>6. ASSUME NEW y \in Handler, h'[y].pc = "joined"
        PROVE  /\ tasks'[h'[y].req.key] # Absent /\ tasks'[h'[y].req.key].leader = h'[y].leader
               /\ tasks'[h'[y].req.key].intent = h'[y].req.intent
    <2>1. h'[y] = h[y]
      BY <1>3, <1>6
    <2> QED BY <1>1, <1>6, <2>1 DEF TaskInv, req
  <1> QED BY <1>1, <1>2, <1>3, <1>4, <1>5, <1>6 DEF TaskInv, req, attempt, TablesTyped

LEMMA TaskStep ==
    ASSUME AdmissionConstants, AdmTyped, StepInv, TaskInv, [Next]_vars
    PROVE  TablesTyped /\ TaskInv'
  <1>1. Retained
    BY SourceSteps DEF Retained
  <1>2. CASE UNCHANGED <<h, tasks>>
    <2>1. TablesTyped
      BY <1>2 DEF AdmTyped, TablesTyped
    <2>2. ASSUME NEW y \in Handler, h[y].pc \in Leading
          PROVE  \/ tasks[h[y].req.key] # Absent /\ tasks[h[y].req.key].leader = y
                 \/ /\ h[y].pc \in {"capacity", "source"} /\ source'[h[y].req.key] # Absent
                    /\ source'[h[y].req.key].phase = "retired"
      <3>1. h[y].req.key \in Key
        BY <2>2, Busy, Named DEF Idle
      <3> QED BY <1>1, <2>2, <3>1 DEF TaskInv, req, attempt, Retained
    <2> QED BY <1>2, <2>1, <2>2 DEF TaskInv, req, attempt
  <1>3. CASE Dies
    <2>1. h' = [x \in Handler |-> Idle] /\ tasks' = [k \in Key |-> Absent]
      BY <1>3 DEF Dies
    <2>2. Idle.pc = "idle"
      BY DEF Idle
    <2>3. TablesTyped
      BY <2>1 DEF TablesTyped, Handling
    <2> QED BY <2>1, <2>2, <2>3 DEF TaskInv
  <1>4. CASE endRun \/ beginClose \/ release \/ retireAbandonedSourceInspections
    BY <1>2, <1>4 DEF endRun, beginClose, release, retireAbandonedSourceInspections
  <1>5. ASSUME NEW x \in Handler, Walk(x) \/ Ends(x) PROVE TablesTyped /\ TaskInv'
    BY <1>1, <1>5, TaskWalks, TaskEnds
  <1>6. ASSUME NEW x \in Handler, joinCapture(x) PROVE TablesTyped /\ TaskInv'
    BY <1>1, <1>6, TaskJoins
  <1>7. ASSUME NEW x \in Handler, ownInstalledAdmission(x) PROVE TablesTyped /\ TaskInv'
    BY <1>1, <1>7, TaskStarts
  <1>8. ASSUME NEW x \in Handler, captureSource(x) PROVE TablesTyped /\ TaskInv'
    BY <1>1, <1>8, TaskCaptures, TaskStays
  <1>9. ASSUME NEW x \in Handler, retirementFails(x) PROVE TablesTyped /\ TaskInv'
    BY <1>1, <1>9, TaskKeeps, TaskStays
  <1>10. ASSUME Next PROVE TablesTyped /\ TaskInv'
    <2>1. CASE \E x \in Handler : \/ replayAdmission(x) \/ bindAlias(x) \/ createSessionWithin(x)
                                  \/ submitInstalledRunOwned(x)
      BY <1>5, <2>1, EarlySteps
    <2>2. CASE \E x \in Handler : replayRefusal(x) \/ replayCapture(x)
      BY <1>5, <2>2, ReplaySteps
    <2>3. CASE \E x \in Handler : \/ admissionCapacity(x) \/ createVerifiedSourceInspectionTarget(x)
                                  \/ createStaging(x) \/ reserveSourceInspectionAttempt(x)
                                  \/ reservationFails(x) \/ retireStaging(x) \/ retireSource(x)
      BY <1>5, <2>3, LeaderSteps
    <2>4. CASE \E x \in Handler : \/ assembleInstalledRun(x) \/ captureInstalledWorkspaceInstructions(x)
                                  \/ admitRunInternal(x) \/ admitInstalledRun(x) \/ refuse(x)
      BY <1>5, <2>4, RunSteps
    <2>5. CASE \E x \in Handler : \/ joinCapture(x) \/ ownInstalledAdmission(x) \/ captureSource(x)
                                  \/ retirementFails(x)
      BY <1>6, <1>7, <1>8, <1>9, <2>5
    <2> QED BY <1>3, <1>4, <1>10, <2>1, <2>2, <2>3, <2>4, <2>5 DEF Next
  <1> QED BY <1>2, <1>10 DEF vars

\* ---- what is admitted --------------------------------------------------------

\* What the two admitting transactions do.
LEMMA CreateMeans ==
    ASSUME AdmissionConstants, AdmTyped, StepInv, NEW x \in Handler, createSessionWithin(x)
    PROVE  /\ h[x].pc = "create" /\ h[x].req \in Request /\ req(x).method = "session.create"
           /\ UNCHANGED <<source, staging, owner>>
           /\ \/ Refuse(x) /\ UNCHANGED <<control, admitted>>
              \/ Goto(x, "replay") /\ UNCHANGED <<control, admitted, tasks, answers>>
              \/ /\ mine(x) = Absent /\ row(x) = Absent
                 /\ admitted' = [admitted EXCEPT ![<<req(x).method, req(x).key>>] =
                                   [intent |-> req(x).intent, by |-> req(x).id, resp |-> <<"session", req(x).key>>]]
                 /\ control' = Bound(x, <<"session", req(x).key>>)
                 /\ Answer(x, <<"session", req(x).key>>)
  <1>1. h[x].pc = "create"
    BY DEF createSessionWithin, At
  <1>2. h[x].req \in Request /\ req(x).method = "session.create"
    BY <1>1, Busy DEF StepInv, Idle
  <1> QED BY <1>1, <1>2 DEF createSessionWithin

LEMMA AdmitMeans ==
    ASSUME AdmissionConstants, AdmTyped, StepInv, NEW x \in Handler, admitInstalledRun(x)
    PROVE  /\ h[x].pc = "admit" /\ h[x].req \in Request /\ req(x).method = "run.submit"
           /\ UNCHANGED <<source, staging, owner>>
           /\ \/ Refuse(x) /\ UNCHANGED <<control, admitted>>
              \/ Goto(x, "replay") /\ UNCHANGED <<control, admitted, tasks, answers>>
              \/ /\ mine(x) = Absent /\ row(x) = Absent /\ hasCapacity
                 /\ admitted' = [admitted EXCEPT ![<<req(x).method, req(x).key>>] =
                                   [intent |-> req(x).intent, by |-> req(x).id, resp |-> <<"run", req(x).key>>,
                                    live |-> TRUE]]
                 /\ control' = Bound(x, <<"run", req(x).key>>)
                 /\ Answer(x, <<"run", req(x).key>>)
  <1>1. h[x].pc = "admit"
    BY DEF admitInstalledRun, At
  <1>2. h[x].req \in Request /\ req(x).method = "run.submit"
    BY <1>1, Busy DEF StepInv, Idle
  <1> QED BY <1>1, <1>2 DEF admitInstalledRun

\* The sets of Runs that ActiveRuns counts.
LiveRuns == {k \in Key : admitted[<<"run.submit", k>>] # Absent /\ admitted[<<"run.submit", k>>].live}

LEMMA FinitelyMany ==
    ASSUME AdmissionConstants
    PROVE  IsFiniteSet(Key) /\ IsFiniteSet(LiveRuns) /\ IsFiniteSet(LiveRuns') /\ ActiveRuns \in Nat /\ ActiveRuns' \in Nat
  <1>1. Key = {r.key : r \in Request} /\ IsFiniteSet(Request)
    BY DEF Key, AdmissionConstants
  <1>2. IsFiniteSet(Key)
    <2> DEFINE f == [r \in Request |-> r.key]
    <2>1. f \in [Request -> Key] /\ \A k \in Key : \E r \in Request : f[r] = k
      BY <1>1
    <2>2. f \in Surjection(Request, Key)
      BY <2>1 DEF Surjection
    <2> QED BY <1>1, <2>2, FS_Surjection
  <1>3. LiveRuns \subseteq Key /\ LiveRuns' \subseteq Key
    BY DEF LiveRuns
  <1>4. IsFiniteSet(LiveRuns) /\ IsFiniteSet(LiveRuns')
    BY <1>2, <1>3, FS_Subset
  <1> QED BY <1>2, <1>4, FS_CardinalityType DEF ActiveRuns, LiveRuns

\* An admitted row keeps its intent and its response; a new one is that of the
\* handler that found none; and no Run is admitted beyond the capacity.
LEMMA AdmittedSteps ==
    ASSUME AdmissionConstants, AdmTyped, StepInv, ActiveRuns <= Capacity, [Next]_vars
    PROVE  /\ admitted' \in [Method \X Key -> {Absent} \cup Session \cup Run]
           /\ \A k \in Key : admitted'[<<"run.submit", k>>] \in {Absent} \cup Run
           /\ \A i \in Method \X Key :
                /\ admitted[i] # Absent =>
                     /\ admitted'[i] # Absent /\ admitted'[i].intent = admitted[i].intent
                     /\ admitted'[i].resp = admitted[i].resp
                /\ admitted[i] = Absent /\ admitted'[i] # Absent =>
                     \E x \in Handler :
                        /\ h[x].req \in Request /\ i = <<req(x).method, req(x).key>>
                        /\ admitted'[i].intent = req(x).intent
                        /\ h[x].pc = IF i[1] = "run.submit" THEN "admit" ELSE "create"
                        /\ source' = source /\ control' = Bound(x, admitted'[i].resp) /\ mine(x) = Absent
                        /\ Answer(x, admitted'[i].resp) /\ admitted'[i].resp \in Responses
           /\ ActiveRuns' <= Capacity
  <1>0. /\ admitted \in [Method \X Key -> {Absent} \cup Session \cup Run]
        /\ \A k \in Key : admitted[<<"run.submit", k>>] \in {Absent} \cup Run
        /\ \A k \in Key : <<"run.submit", k>> \in Method \X Key
    BY DEF AdmTyped, AdmissionConstants
  <1>1. CASE admitted' = admitted
    BY <1>0, <1>1 DEF ActiveRuns
  <1>2. CASE endRun
    <2>1. PICK k \in Key :
            /\ admitted[<<"run.submit", k>>] # Absent
            /\ admitted' = [admitted EXCEPT ![<<"run.submit", k>>].live = FALSE]
      BY <1>2 DEF endRun
    <2> DEFINE i == <<"run.submit", k>>
    <2>2. i \in Method \X Key /\ admitted[i] \in Run
      BY <1>0, <2>1
    <2>3. PICK u \in Run : u = admitted[i]
      BY <2>2
    <2>4. admitted' = [admitted EXCEPT ![i] = [admitted[i] EXCEPT !.live = FALSE]]
      BY <2>1
    <2>5. admitted'[i] = [u EXCEPT !.live = FALSE]
          /\ \A j \in Method \X Key : j # i => admitted'[j] = admitted[j]
      BY <1>0, <2>2, <2>3, <2>4
    <2>6. admitted'[i] \in Run /\ ~admitted'[i].live
      <3>1. [u EXCEPT !.live = FALSE] \in Run
        BY DEF Run
      <3>2. ~[u EXCEPT !.live = FALSE].live
        BY DEF Run
      <3> QED BY <2>5, <3>1, <3>2
    <2>7. admitted'[i] # Absent /\ admitted'[i].intent = u.intent /\ admitted'[i].resp = u.resp
      <3>1. admitted'[i] # Absent
        BY <2>6, RowsAreThere
      <3>2. [u EXCEPT !.live = FALSE].intent = u.intent /\ [u EXCEPT !.live = FALSE].resp = u.resp
        BY DEF Run
      <3> QED BY <2>5, <3>1, <3>2
    <2>8. admitted[i].intent = u.intent /\ admitted[i].resp = u.resp
      BY <2>3
    <2> HIDE DEF i
    <2>9. admitted' \in [Method \X Key -> {Absent} \cup Session \cup Run]
      <3>1. admitted' = [j \in Method \X Key |-> admitted'[j]]
        BY <1>0, <2>4
      <3>2. \A j \in Method \X Key : admitted'[j] \in {Absent} \cup Session \cup Run
        BY <1>0, <2>5, <2>6
      <3> QED BY <3>1, <3>2
    <2>10. \A j \in Key : admitted'[<<"run.submit", j>>] \in {Absent} \cup Run
      BY <1>0, <2>5, <2>6
    <2>11. ActiveRuns' <= Capacity
      <3>1. LiveRuns' \subseteq LiveRuns
        BY <1>0, <2>2, <2>5, <2>6 DEF LiveRuns
      <3>2. ActiveRuns' <= ActiveRuns
        BY <3>1, FinitelyMany, FS_Subset DEF ActiveRuns, LiveRuns
      <3> QED BY <3>2, FinitelyMany DEF AdmissionConstants
    <2>12. admitted[i] # Absent
      BY <2>1 DEF i
    <2> QED BY <2>2, <2>5, <2>7, <2>8, <2>9, <2>10, <2>11, <2>12
  <1>3. ASSUME NEW x \in Handler, NEW new \in Session \cup Run,
               h[x].req \in Request, row(x) = Absent,
               req(x).method = "run.submit" => new \in Run,
               admitted' = [admitted EXCEPT ![<<req(x).method, req(x).key>>] = new]
        PROVE  /\ <<req(x).method, req(x).key>> \in Method \X Key /\ new # Absent
               /\ admitted' \in [Method \X Key -> {Absent} \cup Session \cup Run]
               /\ \A k \in Key : admitted'[<<"run.submit", k>>] \in {Absent} \cup Run
               /\ admitted'[<<req(x).method, req(x).key>>] = new
               /\ \A i \in Method \X Key : i # <<req(x).method, req(x).key>> => admitted'[i] = admitted[i]
    <2>1. <<req(x).method, req(x).key>> \in Method \X Key
      BY <1>3, Named DEF req
    <2>2. new # Absent
      BY RowsAreThere
    <2>3. /\ admitted' \in [Method \X Key -> {Absent} \cup Session \cup Run]
          /\ admitted'[<<req(x).method, req(x).key>>] = new
          /\ \A i \in Method \X Key : i # <<req(x).method, req(x).key>> => admitted'[i] = admitted[i]
      BY <1>0, <1>3, <2>1
    <2>4. ASSUME NEW k \in Key PROVE admitted'[<<"run.submit", k>>] \in {Absent} \cup Run
      <3>1. CASE <<"run.submit", k>> = <<req(x).method, req(x).key>>
        BY <1>3, <2>3, <3>1
      <3>2. CASE <<"run.submit", k>> # <<req(x).method, req(x).key>>
        BY <1>0, <2>3, <3>2
      <3> QED BY <3>1, <3>2
    <2> QED BY <2>1, <2>2, <2>3, <2>4
  <1>4. ASSUME NEW x \in Handler, createSessionWithin(x), admitted' # admitted
        PROVE  /\ h[x].pc = "create" /\ h[x].req \in Request /\ req(x).method = "session.create"
               /\ row(x) = Absent /\ mine(x) = Absent /\ source' = source
               /\ \E p \in Responses :
                    /\ [intent |-> req(x).intent, by |-> req(x).id, resp |-> p] \in Session
                    /\ admitted' = [admitted EXCEPT ![<<req(x).method, req(x).key>>] =
                                      [intent |-> req(x).intent, by |-> req(x).id, resp |-> p]]
                    /\ control' = Bound(x, p) /\ Answer(x, p)
    <2>1. h[x].req \in Request
      BY <1>4, CreateMeans
    <2>2. req(x).key \in Key /\ req(x).intent \in Intent /\ req(x).id \in Id
      BY <2>1, Named DEF req
    <2>3. <<"session", req(x).key>> \in Responses
      BY <2>2 DEF Responses
    <2>4. [intent |-> req(x).intent, by |-> req(x).id, resp |-> <<"session", req(x).key>>] \in Session
      BY <2>2, <2>3 DEF Session
    <2> QED BY <1>4, <2>3, <2>4, CreateMeans
  <1>5. ASSUME NEW x \in Handler, admitInstalledRun(x), admitted' # admitted
        PROVE  /\ h[x].pc = "admit" /\ h[x].req \in Request /\ req(x).method = "run.submit"
               /\ row(x) = Absent /\ mine(x) = Absent /\ source' = source /\ hasCapacity
               /\ \E p \in Responses :
                    /\ [intent |-> req(x).intent, by |-> req(x).id, resp |-> p, live |-> TRUE] \in Run
                    /\ admitted' = [admitted EXCEPT ![<<req(x).method, req(x).key>>] =
                                      [intent |-> req(x).intent, by |-> req(x).id, resp |-> p, live |-> TRUE]]
                    /\ control' = Bound(x, p) /\ Answer(x, p)
    <2>1. h[x].req \in Request
      BY <1>5, AdmitMeans
    <2>2. req(x).key \in Key /\ req(x).intent \in Intent /\ req(x).id \in Id
      BY <2>1, Named DEF req
    <2>3. <<"run", req(x).key>> \in Responses
      BY <2>2 DEF Responses
    <2>4. [intent |-> req(x).intent, by |-> req(x).id, resp |-> <<"run", req(x).key>>, live |-> TRUE] \in Run
      BY <2>2, <2>3 DEF Run
    <2> QED BY <1>5, <2>3, <2>4, AdmitMeans
  <1>6. CASE \E x \in Handler : createSessionWithin(x) /\ admitted' # admitted
    <2>1. PICK x \in Handler : createSessionWithin(x) /\ admitted' # admitted
      BY <1>6
    <2>2. PICK p \in Responses :
                    /\ [intent |-> req(x).intent, by |-> req(x).id, resp |-> p] \in Session
                    /\ admitted' = [admitted EXCEPT ![<<req(x).method, req(x).key>>] =
                                      [intent |-> req(x).intent, by |-> req(x).id, resp |-> p]]
                    /\ control' = Bound(x, p) /\ Answer(x, p)
      BY <1>4, <2>1
    <2> DEFINE new == [intent |-> req(x).intent, by |-> req(x).id, resp |-> p]
               i == <<req(x).method, req(x).key>>
    <2>3. /\ h[x].pc = "create" /\ h[x].req \in Request /\ req(x).method = "session.create"
          /\ row(x) = Absent /\ mine(x) = Absent /\ source' = source
      BY <1>4, <2>1
    <2>4. new.intent = req(x).intent /\ new.resp = p /\ new \in Session
      BY <2>2
    <2>5. i[1] = "session.create" /\ admitted[i] = Absent
      BY <2>3 DEF row
    <2> HIDE DEF new
    <2>6. /\ i \in Method \X Key /\ new # Absent
          /\ admitted' \in [Method \X Key -> {Absent} \cup Session \cup Run]
          /\ \A k \in Key : admitted'[<<"run.submit", k>>] \in {Absent} \cup Run
          /\ admitted'[i] = new
          /\ \A j \in Method \X Key : j # i => admitted'[j] = admitted[j]
      <3>1. admitted' = [admitted EXCEPT ![i] = new]
        BY <2>2 DEF new
      <3> QED BY <1>3, <2>3, <2>4, <3>1
    <2>7. ActiveRuns' <= Capacity
      <3>1. \A k \in Key : <<"run.submit", k>> # i
        BY <2>3
      <3>2. \A k \in Key : admitted'[<<"run.submit", k>>] = admitted[<<"run.submit", k>>]
        BY <1>0, <2>6, <3>1
      <3>3. LiveRuns' = LiveRuns
        BY <3>2 DEF LiveRuns
      <3> QED BY <3>3 DEF ActiveRuns, LiveRuns
    <2> HIDE DEF i
    <2>8. i = <<req(x).method, req(x).key>>
      BY DEF i
    <2>9. \A j \in Method \X Key : j # i => admitted'[j] = admitted[j]
      BY <2>6
    <2>10. /\ admitted'[i].intent = req(x).intent /\ control' = Bound(x, admitted'[i].resp)
           /\ Answer(x, admitted'[i].resp) /\ admitted'[i].resp \in Responses
      BY <2>2, <2>4, <2>6
    <2>11. h[x].pc = IF i[1] = "run.submit" THEN "admit" ELSE "create"
      BY <2>3, <2>5
    <2> QED BY <2>3, <2>5, <2>6, <2>7, <2>8, <2>9, <2>10, <2>11
  <1>7. CASE \E x \in Handler : admitInstalledRun(x) /\ admitted' # admitted
    <2>1. PICK x \in Handler : admitInstalledRun(x) /\ admitted' # admitted
      BY <1>7
    <2>2. PICK p \in Responses :
                    /\ [intent |-> req(x).intent, by |-> req(x).id, resp |-> p, live |-> TRUE] \in Run
                    /\ admitted' = [admitted EXCEPT ![<<req(x).method, req(x).key>>] =
                                      [intent |-> req(x).intent, by |-> req(x).id, resp |-> p, live |-> TRUE]]
                    /\ control' = Bound(x, p) /\ Answer(x, p)
      BY <1>5, <2>1
    <2> DEFINE new == [intent |-> req(x).intent, by |-> req(x).id, resp |-> p, live |-> TRUE]
               i == <<req(x).method, req(x).key>>
    <2>3. /\ h[x].pc = "admit" /\ h[x].req \in Request /\ req(x).method = "run.submit"
          /\ row(x) = Absent /\ mine(x) = Absent /\ source' = source /\ hasCapacity
      BY <1>5, <2>1
    <2>4. new.intent = req(x).intent /\ new.resp = p /\ new \in Run
      BY <2>2
    <2>5. i[1] = "run.submit" /\ admitted[i] = Absent
      BY <2>3 DEF row
    <2> HIDE DEF new
    <2>6. /\ i \in Method \X Key /\ new # Absent
          /\ admitted' \in [Method \X Key -> {Absent} \cup Session \cup Run]
          /\ \A k \in Key : admitted'[<<"run.submit", k>>] \in {Absent} \cup Run
          /\ admitted'[i] = new
          /\ \A j \in Method \X Key : j # i => admitted'[j] = admitted[j]
      <3>1. admitted' = [admitted EXCEPT ![i] = new]
        BY <2>2 DEF new
      <3> QED BY <1>3, <2>3, <2>4, <3>1
    <2>7. ActiveRuns' <= Capacity
      <3>1. \A k \in Key : k # req(x).key => <<"run.submit", k>> # i
        OBVIOUS
      <3>2. \A k \in Key : k # req(x).key => admitted'[<<"run.submit", k>>] = admitted[<<"run.submit", k>>]
        BY <1>0, <2>6, <3>1
      <3>3. LiveRuns' \subseteq LiveRuns \cup {req(x).key}
        BY <3>2 DEF LiveRuns
      <3>4. Cardinality(LiveRuns') <= Cardinality(LiveRuns \cup {req(x).key})
        BY <3>3, FinitelyMany, FS_AddElement, FS_Subset
      <3>5. Cardinality(LiveRuns \cup {req(x).key}) <= Cardinality(LiveRuns) + 1
            /\ Cardinality(LiveRuns) \in Nat /\ Cardinality(LiveRuns') \in Nat
        BY FinitelyMany, FS_AddElement, FS_CardinalityType
      <3>6. ActiveRuns < Capacity
        BY <2>3 DEF hasCapacity
      <3>7. ActiveRuns = Cardinality(LiveRuns) /\ ActiveRuns' = Cardinality(LiveRuns')
        BY DEF ActiveRuns, LiveRuns
      <3>8. Cardinality(LiveRuns \cup {req(x).key}) \in Nat
        BY FinitelyMany, FS_AddElement, FS_CardinalityType
      <3> QED BY <3>4, <3>5, <3>6, <3>7, <3>8 DEF AdmissionConstants
    <2> HIDE DEF i
    <2>8. i = <<req(x).method, req(x).key>>
      BY DEF i
    <2>9. \A j \in Method \X Key : j # i => admitted'[j] = admitted[j]
      BY <2>6
    <2>10. /\ admitted'[i].intent = req(x).intent /\ control' = Bound(x, admitted'[i].resp)
           /\ Answer(x, admitted'[i].resp) /\ admitted'[i].resp \in Responses
      BY <2>2, <2>4, <2>6
    <2>11. h[x].pc = IF i[1] = "run.submit" THEN "admit" ELSE "create"
      BY <2>3, <2>5
    <2> QED BY <2>3, <2>5, <2>6, <2>7, <2>8, <2>9, <2>10, <2>11
  <1> QED BY <1>1, <1>2, <1>6, <1>7, Writers

\* ---- what request ids are bound to -------------------------------------------

LEMMA RunSourcedStep ==
    ASSUME AdmissionConstants, AdmTyped, StepInv, RunSourced, ActiveRuns <= Capacity, [Next]_vars
    PROVE  RunSourced'
  <1> SUFFICES ASSUME NEW k \in Key, admitted'[<<"run.submit", k>>] # Absent
               PROVE  /\ source'[k] # Absent /\ source'[k].phase = "retired" /\ source'[k].outcome = "captured"
                      /\ source'[k].intent = admitted'[<<"run.submit", k>>].intent
    BY DEF RunSourced
  <1> DEFINE i == <<"run.submit", k>>
  <1>1. i \in Method \X Key /\ i[1] = "run.submit"
    BY DEF AdmissionConstants
  <1>2. CASE admitted[i] # Absent
    <2>1. admitted'[i].intent = admitted[i].intent
      BY <1>1, <1>2, AdmittedSteps
    <2>2. /\ source[k] # Absent /\ source[k].phase = "retired" /\ source[k].outcome = "captured"
          /\ source[k].intent = admitted[i].intent
      BY <1>2 DEF RunSourced
    <2>3. source'[k] = source[k]
      BY <2>2, SourceSteps
    <2> QED BY <2>1, <2>2, <2>3
  <1>3. CASE admitted[i] = Absent
    <2>1. PICK x \in Handler :
            /\ i = <<req(x).method, req(x).key>> /\ admitted'[i].intent = req(x).intent
            /\ h[x].pc = "admit" /\ source' = source
      BY <1>1, <1>3, AdmittedSteps
    <2>2. /\ attempt(x) # Absent /\ attempt(x).intent = req(x).intent
          /\ attempt(x).phase = "retired" /\ attempt(x).outcome = "captured"
      BY <2>1 DEF StepInv
    <2>3. req(x).key = k
      BY <2>1
    <2> QED BY <2>1, <2>2, <2>3 DEF attempt
  <1> QED BY <1>2, <1>3

\* What follows from a key goes on following from it.
LEMMA FollowStays ==
    ASSUME AdmissionConstants, AdmTyped, StepInv, ActiveRuns <= Capacity, [Next]_vars,
           NEW c \in Binding, Follows(c)
    PROVE  Follows(c)'
  <1> DEFINE i == <<c.req.method, c.req.key>>
             k == c.req.key
  <1>1. c.req \in Request
    BY DEF Binding
  <1>2. i \in Method \X Key /\ k \in Key
    BY <1>1, Named
  <1>3. CASE admitted[i] # Absent
    <2>1. admitted[i].intent = c.req.intent /\ c.resp = admitted[i].resp
      BY <1>3 DEF Follows
    <2>2. admitted'[i] # Absent /\ admitted'[i].intent = admitted[i].intent /\ admitted'[i].resp = admitted[i].resp
      BY <1>2, <1>3, AdmittedSteps
    <2> QED BY <2>1, <2>2 DEF Follows
  <1>4. CASE admitted[i] = Absent
    <2>1. /\ c.req.method = "run.submit" /\ refused(source[k]) /\ source[k].intent = c.req.intent
          /\ c.resp = source[k].resp
      BY <1>4 DEF Follows
    <2>2. source[k] # Absent /\ source[k].phase = "retired" /\ source[k].outcome # "captured"
      BY <2>1 DEF refused
    <2>3. source'[k] = source[k]
      BY <1>2, <2>2, SourceSteps
    <2>4. ASSUME admitted'[i] # Absent PROVE FALSE
      <3>1. i[1] = "run.submit"
        BY <2>1
      <3>2. PICK x \in Handler : i = <<req(x).method, req(x).key>> /\ h[x].pc = "admit"
        BY <1>2, <1>4, <2>4, <3>1, AdmittedSteps
      <3>3. req(x).key = k
        BY <3>2
      <3>4. attempt(x).outcome = "captured"
        BY <3>2 DEF StepInv
      <3> QED BY <2>2, <3>3, <3>4 DEF attempt
    <2> QED BY <2>1, <2>3, <2>4 DEF Follows, refused
  <1> QED BY <1>3, <1>4

\* Binding a free request id to what follows from its key.
Binds(m, d) ==
    \E c \in Binding :
        control'[<<m, d>>] = c /\ c.req.method = m /\ c.req.id = d /\ Follows(c)'
ControlGrows ==
    /\ control' \in [Method \X Id -> {Absent} \cup Binding]
    /\ \A m \in Method, d \in Id :
         IF control[<<m, d>>] # Absent THEN control'[<<m, d>>] = control[<<m, d>>]
         ELSE control'[<<m, d>>] = Absent \/ Binds(m, d)

LEMMA BoundMeans ==
    ASSUME AdmissionConstants, AdmTyped, NEW x \in Handler, h[x].req \in Request, NEW r \in Responses,
           control' = Bound(x, r)
    PROVE  /\ control' \in [Method \X Id -> {Absent} \cup Binding]
           /\ [req |-> h[x].req, resp |-> r] \in Binding
           /\ control'[<<h[x].req.method, h[x].req.id>>] = [req |-> h[x].req, resp |-> r]
           /\ \A m \in Method, d \in Id :
                <<m, d>> # <<h[x].req.method, h[x].req.id>> => control'[<<m, d>>] = control[<<m, d>>]
  <1>1. control \in [Method \X Id -> {Absent} \cup Binding]
    BY DEF AdmTyped
  <1>2. <<h[x].req.method, h[x].req.id>> \in Method \X Id
    BY Named
  <1>3. [req |-> h[x].req, resp |-> r] \in Binding
    BY DEF Binding
  <1>4. control' = [control EXCEPT ![<<h[x].req.method, h[x].req.id>>] = [req |-> h[x].req, resp |-> r]]
    BY DEF Bound, req
  <1>5. \A m \in Method, d \in Id : <<m, d>> \in Method \X Id
    OBVIOUS
  <1> DEFINE b == [req |-> h[x].req, resp |-> r]
             i == <<h[x].req.method, h[x].req.id>>
  <1> HIDE DEF b, i
  <1>6. b \in Binding /\ i \in Method \X Id /\ control' = [control EXCEPT ![i] = b]
    BY <1>2, <1>3, <1>4 DEF b, i
  <1>7. /\ control' \in [Method \X Id -> {Absent} \cup Binding] /\ control'[i] = b
        /\ \A j \in Method \X Id : j # i => control'[j] = control[j]
    BY <1>1, <1>6
  <1> QED BY <1>5, <1>6, <1>7 DEF b, i

LEMMA BindingGrows ==
    ASSUME AdmissionConstants, AdmTyped, NEW x \in Handler, NEW q \in Request, h[x].req = q, NEW r \in Responses,
           control' = Bound(x, r), mine(x) = Absent, Follows([req |-> q, resp |-> r])'
    PROVE  ControlGrows
  <1> DEFINE i == <<q.method, q.id>>
  <1>1. PICK b \in Binding : b = [req |-> q, resp |-> r]
    BY DEF Binding
  <1>2. Follows(b)'
    BY <1>1
  <1>3. /\ control' \in [Method \X Id -> {Absent} \cup Binding] /\ control'[i] = b
        /\ \A m \in Method, d \in Id : <<m, d>> # i => control'[<<m, d>>] = control[<<m, d>>]
    BY <1>1, BoundMeans
  <1>4. b.req = q /\ control[i] = Absent
    BY <1>1 DEF mine, req
  <1>5. ASSUME NEW m \in Method, NEW d \in Id, <<m, d>> = i PROVE Binds(m, d)
    BY <1>2, <1>3, <1>4, <1>5 DEF Binds
  <1> QED BY <1>3, <1>4, <1>5 DEF ControlGrows

\* What an admission answers.
LEMMA Admissions ==
    ASSUME NEW k \in Key
    PROVE  <<"session", k>> \in Responses /\ <<"run", k>> \in Responses
  <1>1. <<"session", k>> \in {"session", "run"} \X Key /\ <<"run", k>> \in {"session", "run"} \X Key
    OBVIOUS
  <1> QED BY <1>1 DEF Responses

\* A request id that is bound for a handler's own bytes has what its key has, so a
\* handler whose capture is open finds its id unbound.
LEMMA OpenIsUnbound ==
    ASSUME AdmissionConstants, AdmTyped, StepInv, BoundInv, RunSourced, NEW x \in Handler,
           h[x].pc = "retire", requestIdIsFree(x, inspectionId(req(x)))
    PROVE  mine(x) = Absent /\ row(x) = Absent
  <1>1. h[x].req \in Request /\ req(x).method = "run.submit"
    BY Busy DEF StepInv, Idle
  <1>2. <<req(x).method, req(x).id>> \in Method \X Id /\ req(x).key \in Key /\ req(x).method \in Method /\ req(x).id \in Id
    BY <1>1, Named DEF req
  <1>3. attempt(x) # Absent /\ attempt(x).phase = "capturing"
    BY DEF StepInv
  <1>4. row(x) = Absent
    BY <1>1, <1>2, <1>3 DEF RunSourced, row, attempt
  <1>5. ASSUME mine(x) # Absent PROVE FALSE
    <2>1. mine(x).req = req(x)
      BY <1>5 DEF requestIdIsFree
    <2>2. Follows(mine(x))
      BY <1>2, <1>5 DEF BoundInv, mine
    <2>3. refused(source[req(x).key])
      BY <1>4, <2>1, <2>2 DEF Follows, row
    <2> QED BY <1>3, <2>3 DEF refused, attempt
  <1> QED BY <1>4, <1>5

\* The response of a refused row is one.
LEMMA RefusalsRespond ==
    ASSUME AdmTyped, NEW k \in Key, source[k] # Absent, retained(source[k]), source[k].outcome # "captured"
    PROVE  refused(source[k]) /\ source[k].resp \in Responses
  <1>1. source[k] \in SourceRow
    BY DEF AdmTyped
  <1>2. source[k].resp \in {<<>>} \cup Responses /\ source[k].outcome \in {"none", "captured", "cancelled", "failed"}
        /\ source[k].phase \in {"capturing", "retired"}
    BY <1>1 DEF SourceRow
  <1>3. decode(source[k]) /\ source[k].phase = "retired"
    BY DEF retained
  <1>4. source[k].outcome # "none" /\ source[k].resp # <<>>
    BY <1>2, <1>3 DEF decode
  <1> QED BY <1>2, <1>3, <1>4 DEF refused

LEMMA ControlStep ==
    ASSUME AdmissionConstants, AdmTyped, StepInv, SourceInv, BoundInv, RunSourced, ActiveRuns <= Capacity, [Next]_vars
    PROVE  ControlGrows
  <1>0. control \in [Method \X Id -> {Absent} \cup Binding]
    BY DEF AdmTyped
  <1>1. CASE control' = control
    BY <1>0, <1>1 DEF ControlGrows
  <1>2. ASSUME NEW x \in Handler, bindAlias(x), control' # control PROVE ControlGrows
    <2>1. h[x].pc = "alias" /\ h[x].req \in Request
      BY <1>2, Busy DEF bindAlias, At, Idle
    <2>2. PICK q \in Request : q = h[x].req
      BY <2>1
    <2>3. mine(x) = Absent /\ control' = Bound(x, row(x).resp) /\ admitted' = admitted
      BY <1>2 DEF bindAlias
    <2>4. row(x) # Absent /\ row(x).intent = req(x).intent
      BY <2>1 DEF StepInv
    <2>5. row(x) \in Session \cup Run
      BY <2>2, <2>4, Named DEF AdmTyped, row, req
    <2>6. PICK r \in Responses : r = row(x).resp
      BY <2>5 DEF Session, Run
    <2>7. Follows([req |-> q, resp |-> r])'
      BY <2>2, <2>3, <2>4, <2>6 DEF Follows, row, req
    <2> QED BY <2>2, <2>3, <2>6, <2>7, BindingGrows
  <1>3. ASSUME NEW x \in Handler, NEW new \in Session \cup Run, NEW r \in Responses, NEW q \in Request, q = h[x].req,
               new.intent = q.intent, new.resp = r, mine(x) = Absent,
               admitted' = [admitted EXCEPT ![<<req(x).method, req(x).key>>] = new], control' = Bound(x, r)
        PROVE  ControlGrows
    <2>1. <<q.method, q.key>> \in Method \X Key /\ admitted \in [Method \X Key -> {Absent} \cup Session \cup Run]
      BY Named DEF AdmTyped
    <2>2. admitted'[<<q.method, q.key>>] = new
      BY <1>3, <2>1 DEF req
    <2>3. new # Absent
      BY RowsAreThere
    <2>4. Follows([req |-> q, resp |-> r])'
      BY <1>3, <2>2, <2>3 DEF Follows
    <2> QED BY <1>3, <2>4, BindingGrows
  <1>4. ASSUME NEW x \in Handler, createSessionWithin(x), control' # control PROVE ControlGrows
    <2>1. h[x].req \in Request
      BY <1>4, CreateMeans
    <2>2. PICK q \in Request : q = h[x].req
      BY <2>1
    <2>3. q.key \in Key /\ q.intent \in Intent /\ q.id \in Id
      BY Named
    <2>4. PICK r \in Responses : r = <<"session", q.key>>
      BY <2>3, Admissions
    <2>5. PICK new \in Session : new = [intent |-> q.intent, by |-> q.id, resp |-> r]
      BY <2>3 DEF Session
    <2>6. mine(x) = Absent /\ control' = Bound(x, r)
          /\ admitted' = [admitted EXCEPT ![<<req(x).method, req(x).key>>] = new]
      BY <1>4, <2>2, <2>4, <2>5, CreateMeans DEF req
    <2>7. new.intent = q.intent /\ new.resp = r
      BY <2>5
    <2> QED BY <1>3, <2>2, <2>6, <2>7
  <1>5. ASSUME NEW x \in Handler, admitInstalledRun(x), control' # control PROVE ControlGrows
    <2>1. h[x].req \in Request
      BY <1>5, AdmitMeans
    <2>2. PICK q \in Request : q = h[x].req
      BY <2>1
    <2>3. q.key \in Key /\ q.intent \in Intent /\ q.id \in Id
      BY Named
    <2>4. PICK r \in Responses : r = <<"run", q.key>>
      BY <2>3, Admissions
    <2>5. PICK new \in Run : new = [intent |-> q.intent, by |-> q.id, resp |-> r, live |-> TRUE]
      BY <2>3 DEF Run
    <2>6. mine(x) = Absent /\ control' = Bound(x, r)
          /\ admitted' = [admitted EXCEPT ![<<req(x).method, req(x).key>>] = new]
      BY <1>5, <2>2, <2>4, <2>5, AdmitMeans DEF req
    <2>7. new.intent = q.intent /\ new.resp = r
      BY <2>5
    <2> QED BY <1>3, <2>2, <2>6, <2>7
  <1>6. ASSUME NEW x \in Handler, NEW next, replaySubmittedSource(x, next), control' # control,
               h[x].pc \in {"refusal", "source"}
        PROVE  ControlGrows
    <2>1. h[x].req \in Request /\ req(x).method = "run.submit"
      BY <1>6, Busy DEF StepInv, Idle
    <2>2. PICK q \in Request : q = h[x].req
      BY <2>1
    <2>3. q.key \in Key /\ q.method = "run.submit"
      BY <2>1, <2>2, Named DEF req
    <2>4. /\ attempt(x) # Absent /\ attempt(x).intent = req(x).intent /\ retained(attempt(x))
          /\ attempt(x).outcome # "captured" /\ mine(x) = Absent /\ control' = Bound(x, attempt(x).resp)
          /\ admitted' = admitted /\ source' = source
      BY <1>6, ReplayMeans
    <2>5. refused(source[q.key]) /\ source[q.key].resp \in Responses
      BY <2>2, <2>3, <2>4, RefusalsRespond DEF attempt, req
    <2>6. PICK r \in Responses : r = source[q.key].resp
      BY <2>5
    <2>7. admitted[<<"run.submit", q.key>>] = Absent
      BY <2>3, <2>5 DEF RunSourced, refused
    <2>8. Follows([req |-> q, resp |-> r])'
      BY <2>2, <2>3, <2>4, <2>5, <2>6, <2>7 DEF Follows, refused, attempt, req
    <2>9. control' = Bound(x, r)
      BY <2>2, <2>4, <2>6 DEF attempt, req
    <2> QED BY <2>2, <2>4, <2>8, <2>9, BindingGrows
  <1>7. ASSUME NEW x \in Handler, retireSource(x), control' # control PROVE ControlGrows
    <2>1. h[x].pc = "retire" /\ h[x].req \in Request /\ requestIdIsFree(x, inspectionId(req(x)))
      BY <1>7, RetireMeans
    <2>2. PICK q \in Request : q = h[x].req
      BY <2>1
    <2>3. PICK c \in Cause : /\ c # "none" /\ source' = Retired(req(x).key, c, "joined")
                             /\ control' = Bound(x, errorResponse(c, req(x).key))
      BY <1>7, RetireMeans
    <2>4. q.key \in Key /\ q.method = "run.submit" /\ c \in Refusal
      <3>1. q.key \in Key /\ c \in Refusal
        BY <2>3, Named DEF Cause, Refusal
      <3>2. h[x].req.method = "run.submit"
        BY <2>1 DEF StepInv, req
      <3> QED BY <2>2, <3>1, <3>2
    <2>5. mine(x) = Absent /\ row(x) = Absent
      BY <2>1, OpenIsUnbound
    <2>6. PICK r \in Responses : r = errorResponse(c, q.key)
      BY <2>4, Classes
    <2>7. attempt(x) # Absent /\ attempt(x).req = req(x) /\ source[q.key] # Absent /\ source[q.key].req = q
      BY <2>1, <2>2 DEF StepInv, attempt, req
    <2>8. source[q.key].intent = q.intent
      BY <2>4, <2>7 DEF SourceInv
    <2>9. /\ source'[q.key] # Absent /\ source'[q.key].phase = "retired" /\ source'[q.key].outcome # "captured"
          /\ source'[q.key].resp = r /\ source'[q.key].intent = q.intent
      <3>1. source' = Retired(q.key, c, "joined")
        BY <2>2, <2>3 DEF req
      <3> QED BY <2>3, <2>4, <2>6, <2>7, <2>8, <3>1, RetiredMeans
    <2>10. admitted' = admitted
      BY <1>7 DEF retireSource
    <2>11. admitted'[<<q.method, q.key>>] = Absent
      BY <2>2, <2>5, <2>10 DEF row, req
    <2>12. Follows([req |-> q, resp |-> r])'
      BY <2>4, <2>9, <2>11 DEF Follows, refused
    <2>13. control' = Bound(x, r)
      BY <2>2, <2>3, <2>6 DEF req
    <2> QED BY <2>2, <2>5, <2>12, <2>13, BindingGrows
  <1>8. ASSUME NEW x \in Handler, replayRefusal(x) \/ replayCapture(x), control' # control PROVE ControlGrows
    <2>1. \E next \in {"credential", "target"} : replaySubmittedSource(x, next) /\ h[x].pc \in {"refusal", "source"}
      BY <1>8 DEF replayRefusal, replayCapture, At
    <2> QED BY <1>6, <1>8, <2>1
  <1> QED BY <1>1, <1>2, <1>4, <1>5, <1>7, <1>8, Writers

LEMMA BoundStep ==
    ASSUME AdmissionConstants, AdmTyped, StepInv, SourceInv, BoundInv, RunSourced, ActiveRuns <= Capacity, [Next]_vars
    PROVE  BoundInv'
  <1>1. ControlGrows
    BY ControlStep
  <1>2. ASSUME NEW m \in Method, NEW d \in Id, control'[<<m, d>>] # Absent
        PROVE  /\ control'[<<m, d>>].req.method = m /\ control'[<<m, d>>].req.id = d
               /\ \E c \in Binding : control'[<<m, d>>] = c /\ Follows(c)'
    <2>1. CASE control[<<m, d>>] # Absent
      <3>1. control[<<m, d>>] \in Binding
        BY <2>1 DEF AdmTyped
      <3>2. PICK c \in Binding : c = control[<<m, d>>]
        BY <3>1
      <3>3. Follows(c) /\ c.req.method = m /\ c.req.id = d
        BY <2>1, <3>2 DEF BoundInv
      <3>4. Follows(c)'
        BY <3>3, FollowStays
      <3>5. control'[<<m, d>>] = c
        BY <1>1, <2>1, <3>2 DEF ControlGrows
      <3> QED BY <3>3, <3>4, <3>5
    <2>2. CASE control[<<m, d>>] = Absent
      BY <1>1, <1>2, <2>2 DEF ControlGrows, Binds
    <2> QED BY <2>1, <2>2
  <1>3. ASSUME NEW m \in Method, NEW d \in Id, control'[<<m, d>>] # Absent
        PROVE  Follows(control[<<m, d>>])'
    <2>1. PICK c \in Binding : control'[<<m, d>>] = c /\ Follows(c)'
      BY <1>2, <1>3
    <2> QED BY <2>1 DEF Follows
  <1> QED BY <1>2, <1>3 DEF BoundInv

\* Whoever is answered holds the binding.
LEMMA AnsweredStep ==
    ASSUME AdmissionConstants, AdmTyped, StepInv, SourceInv, BoundInv, RunSourced, Answered,
           ActiveRuns <= Capacity, [Next]_vars
    PROVE  Answered'
  <1>1. ControlGrows
    BY ControlStep
  <1>2. \A b \in Binding : b = [req |-> b.req, resp |-> b.resp]
    BY DEF Binding
  <1>3. CASE answers' = answers
    <2>1. ASSUME NEW a \in answers
          PROVE  a[1] \in Request /\ control'[<<a[1].method, a[1].id>>] = [req |-> a[1], resp |-> a[2]]
      <3>1. a[1] \in Request /\ control[<<a[1].method, a[1].id>>] = [req |-> a[1], resp |-> a[2]]
        BY DEF Answered
      <3>2. a[1].method \in Method /\ a[1].id \in Id /\ <<a[1].method, a[1].id>> \in Method \X Id
        BY <3>1, Named
      <3>3. control[<<a[1].method, a[1].id>>] # Absent
        <4>1. DOMAIN [req |-> a[1], resp |-> a[2]] = {"req", "resp"} /\ DOMAIN Absent = {"none"}
          BY DEF Absent
        <4> QED BY <3>1, <4>1
      <3> QED BY <1>1, <3>1, <3>2, <3>3 DEF ControlGrows
    <2> QED BY <1>3, <2>1 DEF Answered
  <1>4. ASSUME NEW x \in Handler, NEW r, h[x].req \in Request, answers' = answers \cup {<<req(x), r>>},
               control'[<<req(x).method, req(x).id>>] = [req |-> req(x), resp |-> r]
        PROVE  Answered'
    <2>1. ASSUME NEW a \in answers
          PROVE  a[1] \in Request /\ control'[<<a[1].method, a[1].id>>] = [req |-> a[1], resp |-> a[2]]
      <3>1. a[1] \in Request /\ control[<<a[1].method, a[1].id>>] = [req |-> a[1], resp |-> a[2]]
        BY DEF Answered
      <3>2. a[1].method \in Method /\ a[1].id \in Id /\ <<a[1].method, a[1].id>> \in Method \X Id
        BY <3>1, Named
      <3>3. control[<<a[1].method, a[1].id>>] # Absent
        <4>1. DOMAIN [req |-> a[1], resp |-> a[2]] = {"req", "resp"} /\ DOMAIN Absent = {"none"}
          BY DEF Absent
        <4> QED BY <3>1, <4>1
      <3> QED BY <1>1, <3>1, <3>2, <3>3 DEF ControlGrows
    <2>2. ASSUME NEW a \in answers', a \notin answers
          PROVE  a[1] \in Request /\ control'[<<a[1].method, a[1].id>>] = [req |-> a[1], resp |-> a[2]]
      <3>1. a = <<req(x), r>>
        BY <1>4, <2>2
      <3>2. a[1] = req(x) /\ a[2] = r
        BY <3>1
      <3>3. a[1] \in Request
        BY <1>4, <3>2 DEF req
      <3> QED BY <1>4, <3>2, <3>3
    <2> QED BY <2>1, <2>2 DEF Answered
  <1>5. ASSUME NEW x \in Handler, NEW r \in Responses, h[x].req \in Request, Answer(x, r),
               \/ control' = Bound(x, r)
               \/ control' = control /\ mine(x) # Absent /\ mine(x).req = req(x) /\ mine(x).resp = r
        PROVE  Answered'
    <2>1. answers' = answers \cup {<<req(x), r>>}
      BY <1>5 DEF Answer
    <2>2. CASE control' = Bound(x, r)
      BY <1>4, <1>5, <2>1, <2>2, BoundMeans DEF req
    <2>3. CASE control' = control /\ mine(x) # Absent /\ mine(x).req = req(x) /\ mine(x).resp = r
      <3>1. mine(x) \in Binding
        BY <1>5, <2>3, Named DEF AdmTyped, mine, req
      <3>2. mine(x) = [req |-> req(x), resp |-> r]
        BY <1>2, <2>3, <3>1
      <3> QED BY <1>4, <1>5, <2>1, <2>3, <3>2 DEF mine
    <2> QED BY <1>5, <2>2, <2>3
  <1>6. ASSUME NEW x \in Handler, replayAdmission(x), answers' # answers PROVE Answered'
    <2>1. h[x].req \in Request
      BY <1>6, Busy DEF replayAdmission, At, Idle
    <2>2. mine(x) # Absent /\ mine(x).req = req(x) /\ Answer(x, mine(x).resp) /\ control' = control
      BY <1>6 DEF replayAdmission, Refuse, db
    <2>3. mine(x) \in Binding
      BY <2>1, <2>2, Named DEF AdmTyped, mine, req
    <2>4. mine(x).resp \in Responses
      BY <2>3 DEF Binding
    <2> QED BY <1>5, <2>1, <2>2, <2>4
  <1>7. ASSUME NEW x \in Handler, bindAlias(x), answers' # answers PROVE Answered'
    <2>1. h[x].pc = "alias" /\ h[x].req \in Request
      BY <1>7, Busy DEF bindAlias, At, Idle
    <2>2. /\ mine(x) # Absent => mine(x).req = req(x) /\ mine(x).resp = row(x).resp
          /\ control' = IF mine(x) = Absent THEN Bound(x, row(x).resp) ELSE control
          /\ Answer(x, row(x).resp)
      BY <1>7 DEF bindAlias, Refuse
    <2>3. row(x) # Absent
      BY <2>1 DEF StepInv
    <2>4. row(x) \in Session \cup Run
      BY <2>1, <2>3, Named DEF AdmTyped, row, req
    <2>5. row(x).resp \in Responses
      BY <2>4 DEF Session, Run
    <2> QED BY <1>5, <2>1, <2>2, <2>5
  <1>8. ASSUME NEW x \in Handler, createSessionWithin(x), answers' # answers PROVE Answered'
    <2>1. h[x].req \in Request /\ control' = Bound(x, <<"session", req(x).key>>) /\ Answer(x, <<"session", req(x).key>>)
      BY <1>8, CreateMeans DEF Refuse
    <2>2. <<"session", req(x).key>> \in Responses
      BY <2>1, Named, Admissions DEF req
    <2> QED BY <1>5, <2>1, <2>2
  <1>9. ASSUME NEW x \in Handler, admitInstalledRun(x), answers' # answers PROVE Answered'
    <2>1. h[x].req \in Request /\ control' = Bound(x, <<"run", req(x).key>>) /\ Answer(x, <<"run", req(x).key>>)
      BY <1>9, AdmitMeans DEF Refuse
    <2>2. <<"run", req(x).key>> \in Responses
      BY <2>1, Named, Admissions DEF req
    <2> QED BY <1>5, <2>1, <2>2
  <1>10. ASSUME NEW x \in Handler, NEW next, replaySubmittedSource(x, next), answers' # answers,
                h[x].pc \in {"refusal", "source"}
         PROVE  Answered'
    <2>1. h[x].req \in Request
      BY <1>10, Busy DEF Idle
    <2>2. /\ attempt(x) # Absent /\ retained(attempt(x)) /\ attempt(x).outcome # "captured"
          /\ requestIdIsFree(x, Absent)
          /\ mine(x) # Absent => mine(x).resp = attempt(x).resp
          /\ control' = IF mine(x) = Absent THEN Bound(x, attempt(x).resp) ELSE control
          /\ Answer(x, attempt(x).resp)
      BY <1>10, ReplayMeans DEF Refuse
    <2>3. attempt(x).resp \in Responses
      BY <2>1, <2>2, Named, RefusalsRespond DEF attempt, req
    <2>4. mine(x) # Absent => mine(x).req = req(x)
      BY <2>2 DEF requestIdIsFree
    <2> QED BY <1>5, <2>1, <2>2, <2>3, <2>4
  <1>11. ASSUME NEW x \in Handler, replayRefusal(x) \/ replayCapture(x), answers' # answers PROVE Answered'
    <2>1. \E next \in {"credential", "target"} : replaySubmittedSource(x, next) /\ h[x].pc \in {"refusal", "source"}
      BY <1>11 DEF replayRefusal, replayCapture, At
    <2> QED BY <1>10, <1>11, <2>1
  <1>12. ASSUME NEW x \in Handler, retireSource(x), answers' # answers PROVE Answered'
    <2>1. h[x].req \in Request
      BY <1>12, RetireMeans
    <2>2. PICK c \in Cause : /\ c # "none" /\ control' = Bound(x, errorResponse(c, req(x).key))
                             /\ Answer(x, errorResponse(c, req(x).key))
      BY <1>12, RetireMeans DEF Refuse
    <2>3. errorResponse(c, req(x).key) \in Responses
      BY <2>1, <2>2, Named, Classes DEF Cause, Refusal, req
    <2> QED BY <1>5, <2>1, <2>2, <2>3
  <1> QED BY <1>3, <1>6, <1>7, <1>8, <1>9, <1>11, <1>12, Writers

\* ---- the places of the handlers ----------------------------------------------

\* StepInv of one handler.
StepAt(x) ==
    /\ h[x].pc \in RunLabels => req(x).method = "run.submit"
    /\ h[x].pc = "create" => req(x).method = "session.create"
    /\ h[x].pc = "alias" => row(x) # Absent /\ row(x).intent = req(x).intent
    /\ h[x].pc = "joined" => h[x] \in Joined
    /\ h[x].pc \in {"unstage", "retire"} => h[x] \in Captured
    /\ h[x].pc \in Fresh => attempt(x) = Absent
    /\ h[x].pc \in Capturing =>
         /\ attempt(x) # Absent /\ attempt(x).phase = "capturing" /\ attempt(x).req = req(x)
         /\ attempt(x).epoch = owner.epoch
    /\ h[x].pc = "retire" => inspectionId(req(x)) \notin staging
    /\ h[x].pc \in Building =>
         /\ attempt(x) # Absent /\ attempt(x).intent = req(x).intent
         /\ attempt(x).phase = "retired" /\ attempt(x).outcome = "captured"

LEMMA AtQuiet ==
    ASSUME NEW y \in Handler, h'[y].pc \in {"idle", "replay"} PROVE StepAt(y)'
  BY DEF StepAt

LEMMA AtRun ==
    ASSUME NEW y \in Handler, h'[y].pc \in {"retained", "refusal", "credential", "capacity", "source", "kept"},
           h'[y].req.method = "run.submit"
    PROVE  StepAt(y)'
  BY DEF StepAt, req

LEMMA AtFresh ==
    ASSUME NEW y \in Handler, h'[y].pc \in Fresh, h'[y].req.method = "run.submit", source'[h'[y].req.key] = Absent
    PROVE  StepAt(y)'
  BY DEF StepAt, req, attempt

LEMMA AtCapture ==
    ASSUME NEW y \in Handler, h'[y].pc \in Capturing, h'[y].req.method = "run.submit",
           source'[h'[y].req.key] # Absent, source'[h'[y].req.key].phase = "capturing",
           source'[h'[y].req.key].req = h'[y].req, source'[h'[y].req.key].epoch = owner'.epoch,
           h'[y].pc = "capture" \/ h'[y] \in Captured,
           h'[y].pc = "retire" => inspectionId(h[y].req)' \notin staging'
    PROVE  StepAt(y)'
  BY DEF StepAt, req, attempt

LEMMA AtBuilding ==
    ASSUME NEW y \in Handler, h'[y].pc \in Building, h'[y].req.method = "run.submit",
           source'[h'[y].req.key] # Absent, source'[h'[y].req.key].intent = h'[y].req.intent,
           source'[h'[y].req.key].phase = "retired", source'[h'[y].req.key].outcome = "captured"
    PROVE  StepAt(y)'
  BY DEF StepAt, req, attempt

\* Two leaders of one key are one.
LEMMA OneLeader ==
    ASSUME TaskInv, NEW x \in Handler, NEW y \in Handler, h[x].pc \in Fresh \cup Capturing, h[y].pc \in Fresh \cup Capturing,
           req(x).key = req(y).key
    PROVE  x = y
  BY DEF TaskInv

LEMMA OwnerSteps ==
    ASSUME AdmTyped, [Next]_vars
    PROVE  /\ owner' \in [epoch : Nat, mode : {"open", "closing", "starting"}]
           /\ owner'.epoch = owner.epoch \/ \A x \in Handler : h'[x] = Idle
  <1>1. owner \in [epoch : Nat, mode : {"open", "closing", "starting"}]
    BY DEF AdmTyped
  <1>2. CASE owner' = owner
    BY <1>1, <1>2
  <1>3. CASE beginClose
    BY <1>1, <1>3 DEF beginClose
  <1>4. CASE release
    BY <1>1, <1>4 DEF release
  <1>5. CASE Dies
    BY <1>1, <1>5 DEF Dies
  <1>6. CASE retireAbandonedSourceInspections
    <2>1. owner' = owner \/ owner' = [owner EXCEPT !.mode = "open"]
      BY <1>6, AbandonMeans
    <2> QED BY <1>1, <2>1
  <1> QED BY <1>2, <1>3, <1>4, <1>5, <1>6, Writers

\* Nobody moves a handler's ground while it stands still.
LEMMA StepStays ==
    ASSUME AdmissionConstants, AdmTyped, TaskInv, StepInv, SourceInv, ActiveRuns <= Capacity, [Next]_vars,
           NEW y \in Handler, h'[y] = h[y]
    PROVE  StepAt(y)'
  <1>1. CASE h[y] = Idle
    BY <1>1, AtQuiet DEF Idle
  <1>2. CASE h[y] # Idle
    <2>1. h[y].req \in Request /\ h[y].req.key \in Key /\ <<h[y].req.method, h[y].req.key>> \in Method \X Key
      BY <1>2, Busy, Named
    <2>2. owner'.epoch = owner.epoch
      BY <1>2, OwnerSteps
    <2> DEFINE k == h[y].req.key
    <2>3. ASSUME h[y].pc = "alias" PROVE row(y)' # Absent /\ row(y)'.intent = h[y].req.intent
      <3>1. row(y) # Absent /\ row(y).intent = h[y].req.intent
        BY <2>3 DEF StepInv, req
      <3> QED BY <2>1, <3>1, AdmittedSteps DEF row, req
    <2>4. ASSUME h[y].pc \in Fresh PROVE source'[k] = Absent
      <3>1. source[k] = Absent
        BY <2>4 DEF StepInv, attempt, req
      <3>2. ASSUME source'[k] # Absent PROVE FALSE
        <4>1. PICK x \in Handler : reserveSourceInspectionAttempt(x) /\ h[x].pc = "reserve" /\ k = req(x).key
          BY <2>1, <3>1, <3>2, SourceSteps
        <4>2. x = y
          BY <2>4, <4>1, OneLeader DEF req
        <4>3. Goto(x, "capture") \/ Goto(x, "unreserved")
          BY <4>1, ReserveMeans
        <4>4. h'[x].pc # "reserve"
          BY <1>2, <4>2, <4>3, GotoMeans
        <4> QED BY <4>1, <4>2, <4>4
      <3> QED BY <3>2
    <2>5. ASSUME h[y].pc \in Capturing PROVE source'[k] = source[k]
      <3>1. source[k] # Absent /\ source[k].phase = "capturing" /\ source[k].epoch = owner.epoch
        BY <2>5 DEF StepInv, attempt, req
      <3>2. ASSUME source'[k] # source[k] PROVE FALSE
        <4>1. ~(source[k].epoch < owner.epoch)
          BY <3>1 DEF AdmTyped
        <4>2. PICK x \in Handler : h[x].pc = "retire" /\ k = req(x).key /\ retireSource(x)
          BY <2>1, <3>1, <3>2, <4>1, SourceSteps
        <4>3. x = y
          BY <2>5, <4>2, OneLeader DEF req
        <4>4. h'[x] = Idle \/ h'[x] = [pc |-> "assemble", req |-> req(x)]
          BY <4>2, RetireMeans DEF Refuse, Answer, Settle
        <4>5. h'[x].pc # "retire"
          BY <4>4 DEF Idle
        <4> QED BY <4>2, <4>3, <4>5
      <3> QED BY <3>2
    <2>6. ASSUME h[y].pc = "retire" PROVE inspectionId(h[y].req) \notin staging'
      <3>1. source[k] # Absent /\ inspectionId(h[y].req) \notin staging
        BY <2>6 DEF StepInv, attempt, req
      <3>2. ASSUME NEW x \in Handler, createStaging(x) PROVE inspectionId(h[y].req) \notin staging'
        <4>1. h[x].pc = "stage" /\ staging' \subseteq staging \cup {inspectionId(req(x))}
          BY <3>2 DEF createStaging, At
        <4>2. source[req(x).key] = Absent
          BY <4>1 DEF StepInv, attempt
        <4>3. req(x).key # k
          BY <3>1, <4>2
        <4>4. inspectionId(req(x)) # inspectionId(h[y].req)
          BY <4>3 DEF inspectionId
        <4> QED BY <3>1, <4>1, <4>4
      <3>3. ASSUME NEW x \in Handler, retireStaging(x) PROVE staging' \subseteq staging
        BY <3>3 DEF retireStaging
      <3>4. CASE retireAbandonedSourceInspections
        BY <3>1, <3>4, AbandonMeans
      <3> QED BY <3>1, <3>2, <3>3, <3>4, Writers
    <2>7. ASSUME h[y].pc \in Building PROVE source'[k] = source[k]
      <3>1. source[k] # Absent /\ source[k].phase = "retired"
        BY <2>7 DEF StepInv, attempt, req
      <3> QED BY <2>1, <3>1, SourceSteps
    <2>8. StepAt(y)
      BY DEF StepInv, StepAt
    <2>9. CASE h[y].pc \in Fresh
      BY <2>4, <2>8, <2>9, AtFresh DEF StepAt, req
    <2>10. CASE h[y].pc \in Capturing
      BY <2>2, <2>5, <2>6, <2>8, <2>10, AtCapture DEF StepAt, req, attempt, inspectionId
    <2>11. CASE h[y].pc \in Building
      BY <2>7, <2>8, <2>11, AtBuilding DEF StepAt, req, attempt
    <2>12. CASE h[y].pc \notin Fresh \cup Capturing \cup Building
      BY <2>3, <2>8, <2>12 DEF StepAt, req, row
    <2> QED BY <2>9, <2>10, <2>11, <2>12
  <1> QED BY <1>1, <1>2

\* When one handler goes on, the others stay where they are.
LEMMA OthersStay ==
    ASSUME AdmissionConstants, AdmTyped, TaskInv, StepInv, SourceInv, ActiveRuns <= Capacity, [Next]_vars,
           NEW x \in Handler, NEW l \in Labels, h[x].pc # "idle", Goto(x, l)
    PROVE  /\ h'[x].pc = l /\ h'[x].req = h[x].req /\ (h[x] \in Captured => h'[x] \in Captured)
           /\ h[x].req \in Request
           /\ StepAt(x)' => \A y \in Handler : StepAt(y)'
  <1>0. h[x] # Idle
    BY DEF Idle
  <1>1. h'[x].pc = l /\ h'[x].req = h[x].req /\ \A y \in Handler : y # x => h'[y] = h[y]
    BY <1>0, GotoMeans
  <1>2. h[x].req \in Request /\ (h[x] \in Captured => h'[x] \in Captured)
    BY <1>0, Busy, GotoMeans
  <1>3. \A y \in Handler : y # x => StepAt(y)'
    BY <1>1, StepStays
  <1> QED BY <1>1, <1>2, <1>3

\* When a task ends, its followers are at the start of their own or gone.
LEMMA FollowersGo ==
    ASSUME AdmissionConstants, AdmTyped, TaskInv, StepInv, SourceInv, ActiveRuns <= Capacity, [Next]_vars,
           NEW x \in Handler, h[x].pc # "idle", NEW next \in {Idle, [pc |-> "assemble", req |-> req(x)]},
           NEW ok \in BOOLEAN, Settle(x, next, ok),
           \/ next = Idle
           \/ /\ source'[req(x).key] # Absent /\ source'[req(x).key].intent = req(x).intent
              /\ source'[req(x).key].phase = "retired" /\ source'[req(x).key].outcome = "captured"
              /\ req(x).method = "run.submit"
    PROVE  \A y \in Handler : StepAt(y)'
  <1>1. h[x].req \in Request
    BY Busy DEF Idle
  <1>2. next \in {Idle} \cup Working
    BY <1>1 DEF Working, req
  <1>3. /\ h'[x] = next
        /\ \A y \in Handler : y # x =>
             \/ h'[y] = h[y] \/ h'[y] = Idle
             \/ h[y].pc = "joined" /\ h'[y].pc = "capacity" /\ h'[y].req = h[y].req
    BY <1>2, SettleMeans
  <1>4. StepAt(x)'
    <2>1. CASE next = Idle
      BY <1>3, <2>1, AtQuiet DEF Idle
    <2>2. CASE next # Idle
      <3>1. h'[x].pc = "assemble" /\ h'[x].req = req(x)
        BY <1>3, <2>2
      <3> QED BY <2>2, <3>1, AtBuilding
    <2> QED BY <2>1, <2>2
  <1>5. ASSUME NEW y \in Handler, y # x PROVE StepAt(y)'
    <2>1. CASE h'[y] = h[y]
      BY <2>1, StepStays
    <2>2. CASE h'[y] = Idle
      BY <2>2, AtQuiet DEF Idle
    <2>3. CASE h[y].pc = "joined" /\ h'[y].pc = "capacity" /\ h'[y].req = h[y].req
      BY <2>3, AtRun DEF StepInv, req
    <2> QED BY <1>3, <1>5, <2>1, <2>2, <2>3
  <1> QED BY <1>4, <1>5

LEMMA RefusedGo ==
    ASSUME AdmissionConstants, AdmTyped, TaskInv, StepInv, SourceInv, ActiveRuns <= Capacity, [Next]_vars,
           NEW x \in Handler, h[x].pc # "idle", Refuse(x) \/ \E r : Answer(x, r)
    PROVE  \A y \in Handler : StepAt(y)'
  <1>1. \E ok \in BOOLEAN : Settle(x, Idle, ok)
    BY DEF Refuse, Answer
  <1> QED BY <1>1, FollowersGo

LEMMA EarlyPlaces ==
    ASSUME AdmissionConstants, AdmTyped, TaskInv, StepInv, SourceInv, ActiveRuns <= Capacity, [Next]_vars,
           NEW x \in Handler, replayAdmission(x) \/ bindAlias(x) \/ createSessionWithin(x) \/ submitInstalledRunOwned(x)
    PROVE  \A y \in Handler : StepAt(y)'
  <1>1. ASSUME replayAdmission(x) PROVE \A y \in Handler : StepAt(y)'
    <2>1. h[x].pc = "replay" /\ h[x].req \in Request /\ admitted' = admitted
      BY <1>1, Busy DEF replayAdmission, At, Idle, db
    <2>2. CASE Refuse(x) \/ \E r : Answer(x, r)
      BY <2>1, <2>2, RefusedGo
    <2>3. CASE Goto(x, "alias") /\ row(x) # Absent /\ row(x).intent = req(x).intent
      <3>1. h'[x].pc = "alias" /\ h'[x].req = h[x].req /\ (StepAt(x)' => \A y \in Handler : StepAt(y)')
        BY <2>1, <2>3, OthersStay
      <3>2. StepAt(x)'
        BY <2>1, <2>3, <3>1 DEF StepAt, row, req
      <3> QED BY <3>1, <3>2
    <2>4. CASE Goto(x, "create") /\ req(x).method = "session.create"
      <3>1. h'[x].pc = "create" /\ h'[x].req = h[x].req /\ (StepAt(x)' => \A y \in Handler : StepAt(y)')
        BY <2>1, <2>4, OthersStay
      <3>2. StepAt(x)'
        BY <2>4, <3>1 DEF StepAt, req
      <3> QED BY <3>1, <3>2
    <2>5. CASE Goto(x, "retained") /\ req(x).method # "session.create"
      <3>1. h'[x].pc = "retained" /\ h'[x].req = h[x].req /\ (StepAt(x)' => \A y \in Handler : StepAt(y)')
        BY <2>1, <2>5, OthersStay
      <3>2. h'[x].req.method = "run.submit"
        BY <2>1, <2>5, <3>1, Named DEF req
      <3> QED BY <3>1, <3>2, AtRun
    <2> QED BY <1>1, <2>2, <2>3, <2>4, <2>5 DEF replayAdmission
  <1>2. ASSUME bindAlias(x) PROVE \A y \in Handler : StepAt(y)'
    <2>1. h[x].pc = "alias" /\ (Refuse(x) \/ \E r : Answer(x, r))
      BY <1>2 DEF bindAlias, At
    <2> QED BY <2>1, RefusedGo
  <1>3. ASSUME createSessionWithin(x) PROVE \A y \in Handler : StepAt(y)'
    <2>1. h[x].pc = "create"
      BY <1>3, CreateMeans
    <2>2. CASE Refuse(x) \/ \E r : Answer(x, r)
      BY <2>1, <2>2, RefusedGo
    <2>3. CASE Goto(x, "replay")
      BY <2>1, <2>3, OthersStay, AtQuiet
    <2> QED BY <1>3, <2>2, <2>3, CreateMeans
  <1>4. ASSUME submitInstalledRunOwned(x) PROVE \A y \in Handler : StepAt(y)'
    <2>1. h[x].pc = "retained" /\ h[x].req.method = "run.submit"
      BY <1>4 DEF submitInstalledRunOwned, At, StepInv, req
    <2>2. CASE Refuse(x)
      BY <2>1, <2>2, RefusedGo
    <2>3. ASSUME NEW l \in {"refusal", "credential"}, Goto(x, l) PROVE \A y \in Handler : StepAt(y)'
      BY <2>1, <2>3, OthersStay, AtRun
    <2>4. Refuse(x) \/ \E l \in {"refusal", "credential"} : Goto(x, l)
      BY <1>4 DEF submitInstalledRunOwned
    <2> QED BY <2>2, <2>3, <2>4
  <1> QED BY <1>1, <1>2, <1>3, <1>4

LEMMA ReplayPlaces ==
    ASSUME AdmissionConstants, AdmTyped, TaskInv, StepInv, SourceInv, ActiveRuns <= Capacity, [Next]_vars,
           NEW x \in Handler, replayRefusal(x) \/ replayCapture(x)
    PROVE  \A y \in Handler : StepAt(y)'
  <1>1. PICK next \in {"credential", "target"} :
          replaySubmittedSource(x, next) /\ h[x].pc \in {"refusal", "source"}
    BY DEF replayRefusal, replayCapture, At
  <1>2. h[x].req.method = "run.submit"
    BY <1>1 DEF StepInv, req
  <1>3. CASE Refuse(x) \/ \E r : Answer(x, r)
    BY <1>1, <1>3, RefusedGo
  <1>4. CASE attempt(x) = Absent /\ Goto(x, next) /\ source' = source
    <2>1. h'[x].pc = next /\ h'[x].req = h[x].req /\ (StepAt(x)' => \A y \in Handler : StepAt(y)')
      BY <1>1, <1>4, OthersStay
    <2>2. StepAt(x)'
      BY <1>2, <1>4, <2>1, AtRun, AtFresh DEF attempt, req
    <2> QED BY <2>1, <2>2
  <1>5. CASE /\ attempt(x) # Absent /\ attempt(x).intent = req(x).intent /\ retained(attempt(x))
             /\ attempt(x).outcome = "captured" /\ source' = source
             /\ Settle(x, [pc |-> "assemble", req |-> req(x)], TRUE)
    <2>1. /\ source'[req(x).key] # Absent /\ source'[req(x).key].intent = req(x).intent
          /\ source'[req(x).key].phase = "retired" /\ source'[req(x).key].outcome = "captured"
          /\ req(x).method = "run.submit"
      BY <1>2, <1>5 DEF attempt, retained, req
    <2> QED BY <1>1, <1>5, <2>1, FollowersGo
  <1> QED BY <1>1, <1>3, <1>4, <1>5, ReplayMeans

LEMMA JoinPlaces ==
    ASSUME AdmissionConstants, AdmTyped, TaskInv, StepInv, SourceInv, ActiveRuns <= Capacity, [Next]_vars,
           NEW x \in Handler, joinCapture(x)
    PROVE  \A y \in Handler : StepAt(y)'
  <1>1. h[x].pc = "credential" /\ h[x].req.method = "run.submit" /\ h[x].req \in Request /\ h[x].req.key \in Key
    BY Busy, Named DEF joinCapture, At, StepInv, req, Idle
  <1>2. CASE Refuse(x)
    BY <1>1, <1>2, RefusedGo
  <1>3. CASE Goto(x, "capacity")
    BY <1>1, <1>3, OthersStay, AtRun
  <1>4. CASE /\ tasks[req(x).key] # Absent
             /\ h' = [h EXCEPT ![x] = [pc |-> "joined", req |-> req(x), leader |-> tasks[req(x).key].leader]]
    <2>1. [pc |-> "joined", req |-> req(x), leader |-> tasks[req(x).key].leader] \in Joined
      BY <1>1, <1>4 DEF Joined, AdmTyped, Task, req
    <2>2. h'[x] = [pc |-> "joined", req |-> req(x), leader |-> tasks[req(x).key].leader]
          /\ \A y \in Handler : y # x => h'[y] = h[y]
      BY <1>4 DEF AdmTyped
    <2>3. h'[x].pc = "joined" /\ h'[x].req = h[x].req /\ h'[x] \in Joined
      BY <2>1, <2>2 DEF req
    <2>4. StepAt(x)'
      BY <1>1, <2>3 DEF StepAt, req
    <2> QED BY <2>2, <2>4, StepStays
  <1> QED BY <1>2, <1>3, <1>4 DEF joinCapture

LEMMA LeaderPlaces ==
    ASSUME AdmissionConstants, AdmTyped, TaskInv, StepInv, SourceInv, ActiveRuns <= Capacity, [Next]_vars,
           NEW x \in Handler,
           \/ admissionCapacity(x) \/ createVerifiedSourceInspectionTarget(x) \/ createStaging(x)
           \/ reserveSourceInspectionAttempt(x) \/ reservationFails(x)
    PROVE  \A y \in Handler : StepAt(y)'
  <1>1. ASSUME admissionCapacity(x) PROVE \A y \in Handler : StepAt(y)'
    <2>1. h[x].pc = "capacity" /\ h[x].req.method = "run.submit"
      BY <1>1 DEF admissionCapacity, At, StepInv, req
    <2>2. CASE Refuse(x)
      BY <2>1, <2>2, RefusedGo
    <2>3. CASE Goto(x, "source")
      BY <2>1, <2>3, OthersStay, AtRun
    <2> QED BY <1>1, <2>2, <2>3 DEF admissionCapacity
  <1>2. ASSUME NEW l \in Fresh, Goto(x, l), h[x].pc \in Fresh, source' = source PROVE \A y \in Handler : StepAt(y)'
    <2>1. h[x].req.method = "run.submit" /\ source[h[x].req.key] = Absent
      BY <1>2 DEF StepInv, req, attempt
    <2>2. h'[x].pc = l /\ h'[x].req = h[x].req /\ (StepAt(x)' => \A y \in Handler : StepAt(y)')
      BY <1>2, OthersStay
    <2>3. StepAt(x)'
      BY <1>2, <2>1, <2>2, AtFresh
    <2> QED BY <2>2, <2>3
  <1>3. ASSUME createVerifiedSourceInspectionTarget(x) PROVE \A y \in Handler : StepAt(y)'
    <2>1. h[x].pc = "target" /\ source' = source /\ (Refuse(x) \/ Goto(x, "stage"))
      BY <1>3 DEF createVerifiedSourceInspectionTarget, At, db
    <2> QED BY <1>2, <2>1, RefusedGo
  <1>4. ASSUME createStaging(x) PROVE \A y \in Handler : StepAt(y)'
    <2>1. h[x].pc = "stage" /\ source' = source /\ (Refuse(x) \/ Goto(x, "reserve"))
      BY <1>4 DEF createStaging, At, db
    <2> QED BY <1>2, <2>1, RefusedGo
  <1>5. ASSUME reservationFails(x) PROVE \A y \in Handler : StepAt(y)'
    <2>1. h[x].pc = "reserve" /\ source' = source /\ Goto(x, "unreserved")
      BY <1>5 DEF reservationFails, At, db
    <2> QED BY <1>2, <2>1
  <1>6. ASSUME reserveSourceInspectionAttempt(x) PROVE \A y \in Handler : StepAt(y)'
    <2>1. h[x].pc = "reserve" /\ h[x].req.method = "run.submit" /\ owner' = owner
      BY <1>6 DEF reserveSourceInspectionAttempt, At, StepInv, req
    <2>2. CASE source' = source /\ Goto(x, "unreserved")
      BY <1>2, <2>1, <2>2
    <2>3. CASE /\ Goto(x, "capture") /\ source'[req(x).key] # Absent
               /\ source'[req(x).key] =
                    [phase |-> "capturing", intent |-> req(x).intent, ws |-> req(x).ws, req |-> req(x),
                     epoch |-> owner.epoch, outcome |-> "none", resp |-> <<>>, closure |-> "none",
                     inspector |-> 0]
      <3>1. h'[x].pc = "capture" /\ h'[x].req = h[x].req /\ (StepAt(x)' => \A y \in Handler : StepAt(y)')
        BY <2>1, <2>3, OthersStay
      <3>2. /\ source'[req(x).key].phase = "capturing" /\ source'[req(x).key].req = req(x)
            /\ source'[req(x).key].epoch = owner.epoch
        BY <2>3
      <3>3. StepAt(x)'
        BY <2>1, <2>3, <3>1, <3>2, AtCapture DEF req
      <3> QED BY <3>1, <3>3
    <2> QED BY <1>6, <2>2, <2>3, ReserveMeans
  <1> QED BY <1>1, <1>3, <1>4, <1>5, <1>6

LEMMA CapturePlaces ==
    ASSUME AdmissionConstants, AdmTyped, TaskInv, StepInv, SourceInv, ActiveRuns <= Capacity, [Next]_vars,
           NEW x \in Handler, captureSource(x) \/ retireStaging(x) \/ retirementFails(x) \/ retireSource(x)
    PROVE  \A y \in Handler : StepAt(y)'
  <1>1. ASSUME h[x].pc \in Capturing
        PROVE  /\ h[x].req.method = "run.submit" /\ source[h[x].req.key] # Absent
               /\ source[h[x].req.key].phase = "capturing" /\ source[h[x].req.key].req = h[x].req
               /\ source[h[x].req.key].epoch = owner.epoch
    BY <1>1 DEF StepInv, req, attempt
  <1>2. ASSUME captureSource(x) PROVE \A y \in Handler : StepAt(y)'
    <2>1. /\ h[x].pc = "capture" /\ h'[x].pc = "unstage" /\ h'[x].req = h[x].req
          /\ h'[x] \in Captured /\ \A y \in Handler : y # x => h'[y] = h[y]
          /\ UNCHANGED <<source, owner>>
      BY <1>2, TaskCaptures
    <2>2. StepAt(x)'
      BY <1>1, <2>1, AtCapture
    <2> QED BY <2>1, <2>2, StepStays
  <1>3. ASSUME retireStaging(x) PROVE \A y \in Handler : StepAt(y)'
    <2>1. h[x].pc \in {"unstage", "unreserved"} /\ UNCHANGED <<source, owner>>
          /\ staging' = staging \ {inspectionId(req(x))}
      BY <1>3 DEF retireStaging, db
    <2>2. CASE Refuse(x)
      BY <2>1, <2>2, RefusedGo
    <2>3. CASE Goto(x, "retire") /\ h[x].pc = "unstage"
      <3>1. h[x] \in Captured
        BY <2>3 DEF StepInv
      <3>2. h'[x].pc = "retire" /\ h'[x].req = h[x].req /\ h'[x] \in Captured
            /\ (StepAt(x)' => \A y \in Handler : StepAt(y)')
        BY <2>3, <3>1, OthersStay
      <3>3. inspectionId(h[x].req)' \notin staging'
        BY <2>1, <3>2 DEF inspectionId, req
      <3>4. StepAt(x)'
        BY <1>1, <2>1, <2>3, <3>2, <3>3, AtCapture
      <3> QED BY <3>2, <3>4
    <2> QED BY <1>3, <2>1, <2>2, <2>3 DEF retireStaging
  <1>4. ASSUME retirementFails(x) PROVE \A y \in Handler : StepAt(y)'
    <2>1. /\ h[x].pc \in {"unstage", "unreserved"} /\ h'[x].pc = "kept" /\ h'[x].req = h[x].req
          /\ \A y \in Handler : y # x => h'[y] = h[y] \/ h'[y] = Idle
      BY <1>4, TaskKeeps
    <2>2. h[x].req.method = "run.submit"
      BY <2>1 DEF StepInv, req
    <2>3. StepAt(x)'
      BY <2>1, <2>2, AtRun
    <2>4. \A y \in Handler : h'[y] = Idle => StepAt(y)'
      BY AtQuiet DEF Idle
    <2> QED BY <2>1, <2>3, <2>4, StepStays
  <1>5. ASSUME retireSource(x) PROVE \A y \in Handler : StepAt(y)'
    <2>1. h[x].pc = "retire" /\ h[x].req \in Request
      BY <1>5, RetireMeans
    <2>2. CASE Refuse(x) \/ \E r : Answer(x, r)
      BY <2>1, <2>2, RefusedGo
    <2>3. CASE source' = Retired(req(x).key, "none", "joined") /\ Settle(x, [pc |-> "assemble", req |-> req(x)], TRUE)
      <3>1. req(x).key \in Key /\ source[req(x).key] # Absent /\ req(x).method = "run.submit"
            /\ source[req(x).key].req = req(x)
        BY <1>1, <2>1, Named DEF req
      <3>2. source[req(x).key].intent = req(x).intent
        BY <3>1 DEF SourceInv
      <3>3. "none" \in Cause
        BY DEF Cause
      <3>4. /\ source'[req(x).key] # Absent /\ source'[req(x).key].intent = req(x).intent
            /\ source'[req(x).key].phase = "retired" /\ source'[req(x).key].outcome = "captured"
        BY <2>3, <3>1, <3>2, <3>3, RetiredMeans
      <3> QED BY <2>1, <2>3, <3>1, <3>4, FollowersGo
    <2> QED BY <1>5, <2>2, <2>3, RetireMeans
  <1> QED BY <1>2, <1>3, <1>4, <1>5

LEMMA RunPlaces ==
    ASSUME AdmissionConstants, AdmTyped, TaskInv, StepInv, SourceInv, ActiveRuns <= Capacity, [Next]_vars,
           NEW x \in Handler,
           \/ assembleInstalledRun(x) \/ captureInstalledWorkspaceInstructions(x) \/ admitRunInternal(x)
           \/ admitInstalledRun(x) \/ refuse(x)
    PROVE  \A y \in Handler : StepAt(y)'
  <1>1. ASSUME h[x].pc \in Building, source' = source, NEW l \in Building, Goto(x, l)
        PROVE  \A y \in Handler : StepAt(y)'
    <2>1. /\ h[x].req.method = "run.submit" /\ source[h[x].req.key] # Absent
          /\ source[h[x].req.key].intent = h[x].req.intent
          /\ source[h[x].req.key].phase = "retired" /\ source[h[x].req.key].outcome = "captured"
      BY <1>1 DEF StepInv, req, attempt
    <2>2. h'[x].pc = l /\ h'[x].req = h[x].req /\ (StepAt(x)' => \A y \in Handler : StepAt(y)')
      BY <1>1, OthersStay
    <2>3. StepAt(x)'
      BY <1>1, <2>1, <2>2, AtBuilding
    <2> QED BY <2>2, <2>3
  <1>2. ASSUME h[x].pc \in Building, Goto(x, "replay") PROVE \A y \in Handler : StepAt(y)'
    BY <1>2, OthersStay, AtQuiet
  <1>3. ASSUME assembleInstalledRun(x) PROVE \A y \in Handler : StepAt(y)'
    <2>1. h[x].pc = "assemble" /\ source' = source /\ (Refuse(x) \/ Goto(x, "instruct"))
      BY <1>3 DEF assembleInstalledRun, At, db
    <2> QED BY <1>1, <2>1, RefusedGo
  <1>4. ASSUME captureInstalledWorkspaceInstructions(x) PROVE \A y \in Handler : StepAt(y)'
    <2>1. h[x].pc = "instruct" /\ source' = source /\ (Refuse(x) \/ Goto(x, "prepare"))
      BY <1>4 DEF captureInstalledWorkspaceInstructions, At, db
    <2> QED BY <1>1, <2>1, RefusedGo
  <1>5. ASSUME admitRunInternal(x) PROVE \A y \in Handler : StepAt(y)'
    <2>1. h[x].pc = "prepare" /\ source' = source /\ (Refuse(x) \/ Goto(x, "admit") \/ Goto(x, "replay"))
      BY <1>5 DEF admitRunInternal, At, db
    <2> QED BY <1>1, <1>2, <2>1, RefusedGo
  <1>6. ASSUME admitInstalledRun(x) PROVE \A y \in Handler : StepAt(y)'
    <2>1. h[x].pc = "admit" /\ (Refuse(x) \/ Goto(x, "replay") \/ \E r : Answer(x, r))
      BY <1>6, AdmitMeans
    <2> QED BY <1>2, <2>1, RefusedGo
  <1>7. ASSUME refuse(x) PROVE \A y \in Handler : StepAt(y)'
    <2>1. h[x].pc # "idle" /\ Refuse(x)
      BY <1>7 DEF refuse, Fails
    <2> QED BY <2>1, RefusedGo
  <1> QED BY <1>3, <1>4, <1>5, <1>6, <1>7

LEMMA StepStep ==
    ASSUME AdmissionConstants, AdmTyped, TaskInv, StepInv, SourceInv, ActiveRuns <= Capacity, [Next]_vars
    PROVE  StepInv'
  <1> SUFFICES \A y \in Handler : StepAt(y)'
    BY DEF StepInv, StepAt
  <1>1. CASE h' = h
    BY <1>1, StepStays
  <1>2. CASE Dies
    <2>1. \A y \in Handler : h'[y].pc = "idle"
      BY <1>2 DEF Dies, Idle
    <2> QED BY <2>1, AtQuiet
  <1>3. CASE endRun \/ beginClose \/ release \/ retireAbandonedSourceInspections
    BY <1>1, <1>3 DEF endRun, beginClose, release, retireAbandonedSourceInspections
  <1>4. ASSUME NEW x \in Handler, ownInstalledAdmission(x) PROVE \A y \in Handler : StepAt(y)'
    <2>1. h' = h \/ \E r \in Request : h' = [h EXCEPT ![x] = [pc |-> "replay", req |-> r]]
      BY <1>4 DEF ownInstalledAdmission
    <2>2. ASSUME NEW r \in Request, h' = [h EXCEPT ![x] = [pc |-> "replay", req |-> r]]
          PROVE \A y \in Handler : StepAt(y)'
      <3>1. h'[x].pc = "replay" /\ \A y \in Handler : y # x => h'[y] = h[y]
        BY <2>2 DEF AdmTyped
      <3> QED BY <3>1, AtQuiet, StepStays
    <2> QED BY <1>1, <2>1, <2>2
  <1>5. ASSUME Next PROVE \A y \in Handler : StepAt(y)'
    <2>1. CASE \E x \in Handler : \/ replayAdmission(x) \/ bindAlias(x) \/ createSessionWithin(x)
                                  \/ submitInstalledRunOwned(x)
      BY <2>1, EarlyPlaces
    <2>2. CASE \E x \in Handler : replayRefusal(x) \/ replayCapture(x)
      BY <2>2, ReplayPlaces
    <2>3. CASE \E x \in Handler : \/ admissionCapacity(x) \/ createVerifiedSourceInspectionTarget(x)
                                  \/ createStaging(x) \/ reserveSourceInspectionAttempt(x) \/ reservationFails(x)
      BY <2>3, LeaderPlaces
    <2>4. CASE \E x \in Handler : captureSource(x) \/ retireStaging(x) \/ retirementFails(x) \/ retireSource(x)
      BY <2>4, CapturePlaces
    <2>5. CASE \E x \in Handler : \/ assembleInstalledRun(x) \/ captureInstalledWorkspaceInstructions(x)
                                  \/ admitRunInternal(x) \/ admitInstalledRun(x) \/ refuse(x)
      BY <2>5, RunPlaces
    <2>6. CASE \E x \in Handler : joinCapture(x) \/ ownInstalledAdmission(x)
      BY <1>4, <2>6, JoinPlaces
    <2> QED BY <1>2, <1>3, <1>5, <2>1, <2>2, <2>3, <2>4, <2>5, <2>6 DEF Next
  <1> QED BY <1>1, <1>5 DEF vars

\* ---- the sources -------------------------------------------------------------

\* What SourceInv says of one row.
RowAt(k) ==
    source[k] # Absent =>
        /\ source[k].req.key = k /\ source[k].intent = source[k].req.intent
        /\ source[k].ws = source[k].req.ws /\ source[k].req.method = "run.submit"
        /\ decode(source[k])
        /\ source[k].phase = "retired" => readSourceInspectionRetirement(source[k])

\* A retired row decodes, and who retired it may.
LEMMA RetiredDecodes ==
    ASSUME AdmTyped, SourceInv, NEW k \in Key, source[k] # Absent, NEW c \in Cause \cup {"died"},
           NEW closure \in {"joined", "died"}, source' = Retired(k, c, closure),
           \/ closure = "joined" /\ c \in Cause /\ source[k].epoch = owner.epoch
           \/ closure = "died" /\ c = "died" /\ source[k].epoch < owner.epoch
    PROVE  RowAt(k)'
  <1>1. /\ source'[k].phase = "retired" /\ source'[k].closure = closure /\ source'[k].inspector = owner.epoch
        /\ source'[k].outcome = IF c = "none" THEN "captured" ELSE IF c = "cancelled" THEN c ELSE "failed"
        /\ source'[k].resp = IF c = "none" THEN <<>> ELSE errorResponse(c, k)
        /\ source'[k].req = source[k].req /\ source'[k].intent = source[k].intent
        /\ source'[k].ws = source[k].ws /\ source'[k].epoch = source[k].epoch
    BY RetiredMeans
  <1>2. /\ source[k].req.key = k /\ source[k].intent = source[k].req.intent
        /\ source[k].ws = source[k].req.ws /\ source[k].req.method = "run.submit"
    BY DEF SourceInv
  <1>3. source[k] \in SourceRow /\ owner.epoch \in Nat
    BY DEF AdmTyped
  <1>4. source[k].epoch \in Nat
    BY <1>3 DEF SourceRow
  <1>5. readSourceInspectionRetirement(source[k])'
    BY <1>1, <1>3, <1>4 DEF readSourceInspectionRetirement, Cause
  <1>6. decode(source[k])'
    <2>1. CASE c = "none"
      <3>1. errorResponse("cancelled", k) # <<>>
        BY Classes DEF Refusal
      <3> QED BY <1>1, <1>2, <2>1, <3>1 DEF decode
    <2>2. CASE c # "none"
      <3>1. errorResponse(c, k) # <<>> /\ (errorResponse(c, k) = errorResponse("cancelled", k) <=> c = "cancelled")
        BY <2>2, Classes DEF Refusal, Cause
      <3> QED BY <1>1, <1>2, <2>2, <3>1 DEF decode
    <2> QED BY <2>1, <2>2
  <1> QED BY <1>1, <1>2, <1>5, <1>6 DEF RowAt

LEMMA ReservedDecodes ==
    ASSUME AdmissionConstants, AdmTyped, StepInv, NEW x \in Handler, reserveSourceInspectionAttempt(x),
           source' # source, NEW k \in Key, k = req(x).key
    PROVE  RowAt(k)' /\ source'[k].phase = "capturing" /\ source'[k].req = req(x) /\ source'[k].ws = req(x).ws
  <1>1. source'[k] =
            [phase |-> "capturing", intent |-> req(x).intent, ws |-> req(x).ws, req |-> req(x),
             epoch |-> owner.epoch, outcome |-> "none", resp |-> <<>>, closure |-> "none",
             inspector |-> 0]
    BY ReserveMeans
  <1>2. /\ source'[k].phase = "capturing" /\ source'[k].intent = req(x).intent /\ source'[k].ws = req(x).ws
        /\ source'[k].req = req(x) /\ source'[k].outcome = "none" /\ source'[k].resp = <<>>
    BY <1>1
  <1>3. h[x].pc = "reserve" /\ req(x).method = "run.submit"
    BY DEF reserveSourceInspectionAttempt, At, StepInv
  <1>4. errorResponse("cancelled", k) # <<>>
    BY Classes DEF Refusal
  <1> QED BY <1>2, <1>3, <1>4 DEF RowAt, decode

LEMMA SourceStep ==
    ASSUME AdmissionConstants, AdmTyped, StepInv, SourceInv, [Next]_vars
    PROVE  SourceInv'
  <1>1. ASSUME NEW k \in Key PROVE RowAt(k)'
    <2>1. CASE source'[k] = source[k]
      BY <2>1 DEF SourceInv, RowAt, decode, readSourceInspectionRetirement
    <2>2. ASSUME NEW x \in Handler, reserveSourceInspectionAttempt(x), k = req(x).key, source'[k] # source[k]
          PROVE  RowAt(k)'
      BY <2>2, ReservedDecodes
    <2>3. ASSUME NEW x \in Handler, retireSource(x), k = req(x).key, source'[k] # source[k]
          PROVE  RowAt(k)'
      <3>1. h[x].pc = "retire"
        BY <2>3, RetireMeans
      <3>2. PICK c \in Cause : source' = Retired(k, c, "joined")
        BY <2>3, RetireMeans
      <3>3. source[k] # Absent /\ source[k].epoch = owner.epoch
        BY <2>3, <3>1 DEF StepInv, attempt
      <3> QED BY <3>2, <3>3, RetiredDecodes
    <2>4. CASE retireAbandonedSourceInspections /\ source'[k] # source[k]
      <3>1. PICK j \in Unretired : source[j].epoch < owner.epoch /\ source' = Retired(j, "died", "died")
        BY <2>4, AbandonMeans
      <3>2. j \in Key /\ source[j] # Absent
        BY <3>1 DEF Unretired
      <3>3. j = k
        BY <2>4, <3>1, <3>2, RetiredMeans
      <3> QED BY <3>1, <3>2, <3>3, RetiredDecodes
    <2> QED BY <2>1, <2>2, <2>3, <2>4, SourceSteps
  <1>2. ASSUME NEW x \in Handler, reserveSourceInspectionAttempt(x), source' # source,
               NEW k \in Key, k = req(x).key, NEW j \in Key, j # k, source'[j] # Absent, source'[j].req.id = source'[k].req.id
        PROVE  FALSE
    <2>1. source'[j] = source[j] /\ requestIdIsFree(x, inspectionId(req(x)))
      BY <1>2, ReserveMeans
    <2>2. source'[k].req = req(x)
      BY <1>2, ReservedDecodes
    <2>3. req(x) \in Request /\ inspectionId(req(x)) # Absent
      <3>1. h[x].pc = "reserve"
        BY <1>2 DEF reserveSourceInspectionAttempt, At
      <3>2. DOMAIN inspectionId(req(x)) = 1 .. 2 /\ DOMAIN Absent = {"none"}
        BY DEF inspectionId, Absent
      <3>3. 1 \in DOMAIN inspectionId(req(x)) /\ 2 \in DOMAIN inspectionId(req(x))
        BY <3>2
      <3>4. inspectionId(req(x)) # Absent
        BY <3>2, <3>3
      <3> QED BY <3>1, <3>4, Busy DEF req, Idle
    <2>4. inspectionId(source[j].req) = inspectionId(req(x))
      BY <1>2, <2>1, <2>2, <2>3 DEF requestIdIsFree
    <2>5. source[j].req.key = req(x).key
      BY <2>4 DEF inspectionId
    <2>6. source[j].req.key = j
      BY <1>2, <2>1 DEF SourceInv
    <2> QED BY <1>2, <2>5, <2>6
  <1>3. ASSUME NEW k \in Key, NEW j \in Key, source'[k] # Absent, source'[j] # Absent,
               source'[k].req.id = source'[j].req.id
        PROVE  k = j
    <2>1. CASE source[k] # Absent /\ source[j] # Absent
      <3>1. source'[k].req = source[k].req /\ source'[j].req = source[j].req
        BY <2>1, SourceSteps
      <3> QED BY <1>3, <2>1, <3>1 DEF SourceInv
    <2>2. CASE source[k] = Absent
      <3>1. PICK x \in Handler : reserveSourceInspectionAttempt(x) /\ k = req(x).key
        BY <1>3, <2>2, SourceSteps
      <3> QED BY <1>2, <1>3, <2>2, <3>1
    <2>3. CASE source[j] = Absent
      <3>1. PICK x \in Handler : reserveSourceInspectionAttempt(x) /\ j = req(x).key
        BY <1>3, <2>3, SourceSteps
      <3> QED BY <1>2, <1>3, <2>3, <3>1
    <2> QED BY <2>1, <2>2, <2>3
  <1>4. \A k \in Key : RowAt(k)'
    BY <1>1
  <1>5. \A k, j \in Key : source'[k] # Absent /\ source'[j] # Absent /\ source'[k].req.id = source'[j].req.id => k = j
    BY <1>3
  <1> QED BY <1>4, <1>5 DEF SourceInv, RowAt

\* Who works on a capture, or keeps it, goes on doing so until the last cut.
Holding == {"capture", "unstage", "retire", "kept"}

LEMMA WorkersStay ==
    ASSUME AdmissionConstants, AdmTyped, StepInv, [Next]_vars, ~Dies, NEW x \in Handler, h[x].pc \in Holding
    PROVE  \/ h'[x].pc \in Holding /\ h'[x].req = h[x].req
           \/ retireSource(x)
  <1>1. h[x] # Idle
    BY DEF Holding, Idle
  <1>2. CASE h' = h
    BY <1>2
  <1>3. ASSUME NEW z \in Handler, z # x, Walk(z) \/ Ends(z) PROVE h'[x] = h[x]
    <2>1. CASE Walk(z)
      BY <1>3, <2>1, GotoMeans DEF Walk, Idle
    <2>2. CASE Ends(z)
      BY <1>3, <2>2 DEF Ends, Settle, Waits, Holding
    <2> QED BY <1>3, <2>1, <2>2
  <1>4. ASSUME NEW z \in Handler,
               \/ replayAdmission(z) \/ bindAlias(z) \/ createSessionWithin(z) \/ submitInstalledRunOwned(z)
        PROVE  h'[x] = h[x]
    <2>1. z # x
      BY <1>4 DEF replayAdmission, bindAlias, createSessionWithin, submitInstalledRunOwned, At, Holding
    <2> QED BY <1>3, <1>4, <2>1, EarlySteps
  <1>5. ASSUME NEW z \in Handler, replayRefusal(z) \/ replayCapture(z) PROVE h'[x] = h[x]
    <2>1. z # x
      BY <1>5 DEF replayRefusal, replayCapture, At, Holding
    <2> QED BY <1>3, <1>5, <2>1, ReplaySteps
  <1>6. ASSUME NEW z \in Handler,
               \/ admissionCapacity(z) \/ createVerifiedSourceInspectionTarget(z) \/ createStaging(z)
               \/ reserveSourceInspectionAttempt(z) \/ reservationFails(z)
        PROVE  h'[x] = h[x]
    <2>1. z # x
      BY <1>6 DEF admissionCapacity, createVerifiedSourceInspectionTarget, createStaging,
           reserveSourceInspectionAttempt, reservationFails, At, Holding
    <2> QED BY <1>3, <1>6, <2>1, LeaderSteps
  <1>7. ASSUME NEW z \in Handler,
               \/ assembleInstalledRun(z) \/ captureInstalledWorkspaceInstructions(z) \/ admitRunInternal(z)
               \/ admitInstalledRun(z) \/ refuse(z)
        PROVE  h'[x] = h[x]
    <2>1. z # x
      BY <1>7 DEF assembleInstalledRun, captureInstalledWorkspaceInstructions, admitRunInternal,
           admitInstalledRun, refuse, At, Holding
    <2> QED BY <1>3, <1>7, <2>1, RunSteps
  <1>8. ASSUME NEW z \in Handler, joinCapture(z) PROVE h'[x] = h[x]
    <2>1. h[z].pc = "credential" /\ z # x
      BY <1>8 DEF joinCapture, At, Holding
    <2>2. CASE Refuse(z)
      BY <1>3, <2>1, <2>2, RefuseEnds
    <2>3. CASE Goto(z, "capacity")
      BY <2>1, <2>3 DEF Goto, AdmTyped
    <2> QED BY <1>8, <2>1, <2>2, <2>3 DEF joinCapture, AdmTyped
  <1>9. ASSUME NEW z \in Handler, ownInstalledAdmission(z) PROVE h'[x] = h[x]
    <2>1. z # x
      BY <1>1, <1>9 DEF ownInstalledAdmission
    <2> QED BY <1>9, <2>1 DEF ownInstalledAdmission, AdmTyped
  <1>10. ASSUME NEW z \in Handler, captureSource(z) PROVE h'[x].pc \in Holding /\ h'[x].req = h[x].req
    BY <1>10, TaskCaptures DEF Holding
  <1>11. ASSUME NEW z \in Handler, retirementFails(z) PROVE h'[x].pc \in Holding /\ h'[x].req = h[x].req
    BY <1>11, TaskKeeps DEF Holding
  <1>12. ASSUME NEW z \in Handler, retireStaging(z) PROVE h'[x].pc \in Holding /\ h'[x].req = h[x].req
    <2>1. CASE z # x
      BY <1>3, <1>12, <2>1, LeaderSteps
    <2>2. CASE z = x
      <3>1. h[x].pc = "unstage" /\ Goto(x, "retire")
        BY <1>12, <2>2 DEF retireStaging, Holding
      <3> QED BY <1>1, <3>1, GotoMeans DEF Holding
    <2> QED BY <2>1, <2>2
  <1>13. ASSUME NEW z \in Handler, retireSource(z), z # x PROVE h'[x] = h[x]
    BY <1>3, <1>13, LeaderSteps
  <1>14. CASE endRun \/ beginClose \/ release \/ retireAbandonedSourceInspections
    BY <1>14 DEF endRun, beginClose, release, retireAbandonedSourceInspections
  <1>15. ASSUME Next
         PROVE  \/ h'[x].pc \in Holding /\ h'[x].req = h[x].req
                \/ retireSource(x)
    <2>1. CASE \E z \in Handler : \/ replayAdmission(z) \/ bindAlias(z) \/ createSessionWithin(z)
                                  \/ submitInstalledRunOwned(z)
      BY <1>4, <2>1
    <2>2. CASE \E z \in Handler : replayRefusal(z) \/ replayCapture(z)
      BY <1>5, <2>2
    <2>3. CASE \E z \in Handler : \/ admissionCapacity(z) \/ createVerifiedSourceInspectionTarget(z)
                                  \/ createStaging(z) \/ reserveSourceInspectionAttempt(z) \/ reservationFails(z)
      BY <1>6, <2>3
    <2>4. CASE \E z \in Handler : captureSource(z) \/ retireStaging(z) \/ retirementFails(z) \/ retireSource(z)
      BY <1>10, <1>11, <1>12, <1>13, <2>4
    <2>5. CASE \E z \in Handler : \/ assembleInstalledRun(z) \/ captureInstalledWorkspaceInstructions(z)
                                  \/ admitRunInternal(z) \/ admitInstalledRun(z) \/ refuse(z)
      BY <1>7, <2>5
    <2>6. CASE \E z \in Handler : joinCapture(z) \/ ownInstalledAdmission(z)
      BY <1>8, <1>9, <2>6
    <2> QED BY <1>14, <1>15, <2>1, <2>2, <2>3, <2>4, <2>5, <2>6 DEF Next
  <1> QED BY <1>2, <1>15 DEF vars

\* The directory of a retired source is gone and nobody makes it again.
LEMMA NoDirectory ==
    ASSUME AdmissionConstants, AdmTyped, StepInv, SourceInv, CaptureIsOwned, [Next]_vars,
           NEW k \in Key, source'[k] # Absent, source'[k].phase = "retired"
    PROVE  inspectionId(source'[k].req) \notin staging'
  <1>1. source[k] # Absent /\ source'[k].req = source[k].req
    <2>1. CASE source[k] # Absent
      BY <2>1, SourceSteps
    <2>2. CASE source[k] = Absent
      <3>1. PICK x \in Handler : reserveSourceInspectionAttempt(x) /\ k = req(x).key
        BY <2>2, SourceSteps
      <3>2. source'[k].phase = "capturing"
        BY <2>2, <3>1, ReservedDecodes
      <3> QED BY <3>2
    <2> QED BY <2>1, <2>2
  <1>2. source[k].req.key = k
    BY <1>1 DEF SourceInv
  <1>3. inspectionId(source[k].req) \notin staging => inspectionId(source[k].req) \notin staging'
    <2>1. ASSUME NEW x \in Handler, createStaging(x), inspectionId(source[k].req) \notin staging
          PROVE  inspectionId(source[k].req) \notin staging'
      <3>1. h[x].pc = "stage" /\ staging' \subseteq staging \cup {inspectionId(req(x))}
        BY <2>1 DEF createStaging, At
      <3>2. source[req(x).key] = Absent
        BY <3>1 DEF StepInv, attempt
      <3>3. req(x).key # k
        BY <1>1, <3>2
      <3>4. inspectionId(req(x)) # inspectionId(source[k].req)
        BY <1>2, <3>3 DEF inspectionId
      <3> QED BY <2>1, <3>1, <3>4
    <2>2. ASSUME NEW x \in Handler, retireStaging(x) PROVE staging' \subseteq staging
      BY <2>2 DEF retireStaging
    <2>3. ASSUME retireAbandonedSourceInspections PROVE staging' \subseteq staging
      BY <2>3, AbandonMeans
    <2> QED BY <2>1, <2>2, <2>3, Writers
  <1>4. CASE source[k].phase = "retired"
    <2>1. inspectionId(source[k].req) \notin staging
      BY <1>1, <1>4 DEF CaptureIsOwned
    <2> QED BY <1>1, <1>3, <2>1
  <1>5. CASE source[k].phase # "retired"
    <2>1. source'[k] # source[k]
      BY <1>5
    <2>2. ASSUME NEW x \in Handler, retireSource(x), k = req(x).key
          PROVE  inspectionId(source[k].req) \notin staging
      <3>1. h[x].pc = "retire"
        BY <2>2, RetireMeans
      <3>2. source[k].req = req(x) /\ inspectionId(req(x)) \notin staging
        BY <2>2, <3>1 DEF StepInv, attempt
      <3> QED BY <3>2
    <2>3. CASE retireAbandonedSourceInspections
      <3>1. PICK j \in Unretired : source' = Retired(j, "died", "died") /\ staging' = staging \ {inspectionId(source[j].req)}
        BY <2>1, <2>3, AbandonMeans
      <3>2. j \in Key /\ source[j] # Absent
        BY <3>1 DEF Unretired
      <3>3. j = k
        BY <2>1, <3>1, <3>2, RetiredMeans
      <3> QED BY <1>1, <3>1, <3>3
    <2> QED BY <1>1, <1>3, <2>1, <2>2, <2>3, SourceSteps
  <1> QED BY <1>4, <1>5

LEMMA OwnedStep ==
    ASSUME AdmissionConstants, AdmTyped, StepInv, SourceInv, BoundInv, RunSourced, ActiveRuns <= Capacity,
           CaptureIsOwned, [Next]_vars
    PROVE  CaptureIsOwned'
  <1>1. ASSUME NEW k \in Key, source'[k] # Absent, source'[k].phase = "capturing", source'[k] # source[k]
        PROVE  \E x \in Handler : /\ reserveSourceInspectionAttempt(x) /\ k = req(x).key /\ source[k] = Absent
                                  /\ source'[k].req = req(x) /\ source'[k].ws = req(x).ws
                                  /\ ~(\E j \in Unretired : source[j].ws = req(x).ws)
                                  /\ Goto(x, "capture")
    <2>1. source[k] = Absent
      BY <1>1, SourceSteps
    <2>2. PICK x \in Handler : reserveSourceInspectionAttempt(x) /\ k = req(x).key
      BY <1>1, <2>1, SourceSteps
    <2> QED BY <1>1, <2>1, <2>2, ReservedDecodes, ReserveMeans
  <1>2. ASSUME NEW k \in Key, NEW j \in Key, source'[k] # Absent, source'[k].phase = "capturing",
               source'[j] # Absent, source'[j].phase = "capturing", source'[k].ws = source'[j].ws, k # j,
               source'[k] # source[k]
        PROVE  FALSE
    <2>1. PICK x \in Handler : /\ reserveSourceInspectionAttempt(x) /\ k = req(x).key /\ source'[k].ws = req(x).ws
                               /\ ~(\E i \in Unretired : source[i].ws = req(x).ws)
      BY <1>1, <1>2
    <2>2. source'[j] = source[j]
      BY <1>2, <2>1, ReserveMeans
    <2>3. j \in Unretired
      BY <1>2, <2>2 DEF Unretired
    <2> QED BY <1>2, <2>1, <2>2, <2>3
  <1>3. ASSUME NEW k \in Key, NEW j \in Key, source'[k] # Absent, source'[k].phase = "capturing",
               source'[j] # Absent, source'[j].phase = "capturing", source'[k].ws = source'[j].ws
        PROVE  k = j
    <2>1. CASE source'[k] = source[k] /\ source'[j] = source[j]
      BY <1>3, <2>1 DEF CaptureIsOwned, Unretired
    <2> QED BY <1>2, <1>3, <2>1
  <1>4. ASSUME NEW k \in Key, source'[k] # Absent, source'[k].phase = "retired"
        PROVE  retained(source[k])' /\ inspectionId(source'[k].req) \notin staging'
    <2>1. SourceInv'
      BY SourceStep
    <2>2. retained(source[k])'
      BY <1>4, <2>1 DEF SourceInv, retained, decode, readSourceInspectionRetirement
    <2> QED BY <1>4, <2>2, NoDirectory
  <1>5. ASSUME owner'.mode = "open", NEW k \in Key, source'[k] # Absent, source'[k].phase = "capturing"
        PROVE  \/ \E x \in Handler : h'[x].pc \in Holding /\ h'[x].req = source'[k].req
               \/ /\ control'[<<"run.submit", source'[k].req.id>>] # Absent
                  /\ control'[<<"run.submit", source'[k].req.id>>].req # source'[k].req
    <2>1. ~beginClose /\ ~release /\ ~Dies
      BY <1>5 DEF beginClose, release, Dies, AdmTyped
    <2>2. ~retireAbandonedSourceInspections
      <3>1. ASSUME retireAbandonedSourceInspections PROVE FALSE
        <4>1. Unretired = {} /\ source' = source
          BY <1>5, <3>1, AbandonMeans
        <4> QED BY <1>5, <4>1 DEF Unretired
      <3> QED BY <3>1
    <2>3. owner.mode = "open"
      BY <1>5, <2>1, <2>2, Writers
    <2>4. CASE source'[k] # source[k]
      <3>1. PICK x \in Handler : reserveSourceInspectionAttempt(x) /\ source'[k].req = req(x) /\ Goto(x, "capture")
        BY <1>1, <1>5, <2>4
      <3>2. h[x].pc = "reserve" /\ h[x] # Idle
        BY <3>1 DEF reserveSourceInspectionAttempt, At, Idle
      <3>3. h'[x].pc = "capture" /\ h'[x].req = h[x].req
        BY <3>1, <3>2, GotoMeans
      <3> QED BY <3>1, <3>3 DEF Holding, req
    <2>5. CASE source'[k] = source[k]
      <3>1. k \in Unretired
        BY <1>5, <2>5 DEF Unretired
      <3> DEFINE taken == control[<<"run.submit", source[k].req.id>>]
      <3>2. source[k].req \in Request /\ source[k].req.method = "run.submit" /\ source[k].req.key = k
        BY <1>5, <2>5 DEF AdmTyped, SourceRow, SourceInv
      <3>3. "run.submit" \in Method /\ source[k].req.id \in Id
        BY <3>2, Named DEF AdmissionConstants
      <3>4. CASE taken # Absent /\ taken.req # source[k].req
        <4>1. ControlGrows
          BY ControlStep
        <4>2. control'[<<"run.submit", source[k].req.id>>] = taken
          BY <3>3, <3>4, <4>1 DEF ControlGrows
        <4> QED BY <2>5, <3>4, <4>2
      <3>5. CASE \E x \in Handler : h[x].pc \in Holding /\ req(x) = source[k].req
        <4>1. PICK x \in Handler : h[x].pc \in Holding /\ h[x].req = source[k].req
          BY <3>5 DEF req
        <4>2. CASE h'[x].pc \in Holding /\ h'[x].req = h[x].req
          BY <2>5, <4>1, <4>2
        <4>3. CASE retireSource(x)
          <5>1. h[x].pc = "retire" /\ req(x).key = k
            BY <3>2, <4>1, <4>3, RetireMeans DEF req
          <5>2. ASSUME NEW c \in Cause, source' = Retired(k, c, "joined") PROVE FALSE
            <6>1. source'[k].phase = "retired"
              BY <1>5, <2>5, <5>2, RetiredMeans
            <6> QED BY <1>5, <6>1
          <5>3. ~requestIdIsFree(x, inspectionId(req(x))) /\ control' = control
            BY <4>3, <5>1, <5>2, RetireMeans
          <5>4. \A j \in Key : source[j] # Absent /\ source[j].req.id = req(x).id =>
                   source[j].req = req(x) /\ inspectionId(source[j].req) = inspectionId(req(x))
            <6>1. ASSUME NEW j \in Key, source[j] # Absent, source[j].req.id = req(x).id PROVE j = k
              BY <1>5, <2>5, <4>1, <6>1 DEF SourceInv, req
            <6> QED BY <4>1, <6>1 DEF req
          <5>5. mine(x) # Absent /\ mine(x).req # req(x)
            BY <5>3, <5>4 DEF requestIdIsFree
          <5>6. control'[<<"run.submit", source'[k].req.id>>] = mine(x) /\ source'[k].req = req(x)
            BY <2>5, <3>2, <4>1, <5>3 DEF mine, req
          <5> QED BY <5>5, <5>6
        <4> QED BY <2>1, <4>1, <4>2, <4>3, WorkersStay
      <3> QED BY <2>3, <3>1, <3>4, <3>5 DEF CaptureIsOwned, Holding
    <2> QED BY <2>4, <2>5
  <1>6. \A k, j \in Unretired' : source'[k].ws = source'[j].ws => k = j
    BY <1>3 DEF Unretired
  <1>7. owner'.mode = "open" => \A k \in Unretired' :
           \/ \E x \in Handler : h'[x].pc \in Holding /\ h'[x].req = source'[k].req
           \/ /\ control'[<<"run.submit", source'[k].req.id>>] # Absent
              /\ control'[<<"run.submit", source'[k].req.id>>].req # source'[k].req
    BY <1>5 DEF Unretired
  <1> QED BY <1>4, <1>6, <1>7 DEF CaptureIsOwned, Holding, req

\* ---- the theorems --------------------------------------------------------------

LEMMA InitInv ==
    ASSUME AdmissionConstants, Init
    PROVE  Inv
  <1>1. /\ control = [i \in Method \X Id |-> Absent] /\ admitted = [k \in Method \X Key |-> Absent]
        /\ source = [k \in Key |-> Absent] /\ staging = {} /\ owner = [epoch |-> 1, mode |-> "open"]
        /\ h = [x \in Handler |-> Idle] /\ tasks = [k \in Key |-> Absent] /\ answers = {}
    BY DEF Init
  <1>2. Idle.pc = "idle"
    BY DEF Idle
  <1>3. \A k \in Key : <<"run.submit", k>> \in Method \X Key
    BY DEF AdmissionConstants
  <1>4. AdmTyped
    BY <1>1, <1>3 DEF AdmTyped, Handling
  <1>5. TaskInv
    BY <1>1, <1>2 DEF TaskInv
  <1>6. StepInv
    BY <1>1, <1>2 DEF StepInv
  <1>7. SourceInv /\ Answered /\ CaptureIsOwned
    BY <1>1 DEF SourceInv, Answered, CaptureIsOwned, Unretired
  <1>8. BoundInv
    BY <1>1 DEF BoundInv
  <1>9. RunSourced
    BY <1>1, <1>3 DEF RunSourced
  <1>10. ActiveRuns <= Capacity
    <2>1. {k \in Key : admitted[<<"run.submit", k>>] # Absent /\ admitted[<<"run.submit", k>>].live} = {}
      BY <1>1, <1>3
    <2>2. ActiveRuns = 0
      BY <2>1, FS_EmptySet DEF ActiveRuns
    <2> QED BY <2>2 DEF AdmissionConstants
  <1> QED BY <1>4, <1>5, <1>6, <1>7, <1>8, <1>9, <1>10 DEF Inv

LEMMA NextInv ==
    ASSUME AdmissionConstants, Inv, [Next]_vars
    PROVE  Inv'
  <1>1. /\ AdmTyped /\ TaskInv /\ StepInv /\ SourceInv /\ BoundInv /\ RunSourced /\ Answered
        /\ ActiveRuns <= Capacity /\ CaptureIsOwned
    BY DEF Inv
  <1>2. TablesTyped /\ TaskInv'
    BY <1>1, TaskStep
  <1>3. AdmTyped'
    <2>1. ControlGrows
      BY <1>1, ControlStep
    <2>2. /\ admitted' \in [Method \X Key -> {Absent} \cup Session \cup Run]
          /\ \A k \in Key : admitted'[<<"run.submit", k>>] \in {Absent} \cup Run
      BY <1>1, AdmittedSteps
    <2>3. source' \in [Key -> {Absent} \cup SourceRow]
      BY <1>1, SourceSteps
    <2>4. owner' \in [epoch : Nat, mode : {"open", "closing", "starting"}]
      BY <1>1, OwnerSteps
    <2> QED BY <1>2, <2>1, <2>2, <2>3, <2>4 DEF AdmTyped, TablesTyped, ControlGrows
  <1>4. StepInv'
    BY <1>1, StepStep
  <1>5. SourceInv'
    BY <1>1, SourceStep
  <1>6. BoundInv'
    BY <1>1, BoundStep
  <1>7. RunSourced'
    BY <1>1, RunSourcedStep
  <1>8. Answered'
    BY <1>1, AnsweredStep
  <1>9. ActiveRuns' <= Capacity
    BY <1>1, AdmittedSteps
  <1>10. CaptureIsOwned'
    BY <1>1, OwnedStep
  <1> QED BY <1>2, <1>3, <1>4, <1>5, <1>6, <1>7, <1>8, <1>9, <1>10 DEF Inv

LEMMA InvImplies ==
    ASSUME AdmissionConstants, Inv
    PROVE  AnswersAgree /\ RunHasItsSource
  <1>1. ASSUME NEW a \in answers
        PROVE  /\ a[1] \in Request /\ a[1].method \in Method /\ a[1].id \in Id
               /\ control[<<a[1].method, a[1].id>>] = [req |-> a[1], resp |-> a[2]]
               /\ control[<<a[1].method, a[1].id>>] # Absent
               /\ Follows(control[<<a[1].method, a[1].id>>])
    <2>1. a[1] \in Request /\ control[<<a[1].method, a[1].id>>] = [req |-> a[1], resp |-> a[2]]
      BY <1>1 DEF Inv, Answered
    <2>2. a[1].method \in Method /\ a[1].id \in Id
      BY <2>1, Named
    <2>3. control[<<a[1].method, a[1].id>>] # Absent
      <3>1. DOMAIN [req |-> a[1], resp |-> a[2]] = {"req", "resp"} /\ DOMAIN Absent = {"none"}
        BY DEF Absent
      <3> QED BY <2>1, <3>1
    <2> QED BY <2>1, <2>2, <2>3 DEF Inv, BoundInv
  <1>2. ASSUME NEW a \in answers, NEW b \in answers, a[1].method = b[1].method, a[1].key = b[1].key
        PROVE  a[2] = b[2] /\ a[1].intent = b[1].intent
    <2> DEFINE c == control[<<a[1].method, a[1].id>>]
               d == control[<<b[1].method, b[1].id>>]
    <2>1. c.req = a[1] /\ c.resp = a[2] /\ Follows(c)
      <3>1. c = [req |-> a[1], resp |-> a[2]] /\ Follows(c)
        BY <1>1
      <3> HIDE DEF c
      <3> QED BY <3>1
    <2>2. d.req = b[1] /\ d.resp = b[2] /\ Follows(d)
      <3>1. d = [req |-> b[1], resp |-> b[2]] /\ Follows(d)
        BY <1>1
      <3> HIDE DEF d
      <3> QED BY <3>1
    <2> HIDE DEF c, d
    <2> QED BY <1>2, <2>1, <2>2 DEF Follows
  <1>3. AnswersAgree
    BY <1>1, <1>2 DEF AnswersAgree
  <1>4. RunHasItsSource
    <2>1. ASSUME NEW k \in Key, admitted[<<"run.submit", k>>] # Absent
          PROVE  /\ source[k] # Absent /\ retained(source[k]) /\ source[k].outcome = "captured"
                 /\ source[k].intent = admitted[<<"run.submit", k>>].intent
      <3>1. /\ source[k] # Absent /\ source[k].phase = "retired" /\ source[k].outcome = "captured"
            /\ source[k].intent = admitted[<<"run.submit", k>>].intent
        BY <2>1 DEF Inv, RunSourced
      <3>2. retained(source[k])
        BY <3>1 DEF Inv, CaptureIsOwned
      <3> QED BY <3>1, <3>2
    <2> QED BY <2>1 DEF RunHasItsSource, Inv
  <1> QED BY <1>3, <1>4

LEMMA AlwaysInv ==
    ASSUME AdmissionConstants
    PROVE  Spec => []Inv
  <1>1. Init => Inv
    BY InitInv
  <1>2. Inv /\ [Next]_vars => Inv'
    BY NextInv
  <1> QED BY <1>1, <1>2, PTL DEF Spec

\* Whoever asks for a key, under whatever request id, before or after a death, during
\* a race or by a replay, is told the same, and what was told stays bound to the id.
THEOREM AnswersAlwaysAgree ==
    ASSUME AdmissionConstants
    PROVE  Spec => []AnswersAgree
  <1>1. Inv => AnswersAgree
    BY InvImplies
  <1> QED BY <1>1, AlwaysInv, PTL

\* Every admitted Run stands on a source that was captured for its intent and whose
\* retirement is kept, and there are never more live Runs than the capacity.
THEOREM RunsAlwaysSourced ==
    ASSUME AdmissionConstants
    PROVE  Spec => []RunHasItsSource
  <1>1. Inv => RunHasItsSource
    BY InvImplies
  <1> QED BY <1>1, AlwaysInv, PTL

\* No workspace is captured twice at a time, every retired capture can be read back
\* and has no directory left, and every one that is open in an open store is worked
\* on, was kept because it could not be joined, or lost its request id to other bytes.
THEOREM CapturesAlwaysOwned ==
    ASSUME AdmissionConstants
    PROVE  Spec => []CaptureIsOwned
  <1>1. Inv => CaptureIsOwned
    BY DEF Inv
  <1> QED BY <1>1, AlwaysInv, PTL

\* All that is asked of admission, together.
THEOREM AdmissionAlwaysAgrees ==
    ASSUME AdmissionConstants
    PROVE  Spec => []AdmissionAgrees
  BY AnswersAlwaysAgree, RunsAlwaysSourced, CapturesAlwaysOwned, PTL DEF AdmissionAgrees
=============================================================================
