---------------------------- MODULE SessionFiles ----------------------------
(* The files one CLI home keeps for a workspace: the session files, the      *)
(* workspace state and index that point at them (session/store.ts), the      *)
(* workspace checkpoints (session/checkpoints.ts), forks (session/fork.ts)   *)
(* and the plan artifacts (plans/store.ts).  Several processes use them at   *)
(* once; every file is replaced atomically, every other step may be the last *)
(* one of a process or of a call.                                            *)
EXTENDS Naturals, Sequences, FiniteSets, SequencesExt

CONSTANTS
    Proc,        \* the processes
    MaxSession,  \* session ids are 1..MaxSession, in the order makeId draws them
    MaxSnap,     \* workspace checkpoint ids are 1..MaxSnap
    MaxRecord,   \* bound on the records of a session
    MaxPlan,     \* plan ids are 1..MaxPlan
    MaxText,     \* plan texts are 1..MaxText, in the order they are proposed
    MaxCall,     \* bound on the calls of a behaviour
    MaxFault,    \* bound on failing or killed calls
    RecentMax    \* length of recentSessions (50 in the code)

\* Bounds that are numbers, room for one recent session and for the legacy session
\* with its checkpoint, and processes that are not the mark of a free lock.
SessionConstants ==
    /\ RecentMax \in Nat \ {0} /\ MaxSession \in Nat \ {0} /\ MaxSnap \in Nat \ {0}
    /\ MaxPlan \in Nat
    /\ "free" \notin Proc

ASSUME SessionAssumption == SessionConstants

VARIABLES
    file,     \* session id -> the session file, NoSession when there is none
    ws,       \* the workspace's state.json
    index,    \* this workspace's active session in workspace-index.json, 0: none
    legacy,   \* .cliq/session.json of an older version: "none", a session with its
              \* "own" id, a "session" without an id or of messages, or "malformed"
    snap,     \* workspace checkpoint id -> its file
    plan,     \* plan id -> its plan.json, plan.md and progress.json
    lockS,    \* session id -> the process in its lock, or "free"
    lockW,    \* the process in the workspace-state lock, or "free"
    lockP,    \* plan id -> the process in the lock of its plan.json, or "free"
    mem,      \* process -> the Session object it holds
    call,     \* process -> the call in progress
    made,     \* ids drawn so far: sessions, snapshots, plan texts
    budget    \* calls and faults so far

vars == <<file, ws, index, legacy, snap, plan, lockS, lockW, lockP, mem, call, made, budget>>
plans == <<plan, lockP>>

NoSession == [id |-> 0, recs |-> 0, cps |-> <<>>, active |-> 0, approved |-> 0]
Idle == [pc |-> "idle"]
NoState == [active |-> 0, recent |-> <<>>, migrated |-> FALSE]
NoPlan == [session |-> 0, status |-> "none", text |-> 0, md |-> 0, progress |-> 0]

\* ---- helpers ---------------------------------------------------------------

createSession(id) == [NoSession EXCEPT !.id = id]

\* The messages of the old format become records, a seeded system prompt does not.
migrateLegacySession(id) == [createSession(id) EXCEPT !.recs = 1]

\* normalizeSession of a legacy file that has the format of a session and its own
\* id: the id, the records and the checkpoints are kept.
Own == [migrateLegacySession(1) EXCEPT !.cps = <<[at |-> 1, snap |-> 1]>>]

\* isSession and normalizeSession at the level of this module: a file is a
\* readable session or it is not there.
Readable(id) == id # 0 /\ file[id].id = id

\* The filter of recordWorkspaceSessionUnlocked: the entries differ, so one goes.
dropped(recent, id) ==
    IF id \in Range(recent)
    THEN RemoveAt(recent, CHOOSE i \in DOMAIN recent : recent[i] = id)
    ELSE recent

\* recordWorkspaceSessionUnlocked: the session comes first, its older entry goes.
recorded(state, id, migrated) ==
    [active   |-> id,
     recent   |-> LET r == <<id>> \o dropped(state.recent, id)
                  IN  SubSeq(r, 1, IF Len(r) < RecentMax THEN Len(r) ELSE RecentMax),
     migrated |-> state.migrated \/ migrated]

\* The mutators that createCheckpoint and the plan operations pass to mutateSession.
mutated(m, s) ==
    CASE m.op = "checkpoint" -> [s EXCEPT !.cps = Append(@, [at |-> s.recs, snap |-> m.snap])]
      [] m.op = "open"       -> [s EXCEPT !.active = m.plan, !.approved = 0]
      [] m.op = "approved"   -> [s EXCEPT !.approved = m.plan, !.active = IF @ = m.plan THEN 0 ELSE @]
      [] m.op = "declined"   -> [s EXCEPT !.approved = IF @ = m.plan THEN 0 ELSE @,
                                          !.active = IF @ = m.plan THEN 0 ELSE @]

\* readPlanArtifact: a draft is read from plan.md, a reviewed plan from plan.json.
readText(a) == IF a.status = "draft" /\ a.md # 0 THEN a.md ELSE a.text

\* The lock state after process p has left every lock it holds.
Left(p) ==
    /\ lockS' = [s \in DOMAIN lockS |-> IF lockS[s] = p THEN "free" ELSE lockS[s]]
    /\ lockW' = IF lockW = p THEN "free" ELSE lockW
    /\ lockP' = [i \in DOMAIN lockP |-> IF lockP[i] = p THEN "free" ELSE lockP[i]]

Start(p) == call[p].pc = "idle" /\ budget.calls < MaxCall
Begun == budget' = [budget EXCEPT !.calls = @ + 1]
At(p, pc) == call[p].pc = pc
Goto(p, r) == call' = [call EXCEPT ![p] = r]
Step(p, pc) == call' = [call EXCEPT ![p].pc = pc]

Init ==
    /\ file = [s \in 1..MaxSession |-> NoSession]
    /\ ws = NoState
    /\ index = 0
    /\ legacy \in {"none", "own", "session", "malformed"}
    /\ snap = [w \in 1..MaxSnap |-> IF legacy = "own" /\ w = 1 THEN "available" ELSE "none"]
    /\ plan = [i \in 1..MaxPlan |-> NoPlan]
    /\ lockS = [s \in 1..MaxSession |-> "free"]
    /\ lockW = "free"
    /\ lockP = [i \in 1..MaxPlan |-> "free"]
    /\ mem = [p \in Proc |-> NoSession]
    /\ call = [p \in Proc |-> Idle]
    /\ LET drawn == IF legacy = "own" THEN 1 ELSE 0
       IN  made = [session |-> drawn, snap |-> drawn, plan |-> 0, text |-> 0]
    /\ budget = [calls |-> 0, faults |-> 0]

\* ---- ensureSession ---------------------------------------------------------

\* Under the workspace-state lock: the active session if its file is readable,
\* else the legacy session (a malformed one is set aside first) or a new one.
\* A legacy file in session format keeps its own id; one of messages, or without an
\* id, is given a new one at every attempt.  Taking the lock and reading are one
\* step: nobody writes state.json meanwhile.
ensureSession(p) ==
    /\ Start(p) /\ lockW = "free"
    /\ IF Readable(ws.active)
       THEN mem' = [mem EXCEPT ![p] = file[ws.active]] /\ UNCHANGED <<call, lockW, legacy, made>>
       ELSE /\ legacy # "own" => made.session < MaxSession
            /\ made' = IF legacy = "own" THEN made ELSE [made EXCEPT !.session = @ + 1]
            /\ lockW' = p
            /\ legacy' = IF legacy = "malformed" THEN "none" ELSE legacy
            /\ Goto(p, [pc |-> "write", lock |-> "w", migrated |-> legacy \in {"own", "session"},
                        then |-> "idle", mutator |-> [op |-> "none"], state |-> NoState,
                        draft |-> CASE legacy = "own"     -> Own
                                    [] legacy = "session" -> migrateLegacySession(made'.session)
                                    [] OTHER              -> createSession(made'.session)])
            /\ UNCHANGED mem
    /\ Begun
    /\ UNCHANGED <<file, ws, index, snap, plans, lockS>>

\* ---- saveSession and mutateSession -----------------------------------------

\* A call of saveSession(draft), or of mutateSession with the given mutator.
Saving(draft, mutator, then) ==
    [pc |-> "lock", lock |-> "s", migrated |-> FALSE, then |-> then,
     mutator |-> mutator, draft |-> draft, state |-> NoState]

\* Mutant: the workspace state is recorded before the session file is written.
SaveLock_RecordFirst(p) ==
    /\ At(p, "lock") /\ lockS[call[p].draft.id] = "free"
    /\ lockS' = [lockS EXCEPT ![call[p].draft.id] = p]
    /\ Step(p, "lockState")
    /\ UNCHANGED <<file, ws, index, legacy, snap, plans, lockW, mem, made, budget>>

SaveLock(p) ==
    /\ At(p, "lock") /\ lockS[call[p].draft.id] = "free"
    /\ lockS' = [lockS EXCEPT ![call[p].draft.id] = p]
    /\ Step(p, IF call[p].mutator.op = "none" THEN "write" ELSE "read")
    /\ UNCHANGED <<file, ws, index, legacy, snap, plans, lockW, mem, made, budget>>

\* readSessionForMutation and the mutator: what is on disk, the caller's object
\* only when the file is not a session of this id.
readSessionForMutation(p) ==
    /\ At(p, "read")
    /\ LET s == call[p].draft
           current == IF Readable(s.id) THEN file[s.id] ELSE s
       IN  Goto(p, [call[p] EXCEPT !.pc = "write",
                                   !.draft = mutated(call[p].mutator, current)])
    /\ UNCHANGED <<file, ws, index, legacy, snap, plans, lockS, lockW, mem, made, budget>>

\* The session file; recordWorkspaceSession then needs the workspace-state lock.
WriteSession(p) ==
    /\ At(p, "write")
    /\ file' = [file EXCEPT ![call[p].draft.id] = call[p].draft]
    /\ Step(p, IF call[p].lock = "w" THEN "readState" ELSE "lockState")
    /\ UNCHANGED <<ws, index, legacy, snap, plans, lockS, lockW, mem, made, budget>>

\* Mutant: state.json is read and written without its lock.
LockState_NoLock(p) ==
    /\ At(p, "lockState") /\ Step(p, "readState")
    /\ UNCHANGED <<file, ws, index, legacy, snap, plans, lockS, lockW, mem, made, budget>>

LockState(p) ==
    /\ At(p, "lockState") /\ lockW = "free"
    /\ lockW' = p /\ Step(p, "readState")
    /\ UNCHANGED <<file, ws, index, legacy, snap, plans, lockS, mem, made, budget>>

ReadState(p) ==
    /\ At(p, "readState")
    /\ Goto(p, [call[p] EXCEPT !.pc = "writeState",
                               !.state = recorded(ws, call[p].draft.id, call[p].migrated)])
    /\ UNCHANGED <<file, ws, index, legacy, snap, plans, lockS, lockW, mem, made, budget>>

WriteState(p) ==
    /\ At(p, "writeState")
    /\ ws' = call[p].state
    /\ Step(p, "writeIndex")
    /\ UNCHANGED <<file, index, legacy, snap, plans, lockS, lockW, mem, made, budget>>

\* The index; the global state.json after it carries the time of the save and no
\* state of this module.  The locks are left and the caller's object is the saved
\* session (replaceSessionContents).
WriteIndex(p) ==
    /\ At(p, "writeIndex")
    /\ index' = call[p].draft.id
    /\ mem' = [mem EXCEPT ![p] = call[p].draft]
    /\ Left(p)
    /\ Goto(p, CASE call[p].then = "idle"    -> Idle
                 [] call[p].then = "restore" ->
                      [pc |-> "restore", of |-> call[p].mutator.of, safety |-> call[p].mutator.snap])
    /\ UNCHANGED <<file, ws, legacy, snap, plan, made, budget>>

\* ---- the callers of saveSession --------------------------------------------

\* appendRecord: the record is in memory before the save and stays there when it fails.
appendRecord(p) ==
    /\ Start(p) /\ mem[p].id # 0 /\ mem[p].recs < MaxRecord
    /\ mem' = [mem EXCEPT ![p].recs = @ + 1]
    /\ Goto(p, Saving(mem'[p], [op |-> "none"], "idle")) /\ Begun
    /\ UNCHANGED <<file, ws, index, legacy, snap, plans, lockS, lockW, made>>

ensureFresh(p) ==
    /\ Start(p) /\ made.session < MaxSession
    /\ made' = [made EXCEPT !.session = @ + 1]
    /\ Goto(p, Saving(createSession(made'.session), [op |-> "none"], "idle")) /\ Begun
    /\ UNCHANGED <<file, ws, index, legacy, snap, plans, lockS, lockW, mem>>

\* The child gets the records before the checkpoint and the checkpoints up to it.
forked(parent, id, k) ==
    [createSession(id) EXCEPT !.recs = parent.cps[k].at, !.cps = SubSeq(parent.cps, 1, k)]

forkSessionFromCheckpoint(p) ==
    /\ Start(p) /\ made.session < MaxSession
    /\ \E k \in DOMAIN mem[p].cps :
          /\ mem[p].cps[k].at <= mem[p].recs
          /\ made' = [made EXCEPT !.session = @ + 1]
          /\ Goto(p, Saving(forked(mem[p], made'.session, k), [op |-> "none"], "idle"))
    /\ Begun
    /\ UNCHANGED <<file, ws, index, legacy, snap, plans, lockS, lockW, mem>>

\* loadActiveSession and loadSessionById take no lock.
loadSession(p) ==
    /\ Start(p)
    /\ \E id \in {ws.active} \cup Range(ws.recent) :
          Readable(id) /\ mem[p] # file[id] /\ mem' = [mem EXCEPT ![p] = file[id]]
    /\ Begun
    /\ UNCHANGED <<file, ws, index, legacy, snap, plans, lockS, lockW, call, made>>
\* ---- checkpoints -----------------------------------------------------------

\* createGitGhostCheckpoint: a commit of the scope's files, or the reason there is none.
ghost == {"available", "unavailable"}

\* createWorkspaceCheckpoint and writeWorkspaceCheckpoint: a ghost commit, or
\* the note that there is none.  The session is changed after the file exists.
createCheckpoint(p) ==
    /\ Start(p) /\ mem[p].id # 0 /\ made.snap < MaxSnap
    /\ made' = [made EXCEPT !.snap = @ + 1]
    /\ \E status \in ghost : snap' = [snap EXCEPT ![made'.snap] = status]
    /\ Goto(p, Saving(mem[p], [op |-> "checkpoint", snap |-> made'.snap], "idle")) /\ Begun
    /\ UNCHANGED <<file, ws, index, legacy, plans, lockS, lockW, mem>>

\* git's garbage collection drops a ghost commit, which no ref keeps.
GitCollects ==
    /\ \E w \in DOMAIN snap : snap[w] = "available" /\ snap' = [snap EXCEPT ![w] = "collected"]
    /\ UNCHANGED <<file, ws, index, legacy, plans, lockS, lockW, mem, call, made, budget>>

\* resolveRestorableWorkspaceCheckpoint: a commit that is gone marks the file expired.
resolved(w) ==
    snap' = IF snap[w] = "collected" THEN [snap EXCEPT ![w] = "expired"] ELSE snap

\* prepareWorkspaceRestore: the checkpoint can be restored, then the safety checkpoint.
prepareWorkspaceRestore(p) ==
    /\ Start(p)
    /\ \E k \in DOMAIN mem[p].cps : LET w == mem[p].cps[k].snap IN
          IF snap[w] = "available"
          THEN /\ made.snap < MaxSnap
               /\ made' = [made EXCEPT !.snap = @ + 1]
               /\ \E status \in ghost : snap' = [snap EXCEPT ![made'.snap] = status]
               /\ Goto(p, Saving(mem[p], [op |-> "checkpoint", snap |-> made'.snap, of |-> w], "restore"))
          ELSE resolved(w) /\ UNCHANGED <<made, call>>
    /\ Begun
    /\ UNCHANGED <<file, ws, index, legacy, plans, lockS, lockW, mem>>

\* restoreWorkspaceCheckpoint resolves the checkpoint again before git restore.
restoreWorkspaceCheckpoint(p) ==
    /\ At(p, "restore")
    /\ resolved(call[p].of)
    /\ Goto(p, IF snap[call[p].of] = "available" THEN [call[p] EXCEPT !.pc = "restored"] ELSE Idle)
    /\ UNCHANGED <<file, ws, index, legacy, plans, lockS, lockW, mem, made, budget>>

\* The files are the checkpoint's; the command ends.
Restored(p) ==
    /\ At(p, "restored")
    /\ Goto(p, Idle)
    /\ UNCHANGED <<file, ws, index, legacy, snap, plans, lockS, lockW, mem, made, budget>>

\* ---- plans -----------------------------------------------------------------

\* writePlanArtifact(next), then the session with the given mutator.
Writing(next, i, op) == [pc |-> "planLock", next |-> next, plan |-> i, op |-> op]

createDraftPlan(p) ==
    /\ Start(p) /\ mem[p].id # 0 /\ made.plan < MaxPlan /\ made.text < MaxText
    /\ made' = [made EXCEPT !.plan = @ + 1, !.text = @ + 1]
    /\ Goto(p, Writing([NoPlan EXCEPT !.session = mem[p].id, !.status = "draft", !.text = made'.text],
                       made'.plan, "open"))
    /\ Begun
    /\ UNCHANGED <<file, ws, index, legacy, snap, plans, lockS, lockW, mem>>

\* The plan the caller's session object names as active.
activePlan(p) == mem[p].active
Known(p, i) == i # 0 /\ plan[i].status # "none" /\ plan[i].session = mem[p].id

updatePlan(p) ==
    /\ Start(p) /\ Known(p, activePlan(p)) /\ made.text < MaxText
    /\ plan[activePlan(p)].status \in {"draft", "finalized"}
    /\ made' = [made EXCEPT !.text = @ + 1]
    /\ Goto(p, Writing([plan[activePlan(p)] EXCEPT !.status = "draft", !.text = made'.text],
                       activePlan(p), "open"))
    /\ Begun
    /\ UNCHANGED <<file, ws, index, legacy, snap, plans, lockS, lockW, mem>>

finalizePlan(p) ==
    /\ Start(p) /\ Known(p, activePlan(p))
    /\ plan[activePlan(p)].status \in {"draft", "finalized"}
    /\ Goto(p, Writing([plan[activePlan(p)] EXCEPT !.status = "finalized",
                                                   !.text = readText(plan[activePlan(p)])],
                       activePlan(p), "open"))
    /\ Begun
    /\ UNCHANGED <<file, ws, index, legacy, snap, plans, lockS, lockW, mem, made>>

\* approvePlan: progress.json is seeded from the finalized plan, which
\* markReviewedPlan then reads again.
approvePlan(p) ==
    /\ Start(p)
    /\ \E i \in DOMAIN plan :
          /\ Known(p, i) /\ plan[i].status = "finalized"
          /\ Goto(p, [pc |-> "seed", plan |-> i, text |-> plan[i].text, then |-> "review"])
    /\ Begun
    /\ UNCHANGED <<file, ws, index, legacy, snap, plans, lockS, lockW, mem, made>>

seedPlanProgress(p) ==
    /\ At(p, "seed")
    /\ plan' = [plan EXCEPT ![call[p].plan].progress = call[p].text]
    /\ IF call[p].then = "review" THEN Step(p, "review") ELSE Goto(p, Idle)
    /\ UNCHANGED <<file, ws, index, legacy, snap, lockP, lockS, lockW, mem, made, budget>>

\* markReviewedPlan of approvePlan; the plan must still be finalized.
markApproved(p) ==
    /\ At(p, "review")
    /\ Goto(p, IF plan[call[p].plan].status = "finalized"
               THEN Writing([plan[call[p].plan] EXCEPT !.status = "approved"], call[p].plan, "approved")
               ELSE Idle)
    /\ UNCHANGED <<file, ws, index, legacy, snap, plans, lockS, lockW, mem, made, budget>>

\* rejectPlan and cancelPlan
markDeclined(p) ==
    /\ Start(p)
    /\ \E i \in DOMAIN plan, status \in {"rejected", "canceled"} :
          /\ Known(p, i) /\ plan[i].status = "finalized"
          /\ Goto(p, Writing([plan[i] EXCEPT !.status = status], i, "declined"))
    /\ Begun
    /\ UNCHANGED <<file, ws, index, legacy, snap, plans, lockS, lockW, mem, made>>

\* updatePlanProgress reads progress.json and writes it back with new items.
\* Its branch that seeds a missing file is never taken (ApprovedIsSeeded).
updatePlanProgress(p) ==
    /\ Start(p) /\ Known(p, mem[p].approved)
    /\ plan[mem[p].approved].progress # 0
    /\ Goto(p, [pc |-> "seed", plan |-> mem[p].approved, text |-> plan[mem[p].approved].progress,
                then |-> "idle"])
    /\ Begun
    /\ UNCHANGED <<file, ws, index, legacy, snap, plans, lockS, lockW, mem, made>>

\* writePlanArtifact: plan.json and then plan.md, under the lock of plan.json.
WritePlanJson(p) ==
    /\ At(p, "planLock") /\ lockP[call[p].plan] = "free"
    /\ lockP' = [lockP EXCEPT ![call[p].plan] = p]
    /\ plan' = [plan EXCEPT ![call[p].plan] =
                   [call[p].next EXCEPT !.md = plan[call[p].plan].md, !.progress = plan[call[p].plan].progress]]
    /\ Step(p, "planMd")
    /\ UNCHANGED <<file, ws, index, legacy, snap, lockS, lockW, mem, made, budget>>

WritePlanMd(p) ==
    /\ At(p, "planMd")
    /\ plan' = [plan EXCEPT ![call[p].plan].md = call[p].next.text]
    /\ lockP' = [lockP EXCEPT ![call[p].plan] = "free"]
    /\ Goto(p, Saving(mem[p], [op |-> call[p].op, plan |-> call[p].plan], "idle"))
    /\ UNCHANGED <<file, ws, index, legacy, snap, lockS, lockW, mem, made, budget>>

\* ---- faults ----------------------------------------------------------------

\* A write throws: the call ends with an error and leaves its locks.
CallFails(p) ==
    /\ call[p].pc # "idle" /\ budget.faults < MaxFault
    /\ Goto(p, Idle) /\ Left(p)
    /\ budget' = [budget EXCEPT !.faults = @ + 1]
    /\ UNCHANGED <<file, ws, index, legacy, snap, plan, mem, made>>

\* The process is killed; its lock files are taken over by the next caller
\* (module PathLock).
Crash(p) ==
    /\ budget.faults < MaxFault
    /\ call[p].pc # "idle" \/ mem[p].id # 0
    /\ Goto(p, Idle) /\ Left(p)
    /\ mem' = [mem EXCEPT ![p] = NoSession]
    /\ budget' = [budget EXCEPT !.faults = @ + 1]
    /\ UNCHANGED <<file, ws, index, legacy, snap, plan, made>>

Quiet == (\A p \in Proc : call[p] = Idle) /\ UNCHANGED vars

Work(p) ==
    \/ SaveLock(p) \/ readSessionForMutation(p) \/ WriteSession(p)
    \/ LockState(p) \/ ReadState(p) \/ WriteState(p) \/ WriteIndex(p)
    \/ restoreWorkspaceCheckpoint(p) \/ Restored(p)
    \/ seedPlanProgress(p) \/ markApproved(p) \/ WritePlanJson(p) \/ WritePlanMd(p)

Next ==
    \/ \E p \in Proc :
          \/ ensureSession(p) \/ appendRecord(p) \/ ensureFresh(p) \/ loadSession(p)
          \/ forkSessionFromCheckpoint(p) \/ createCheckpoint(p) \/ prepareWorkspaceRestore(p)
          \/ createDraftPlan(p) \/ updatePlan(p) \/ finalizePlan(p) \/ approvePlan(p)
          \/ markDeclined(p) \/ updatePlanProgress(p)
          \/ Work(p) \/ CallFails(p) \/ Crash(p)
    \/ GitCollects
    \/ Quiet

Spec == Init /\ [][Next]_vars

\* ---- properties ------------------------------------------------------------

\* saveSession writes the session file before the workspace state and the index
\* that name it, so whatever call fails or is killed in between, ensureSession
\* and loadSessionById never find a name without its file.
NamedIsWritten ==
    /\ \A s \in {ws.active, index} \cup Range(ws.recent) : s # 0 => file[s].id = s
    /\ ws.active # 0 => ws.recent[1] = ws.active

\* A checkpoint in any session file, a fork's included, names a workspace
\* checkpoint whose file exists, and a record index the session really has:
\* forkSessionFromCheckpoint and checkpoint restore never meet a dangling one.
CheckpointsResolve ==
    \A s \in 1..MaxSession : \A k \in DOMAIN file[s].cps :
        /\ snap[file[s].cps[k].snap] # "none"
        /\ file[s].cps[k].at <= file[s].recs

\* recordWorkspaceSession reads state.json, adds its session and writes it
\* back: no interleaving of two processes may drop a session from the recent
\* ones while there is room, or loadSessionById loses it.
SessionsAreKept ==
    (\A s \in Range(ws.recent) : s \in Range(ws'.recent) \/ Len(ws.recent) = RecentMax)

\* mutateSession works on the file as it is under the lock: a checkpoint
\* another process added since the caller loaded the session survives it.
MutationKeeps ==
    (\A p \in Proc, s \in 1..MaxSession :
         file'[s] # file[s] /\ At(p, "write") /\ ~At(p, "write")' /\ call[p].mutator.op # "none"
         => \A k \in DOMAIN file[s].cps : file[s].cps[k] \in Range(file'[s].cps))

\* approvePlan seeds progress.json before plan.json says approved, and that
\* before the session's approvedPlanId: a session that works on an approved
\* plan has its progress file, whichever calls raced or died.
ApprovedIsSeeded ==
    \A s \in 1..MaxSession : file[s].approved # 0 =>
        /\ plan[file[s].approved].progress # 0
        /\ plan[file[s].approved].session = s

\* Files are restored only when a safety checkpoint of the same command has
\* been written and the session file has carried it.
RestoreIsGuarded ==
    (\A p \in Proc : At(p, "restored")' /\ ~At(p, "restored") =>
          snap[call[p].safety] # "none" /\ \E k \in DOMAIN mem[p].cps : mem[p].cps[k].snap = call[p].safety)

\* Whatever call failed or was killed, the workspace state names only sessions that
\* are written, a checkpoint names a snapshot that exists, and the approved plan of
\* a session has its progress file.
FilesAgree == NamedIsWritten /\ CheckpointsResolve /\ ApprovedIsSeeded

\* No read-modify-write of state.json or of a session drops what another process
\* wrote since, and files are restored only after the safety checkpoint of the same
\* command was written and recorded in the session.
FilesAreKept == SessionsAreKept /\ MutationKeeps /\ RestoreIsGuarded
NothingIsDropped == [][FilesAreKept]_vars
=============================================================================
