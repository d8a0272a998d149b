------------------------------ MODULE Generation ------------------------------
(***************************************************************************)
(* The private workspace of a run (workspace/run-workspace/generation.ts)  *)
(* over the descriptors of its native tree                                 *)
(* (native/state-owner/generation-tree.c): the materialization of a frozen *)
(* checkpoint, the observations of the tree, the borrow that a worker runs *)
(* on, and the retirement that recovery relies on.                         *)
(*                                                                         *)
(* The tree is one directory with a file of two chunks in it and a link    *)
(* beside it; a worker may rewrite the file chunk by chunk and add a link  *)
(* that leads outside.  Names are only added and every write gives a chunk *)
(* a new version, so the names of a directory and the contents of a file   *)
(* stand for their time stamps.  JavaScript is interrupted only where it   *)
(* awaits; the worker is another process and writes at any time.           *)
(***************************************************************************)
EXTENDS Naturals, Sequences, FiniteSets

CONSTANTS
    MaxEdit,       \* writes of the worker
    MaxFault,      \* refused system calls
    MaxCrash       \* deaths of the process

Frozen == [names |-> {"d", "f", "l"}, file |-> <<1, 1>>]
InDir == {"f", "x"}                 \* the entries of directory d; the others are the root's
Names(frame, names) == IF frame = "d" THEN names \cap InDir ELSE names \ InDir

Tree == {"born", "again"}           \* the tree of the materialization, the one opened again
Op == {"fin", "obs", "ret"}         \* finish, an operation of the generation, reopen or recovery

VARIABLES
    disk,          \* the directory: whether it exists, its names, the chunks of the file
    tree,          \* the handles: none, open, closed
    bad,           \* a descriptor of this process could not be closed
    mat,           \* the owner of the materialization
    gen,           \* the tree of the minted generation, or none
    op,            \* the running operations, each with its snapshot cursor
    worker,        \* whether a worker runs on the tree
    known,         \* what recovery was told
    edits, faults, crashes
vars == <<disk, tree, bad, mat, gen, op, worker, known, edits, faults, crashes>>

NoCursor == [frames |-> <<>>, before |-> [root |-> {}, d |-> {}], seen |-> {}, file |-> <<>>, read |-> <<>>, quiet |-> TRUE]
Resting == [pc |-> "idle", kind |-> "none", tree |-> "born", at |-> 0, cur |-> NoCursor, res |-> "none"]
NoMat == [opening |-> "none", stopped |-> FALSE, closed |-> FALSE, waits |-> {}, closing |-> "none",
          requested |-> FALSE, joined |-> FALSE, failure |-> FALSE]

Init ==
    /\ disk = [made |-> FALSE, names |-> {}, file |-> <<>>]
    /\ tree = [t \in Tree |-> "none"]
    /\ bad = FALSE
    /\ mat = NoMat
    /\ gen = "none"
    /\ op = [o \in Op |-> Resting]
    /\ worker = FALSE
    /\ known = {}
    /\ edits = 0 /\ faults = 0 /\ crashes = 0

Fault == faults < MaxFault /\ faults' = faults + 1

-----------------------------------------------------------------------------
(* generation-tree.c *)

\* Every use of a handle starts here; one descriptor that could not be closed
\* refuses all of them.
tree_held(t) == tree[t] = "open" /\ ~bad

\* retire_generation_fd: a refused close is remembered for the whole lock.
Retire == \/ bad' = bad /\ UNCHANGED faults
          \/ Fault /\ bad' = TRUE

\* close_tree also closes the cursors and streams; whoever uses one finds its
\* tree closed.
close_tree(t) == tree' = [tree EXCEPT ![t] = IF @ = "open" THEN "closed" ELSE @]

\* Every frame the walk is in must be as it was when it was entered.
cursor_held(o) ==
    /\ tree_held(op[o].tree)
    /\ \A i \in 1..Len(op[o].cur.frames) :
          LET f == op[o].cur.frames[i] IN Names(f, disk.names) = op[o].cur.before[f]

\* The file being read must be as it was when it was opened.
stream_held(o) == cursor_held(o) /\ disk.file = op[o].cur.file

\* A tree is retired once no handle on the same directory is open.
assert_retired == ~bad /\ \A t \in Tree : tree[t] # "open"

-----------------------------------------------------------------------------
(* Operations *)

Running(o) == op[o].pc \in {"fill", "write", "walk", "read", "publish", "witness"}
Aborted(o) == op[o].tree = "born" /\ (mat.stopped \/ mat.closed)

\* What ends an operation: finish and the recovery close their tree, an operation
\* of the generation leaves it open.  A descriptor that does not close makes any
\* failure a failed retirement.
CloseOf(o, keep) == IF o = "obs" \/ keep THEN UNCHANGED tree ELSE close_tree(op[o].tree)
Settle(o, pc, res) == op' = [op EXCEPT ![o] = [Resting EXCEPT !.pc = pc, !.kind = op[o].kind,
                                                             !.tree = op[o].tree, !.res = res]]
Abandon(o) ==
    /\ Retire
    /\ Settle(o, "failed", IF bad' THEN "retirement" ELSE "none")
    /\ mat' = [mat EXCEPT !.failure = @ \/ (o = "obs" /\ op[o].tree = "born" /\ bad')]
    /\ CloseOf(o, FALSE)
    /\ UNCHANGED <<disk, gen, worker, known, edits, crashes>>

\* A stop or a handle that is gone ends an operation at its next step.
Refused(o) == Running(o) /\ (Aborted(o) \/ ~tree_held(op[o].tree)) /\ Abandon(o)
Proceeds(o, pc) == op[o].pc = pc /\ ~Aborted(o) /\ tree_held(op[o].tree)

\* An artifact that cannot be read or written.
Unreadable(o) ==
    /\ op[o].pc \in {"fill", "write", "publish", "witness"}
    /\ Fault /\ bad' = bad
    /\ Settle(o, "failed", "none")
    /\ CloseOf(o, FALSE)
    /\ UNCHANGED <<disk, mat, gen, worker, known, edits, crashes>>

\* openSnapshot: writers are closed by now.
Snapshot(d) == [NoCursor EXCEPT !.frames = <<"root">>, !.before["root"] = Names("root", d.names)]

\* populateGenerationTree: the directory, then the file through a writer, then the
\* link; nothing that exists is replaced.
populateGenerationTree ==
    LET o == "fin" IN
    /\ Proceeds(o, "fill")
    /\ \/ /\ op[o].at = 0
          /\ disk' = [disk EXCEPT !.names = @ \cup {"d"}]
          /\ op' = [op EXCEPT ![o].at = 1, !["ret"].cur.quiet = FALSE]
       \/ /\ op[o].at = 1
          /\ disk' = [disk EXCEPT !.names = @ \cup {"f"}]
          /\ op' = [op EXCEPT ![o].at = 2, ![o].pc = "write", !["ret"].cur.quiet = FALSE]
       \/ /\ op[o].at = 2
          /\ disk' = [disk EXCEPT !.names = @ \cup {"l"}]
          /\ op' = [op EXCEPT ![o].pc = "walk", ![o].cur = Snapshot(disk'), !["ret"].cur.quiet = FALSE]
    /\ UNCHANGED <<tree, bad, mat, gen, worker, known, edits, faults, crashes>>

\* writeChunk, and finish once the declared bytes are written.
stream_write ==
    LET o == "fin" IN
    /\ Proceeds(o, "write")
    /\ IF Len(disk.file) < Len(Frozen.file)
       THEN /\ disk' = [disk EXCEPT !.file = Append(@, Frozen.file[Len(@) + 1])]
            /\ op' = [op EXCEPT !["ret"].cur.quiet = FALSE]
       ELSE op' = [op EXCEPT ![o].pc = "fill"] /\ UNCHANGED disk
    /\ UNCHANGED <<tree, bad, mat, gen, worker, known, edits, faults, crashes>>

\* cursor_next: an entry of the current frame in any order, which enters a
\* directory and opens a file.
cursor_next(o, n) ==
    LET c == op[o].cur
        f == Head(c.frames) IN
    /\ Proceeds(o, "walk") /\ c.frames # <<>> /\ cursor_held(o)
    /\ n \in Names(f, disk.names) \ c.seen
    /\ op' = [op EXCEPT ![o].cur.seen = @ \cup {n},
                        ![o].pc = IF n = "f" THEN "read" ELSE @,
                        ![o].cur.file = IF n = "f" THEN disk.file ELSE @,
                        ![o].cur.frames = IF n = "d" THEN <<"d">> \o @ ELSE @,
                        ![o].cur.before["d"] = IF n = "d" THEN Names("d", disk.names) ELSE @]
    /\ UNCHANGED <<disk, tree, bad, mat, gen, worker, known, edits, faults, crashes>>

\* A directory that was read to its end is left once it is synced and unchanged.
LeaveFrame(o) ==
    LET c == op[o].cur
        f == Head(c.frames) IN
    /\ Proceeds(o, "walk") /\ c.frames # <<>> /\ cursor_held(o)
    /\ c.before[f] \subseteq c.seen
    /\ op' = [op EXCEPT ![o].cur.frames = Tail(@),
                        ![o].pc = IF Len(c.frames) = 1 THEN "publish" ELSE @]
    /\ UNCHANGED <<disk, tree, bad, mat, gen, worker, known, edits, faults, crashes>>

\* readChunk; the file is closed once all of it was read and it is still the same.
stream_read(o) ==
    LET c == op[o].cur IN
    /\ Proceeds(o, "read") /\ stream_held(o)
    /\ op' = IF Len(c.read) < Len(c.file)
             THEN [op EXCEPT ![o].cur.read = Append(@, disk.file[Len(@) + 1])]
             ELSE [op EXCEPT ![o].pc = "walk"]
    /\ UNCHANGED <<disk, tree, bad, mat, gen, worker, known, edits, faults, crashes>>

\* Anything that changed under the walk fails it.
Changed(o) ==
    /\ \/ Proceeds(o, "walk") /\ ~cursor_held(o)
       \/ Proceeds(o, "read") /\ ~stream_held(o)
    /\ Abandon(o)

\* observeTree has closed its cursor: entries that could leave the tree are
\* refused, and only a recovery makes a result of that.
Found(o) == [names |-> op[o].cur.seen, file |-> op[o].cur.read]
Invalid(o) == "x" \in op[o].cur.seen
InvalidObserved(o) == op[o].kind # "observeRetained" /\ Proceeds(o, "publish") /\ Invalid(o) /\ Abandon(o)

\* mintRunWorkspace: the first observation must be the frozen checkpoint.
Reproduces(seen) == seen = Frozen
mintRunWorkspace(o) ==
    /\ op[o].kind \in {"finish", "reopen"}
    /\ Proceeds(o, "publish") /\ ~Invalid(o)
    /\ IF Reproduces(Found(o))
       THEN gen' = op[o].tree /\ Settle(o, "done", "minted") /\ UNCHANGED <<disk, tree, bad, mat, worker, known, edits, faults, crashes>>
       ELSE Abandon(o)

\* generation.observe answers with what it found; publishMaterializedAuthority only
\* if that is the frozen checkpoint, after two more publications.
observe(o) ==
    /\ op[o].kind \in {"observe", "authority"}
    /\ Proceeds(o, "publish") /\ ~Invalid(o)
    /\ IF op[o].kind = "observe"
       THEN Settle(o, "done", "observed") /\ UNCHANGED <<tree, bad, mat, faults, disk, gen, worker, known, edits, crashes>>
       ELSE IF Reproduces(Found(o))
            THEN op' = [op EXCEPT ![o].pc = "witness"] /\ UNCHANGED <<tree, bad, mat, faults, disk, gen, worker, known, edits, crashes>>
            ELSE Abandon(o)
publishAuthority(o) ==
    /\ Proceeds(o, "witness")
    /\ Settle(o, "done", "authority")
   
    /\ UNCHANGED <<disk, tree, bad, mat, gen, worker, known, edits, faults, crashes>>

\* observeRetainedRunWorkspace closes its tree before the observation is returned.
observeRetainedRunWorkspace ==
    LET o == "ret" IN
    /\ op[o].kind = "observeRetained" /\ Proceeds(o, "publish")
    /\ Retire
    /\ close_tree(op[o].tree)
    /\ IF bad' THEN Settle(o, "failed", "retirement")
       ELSE Settle(o, "done", IF Invalid(o) THEN "unreadable_partial" ELSE "complete_tree")
    /\ UNCHANGED <<disk, mat, gen, worker, known, edits, crashes>>

\* What the caller starts: an operation of the generation, or the opening of the
\* directory a row names once its producer gave it up, or after a restart.
StartOperation(kind) ==
    /\ gen # "none" /\ ~Running("obs")
    /\ tree_held(gen) /\ ~(gen = "born" /\ (mat.stopped \/ mat.closed))
    /\ op' = [op EXCEPT !["obs"] =
          [Resting EXCEPT !.pc = "walk", !.kind = kind, !.tree = gen, !.cur = Snapshot(disk)]]
    /\ UNCHANGED <<disk, tree, bad, mat, gen, worker, known, edits, faults, crashes>>
openGenerationTree(kind) ==
    /\ "bound" \in known /\ disk.made /\ ~bad /\ op["ret"].pc = "idle"
    /\ tree["born"] # "open" /\ (kind = "reopen" => gen = "none")
    /\ tree' = [tree EXCEPT !["again"] = "open"]
    /\ op' = [op EXCEPT !["ret"] =
          [Resting EXCEPT !.pc = "walk", !.kind = kind, !.tree = "again", !.cur = Snapshot(disk)]]
    /\ UNCHANGED <<disk, bad, mat, gen, worker, known, edits, faults, crashes>>

-----------------------------------------------------------------------------
(* createRunWorkspaceMaterialization *)

birth ==
    /\ mat.opening = "none" /\ ~mat.closed /\ crashes = 0
    /\ mat' = [mat EXCEPT !.opening = "reading"]
    /\ UNCHANGED <<disk, tree, bad, gen, op, worker, known, edits, faults, crashes>>

\* readFrozenWorkspace ends, unless a stop or a read ends the birth.
FrozenFails ==
    /\ mat.opening = "reading"
    /\ \/ (mat.stopped \/ mat.closed) /\ UNCHANGED faults
       \/ Fault
    /\ mat' = [mat EXCEPT !.opening = "failed"]
    /\ UNCHANGED <<disk, tree, bad, gen, op, worker, known, edits, crashes>>

\* The request is remembered before the directory is made: a creation that failed
\* half way has not returned a birth, and may have made it.  No stop is looked at
\* once the directory exists.
\* Mutant: the request is remembered once the directory was made.
Requested_Late(made) == made
Requested(made) == TRUE
createGenerationTree ==
    /\ mat.opening = "reading" /\ ~mat.stopped /\ ~mat.closed
    /\ \/ /\ disk' = [disk EXCEPT !.made = TRUE]
          /\ tree' = [tree EXCEPT !["born"] = "open"]
          /\ mat' = [mat EXCEPT !.opening = "born", !.requested = Requested(TRUE)]
          /\ UNCHANGED faults
       \/ /\ Fault
          /\ \E m \in BOOLEAN : disk' = [disk EXCEPT !.made = m]
          /\ mat' = [mat EXCEPT !.opening = "failed", !.requested = Requested(FALSE)]
          /\ UNCHANGED tree
    /\ UNCHANGED <<bad, gen, op, worker, known, edits, crashes>>

\* publishRunWorkspaceBirthIdentity reads the birth before and after it publishes.
publishRunWorkspaceBirthIdentity ==
    /\ mat.opening = "born" /\ tree_held("born") /\ "bound" \notin known
    /\ known' = known \cup {"bound"}
    /\ UNCHANGED <<disk, tree, bad, mat, gen, op, worker, edits, faults, crashes>>

finish ==
    /\ ~mat.closed /\ mat.opening = "born" /\ op["fin"].pc = "idle"
    /\ op' = [op EXCEPT !["fin"] = [Resting EXCEPT !.pc = "fill", !.kind = "finish"]]
    /\ UNCHANGED <<disk, tree, bad, mat, gen, worker, known, edits, faults, crashes>>

\* The signal of the caller.
Stop ==
    /\ ~mat.stopped /\ mat.opening # "none"
    /\ mat' = [mat EXCEPT !.stopped = TRUE]
    /\ UNCHANGED <<disk, tree, bad, gen, op, worker, known, edits, faults, crashes>>

\* close stops everything at once and then waits for what runs at that moment.
Pending == {o \in {"fin", "obs"} : Running(o) /\ op[o].tree = "born"}
close ==
    /\ ~mat.closed /\ crashes = 0
    /\ mat' = [mat EXCEPT !.closed = TRUE, !.closing = "waiting", !.waits = Pending]
    /\ UNCHANGED <<disk, tree, bad, gen, op, worker, known, edits, faults, crashes>>

\* It joins unless something it waited for, or its own close, kept a descriptor.
closeJoins ==
    /\ mat.closing = "waiting" /\ mat.opening # "reading"
    /\ \A o \in mat.waits : ~Running(o)
    /\ IF tree["born"] = "open" THEN Retire ELSE UNCHANGED <<bad, faults>>
    /\ close_tree("born")
    /\ LET failed == \/ bad' /\ tree["born"] # "none"
                     \/ op["fin"].res = "retirement" \/ mat.failure
       IN mat' = [mat EXCEPT !.closing = IF failed THEN "failed" ELSE "done", !.joined = ~failed]
    /\ UNCHANGED <<disk, gen, op, worker, known, edits, crashes>>

\* generation.close takes the tree away from whatever runs on it.
generationClose ==
    /\ gen # "none" /\ tree[gen] = "open"
    /\ Retire
    /\ close_tree(gen)
    /\ UNCHANGED <<disk, mat, gen, op, worker, known, edits, crashes>>

-----------------------------------------------------------------------------
(* What recovery may rely on *)

readUnallocatedRunWorkspaceRetirement ==
    /\ mat.closed /\ mat.joined /\ ~mat.requested /\ tree["born"] = "none" /\ "unallocated" \notin known
    /\ known' = known \cup {"unallocated"}
    /\ UNCHANGED <<disk, tree, bad, mat, gen, op, worker, edits, faults, crashes>>

readRunWorkspaceBirthRetirement ==
    /\ mat.opening = "born" /\ mat.joined /\ ~mat.failure /\ "retired" \notin known
    /\ ~(Running("obs") /\ op["obs"].tree = "born")
    /\ assert_retired
    /\ known' = known \cup {"retired"}
    /\ UNCHANGED <<disk, tree, bad, mat, gen, op, worker, edits, faults, crashes>>

readRetainedWorkspaceRetirement ==
    /\ op["ret"].res \in {"unreadable_partial", "complete_tree"} /\ "gone" \notin known
    /\ assert_retired
    /\ known' = known \cup {"gone"}
    /\ UNCHANGED <<disk, tree, bad, mat, gen, op, worker, edits, faults, crashes>>

-----------------------------------------------------------------------------
(* The worker and the machine *)

borrowRunWorkspaceForExecution ==
    /\ gen # "none" /\ ~worker
    /\ tree_held(gen) /\ ~(gen = "born" /\ (mat.stopped \/ mat.closed))
    /\ worker' = TRUE
    /\ UNCHANGED <<disk, tree, bad, mat, gen, op, known, edits, faults, crashes>>

\* The worker does not end with the descriptor it was given.
Disturb == op' = [o \in Op |-> [op[o] EXCEPT !.cur.quiet = FALSE]]
WorkerWrites ==
    /\ worker /\ edits < MaxEdit
    /\ edits' = edits + 1
    /\ \/ \E i \in 1..2 : disk' = [disk EXCEPT !.file[i] = edits + 2]
       \/ "x" \notin disk.names /\ disk' = [disk EXCEPT !.names = @ \cup {"x"}]
    /\ Disturb
    /\ UNCHANGED <<tree, bad, mat, gen, worker, known, faults, crashes>>
WorkerEnds ==
    /\ worker /\ worker' = FALSE
    /\ UNCHANGED <<disk, tree, bad, mat, gen, op, known, edits, faults, crashes>>

\* The process dies: the directory and the row stay.
Crash ==
    /\ crashes < MaxCrash /\ crashes' = crashes + 1
    /\ tree' = [t \in Tree |-> "none"] /\ bad' = FALSE
    /\ mat' = NoMat /\ gen' = "none" /\ op' = [o \in Op |-> Resting]
    /\ known' = known \cap {"bound"}
    /\ UNCHANGED <<disk, worker, edits, faults>>

Next ==
    \/ birth \/ FrozenFails \/ createGenerationTree \/ publishRunWorkspaceBirthIdentity
    \/ finish \/ Stop \/ close \/ closeJoins \/ generationClose
    \/ populateGenerationTree \/ stream_write
    \/ \E o \in Op :
          \/ Refused(o) \/ Unreadable(o) \/ LeaveFrame(o) \/ stream_read(o) \/ Changed(o)
          \/ InvalidObserved(o) \/ mintRunWorkspace(o) \/ observe(o) \/ publishAuthority(o)
          \/ \E n \in {"d", "f", "l", "x"} : cursor_next(o, n)
    \/ observeRetainedRunWorkspace
    \/ \E k \in {"observe", "authority"} : StartOperation(k)
    \/ \E k \in {"reopen", "observeRetained"} : openGenerationTree(k)
    \/ readUnallocatedRunWorkspaceRetirement \/ readRunWorkspaceBirthRetirement \/ readRetainedWorkspaceRetirement
    \/ borrowRunWorkspaceForExecution \/ WorkerWrites \/ WorkerEnds \/ Crash

Spec == Init /\ [][Next]_vars

-----------------------------------------------------------------------------
(* Properties *)

\* A recovery that is told the producer never allocated finds no directory, however
\* the creation and the close interleaved (readUnallocatedRunWorkspaceRetirement).
UnallocatedIsAbsent == "unallocated" \in known => ~disk.made

\* A recovery that is told the resources are retired finds no handle of this process
\* on the directory and nothing that still walks it.
RetirementIsComplete ==
    known' \cap {"retired", "gone"} # known \cap {"retired", "gone"} /\ crashes' = crashes
        => ~bad /\ (\A t \in Tree : tree[t] # "open") /\ \A o \in Op : ~(Running(o) /\ tree_held(op[o].tree))

\* No observation holds a torn file: what was read is what the file is when the walk
\* leaves it.
FilesAreWhole ==
    \A o \in Op : op[o].pc = "read" /\ op'[o].pc = "walk" => op[o].cur.read = disk.file

\* A walk that a worker did not disturb found the tree, and every walk found the
\* names of the root as they are when it ends.
WalkIsCurrent ==
    \A o \in Op : op[o].pc = "walk" /\ op'[o].pc = "publish" =>
          /\ Names("root", op[o].cur.seen) = Names("root", disk.names)
          /\ op[o].cur.quiet => Found(o) = [names |-> disk.names, file |-> disk.file]

\* A generation is minted only over a directory that is the whole frozen checkpoint,
\* also when an earlier process died while it filled it.
MintedIsFrozen == gen # "none" /\ edits = 0 => disk.names = Frozen.names /\ disk.file = Frozen.file

\* A stop never takes the handle of a birth away before its owner could bind it.
BirthIsBindable ==
    mat.opening = "born" /\ op["fin"].pc = "idle" /\ mat.closing \in {"none", "waiting"} => tree["born"] = "open"
==============================================================================
