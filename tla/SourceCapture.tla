---------------------------- MODULE SourceCapture ----------------------------
(***************************************************************************)
(* The capture of a source workspace (workspace/source-projection.ts,      *)
(* source-capture.ts) through the held entries of the native walk          *)
(* (native/state-owner/source-walk.c, source-root.c), while somebody edits *)
(* the source.                                                             *)
(*                                                                         *)
(* A first walk classifies every entry by its metadata, a second opens     *)
(* what was selected, and both keep every directory and entry they passed  *)
(* open and look at each again, one after the other, before the capture    *)
(* counts.  The editor is another process: it may act between any two      *)
(* looks.  Every change of a file or directory gives it a new stamp, which *)
(* stands for its times and sizes and, for a file, for its bytes.          *)
(***************************************************************************)
EXTENDS Naturals, Sequences, FiniteSets, TLC

CONSTANTS
    MaxEdit,       \* changes the editor makes
    MaxEntries     \* the inventory limit

Root == "R"
Dirs == {"R", "A", "H"}             \* H is the controlled home, inside the workspace
Excluded == {<<"e">>}
NewIno(d) == IF d = "R" THEN "N" ELSE "M"

VARIABLES
    kids,          \* the names in each directory
    stamp,         \* when each file or directory changed last
    link,          \* which new entries are links into the controlled home
    edits,
    walk,          \* the running walk
    inv,           \* what the inventory keeps open, and its selection
    cap,           \* what the capture keeps open, and its entries
    todo,          \* what the running look has still to check
    mark           \* the source when the capture began to look again
vars == <<kids, stamp, link, edits, walk, inv, cap, todo, mark>>

NoReader == [entry |-> {}, step |-> 0, got |-> <<>>]
Nothing == [cursors |-> {}, held |-> {}]
Init ==
    /\ kids = [R |-> [a |-> "A", g |-> "G", e |-> "E", h |-> "H"], A |-> [f |-> "F"], H |-> [s |-> "S"]]
    /\ stamp = [i \in {"R", "A", "H", "F", "G", "E", "S", "N", "M"} |-> 0]
    /\ link = {}
    /\ edits = 0
    /\ walk = [pc |-> "start", stack |-> <<>>, count |-> 0, read |-> NoReader]
    /\ inv = Nothing @@ [selected |-> {}, hard |-> {<<"h">>}]
    /\ cap = Nothing @@ [entries |-> {}]
    /\ todo = {}
    /\ mark = <<>>

-----------------------------------------------------------------------------
(* The editor *)

Edited == edits < MaxEdit /\ edits' = edits + 1
Touch(S) == stamp' = [i \in DOMAIN stamp |-> IF i \in S THEN edits + 1 ELSE stamp[i]]
Editor ==
    /\ Edited
    /\ \/ \E i \in {"F", "G", "E", "S"} : Touch({i}) /\ UNCHANGED <<kids, link>>
       \/ \E d \in {"R", "A"} :
             /\ "n" \notin DOMAIN kids[d]
             /\ kids' = [kids EXCEPT ![d] = @ @@ ("n" :> NewIno(d))]
             /\ \E l \in {{}, {NewIno(d)}} : link' = link \cup l
             /\ Touch({d, NewIno(d)})
       \/ \E d \in {"R", "A"}, n \in {"g", "f"} :
             /\ n \in DOMAIN kids[d]
             /\ kids' = [kids EXCEPT ![d] = [m \in DOMAIN @ \ {n} |-> @[m]]]
             /\ Touch({d}) /\ UNCHANGED link
       \/ /\ kids' = [kids EXCEPT !["R"] = [@ EXCEPT !["a"] = kids["R"]["h"], !["h"] = kids["R"]["a"]]]
          /\ Touch({"R", "A", "H"}) /\ UNCHANGED link
    /\ UNCHANGED <<walk, inv, cap, todo, mark>>

-----------------------------------------------------------------------------
(* source-walk.c, source-root.c *)

Prefix(p, q) == Len(p) <= Len(q) /\ SubSeq(q, 1, Len(p)) = p
Above(held, c) == {b \in held.cursors : Prefix(b.path, c.path)}

\* A directory is held if it and every directory above it have not changed at all.
source_cursor_held(held, c) == \A b \in Above(held, c) : stamp[b.dir] = b.before
CursorOf(held, e) == CHOOSE c \in held.cursors : c.path = SubSeq(e.path, 1, Len(e.path) - 1)
Named(c, e) == e.path[Len(e.path)] \in DOMAIN kids[c.dir] /\ kids[c.dir][e.path[Len(e.path)]] = e.ino

\* Mutant: the entry's inode is compared, not its times and size.
source_metadata_same_Inode(e) == TRUE
source_metadata_same(e) == stamp[e.ino] = e.before
source_entry_held(held, e) ==
    LET c == CursorOf(held, e) IN source_cursor_held(held, c) /\ Named(c, e) /\ source_metadata_same(e)

\* What was left out needs its place only; a file that was left out must also be
\* the same file.
source_entry_path_held(held, e) ==
    LET c == CursorOf(held, e) IN
    /\ \A b \in Above(held, c) :
          b.path # <<>> => Named(CursorOf(held, b), [path |-> b.path, ino |-> b.dir])
    /\ Named(c, e)
    /\ e.ino \notin Dirs => source_metadata_same(e)

source_mint_cursor(path, dir) == [path |-> path, dir |-> dir, before |-> stamp[dir], seen |-> {}]

\* The name of the controlled home still leads to it.
source_held == "h" \in DOMAIN kids["R"] /\ kids["R"]["h"] = "H"

\* What a look has to check.
Items(held) == {<<"cursor", c>> : c \in held.cursors} \cup {<<"entry", e>> : e \in held.held}
Look(held) == {<<"home">>} \cup Items(held)

-----------------------------------------------------------------------------
(* The two walks *)

Fails == walk' = [walk EXCEPT !.pc = "failed"]
At(pc) == walk.pc = pc
Top == Head(walk.stack)
Current(held) == CHOOSE c \in held.cursors : c.path = Top
Open(held, c) == [held EXCEPT !.cursors = @ \cup {c}]
See(held, n) == [held EXCEPT !.cursors = (@ \ {Current(held)}) \cup {[Current(held) EXCEPT !.seen = @ \cup {n}]}]

Start ==
    /\ At("start")
    /\ inv' = Open(inv, source_mint_cursor(<<>>, Root))
    /\ walk' = [pc |-> "inventory", stack |-> <<<<>>>>, count |-> 0, read |-> NoReader]
    /\ UNCHANGED <<kids, stamp, link, edits, cap, todo, mark>>

Entry(c, n) == [path |-> Append(c.path, n), ino |-> kids[c.dir][n], before |-> stamp[kids[c.dir][n]], pruned |-> FALSE]
IsHard(e) == e.ino = "H" \/ \E h \in inv.hard : Prefix(h, e.path)

\* cursor.next of the inventory: nothing is opened but the directories it enters.
InventoryNext ==
    LET c == Current(inv) IN
    /\ At("inventory") /\ walk.stack # <<>>
    /\ source_cursor_held(inv, c)
    /\ \E n \in DOMAIN kids[c.dir] \ c.seen :
          LET e == Entry(c, n)
              left == IsHard(e) \/ e.path \in Excluded
              dir == e.ino \in Dirs
              seen == See(inv, n)
              kept == [seen EXCEPT !.held = @ \cup {[e EXCEPT !.pruned = left]},
                                   !.hard = IF IsHard(e) THEN @ \cup {e.path} ELSE @,
                                   !.selected = IF left \/ dir THEN @ ELSE @ \cup {e.path}]
          IN IF walk.count = MaxEntries
             THEN Fails /\ UNCHANGED inv
             ELSE /\ walk' = [walk EXCEPT !.count = @ + 1,
                                          !.stack = IF dir /\ ~left THEN <<e.path>> \o @ ELSE @]
                  /\ inv' = IF dir /\ ~left THEN Open(kept, source_mint_cursor(e.path, e.ino)) ELSE kept
    /\ UNCHANGED <<kids, stamp, link, edits, cap, todo, mark>>

\* A directory without entries is selected itself.
Leave(held, then) ==
    LET c == Current(held) IN
    /\ source_cursor_held(held, c)
    /\ DOMAIN kids[c.dir] \subseteq c.seen
    /\ walk' = [walk EXCEPT !.stack = Tail(@), !.pc = IF Len(walk.stack) = 1 THEN then ELSE @]
InventoryLeave ==
    /\ At("inventory") /\ walk.stack # <<>>
    /\ Leave(inv, "look")
    /\ inv' = IF Top # <<>> /\ Current(inv).seen = {} THEN [inv EXCEPT !.selected = @ \cup {Top}] ELSE inv
    /\ todo' = IF walk'.pc = "look" THEN Look(inv') ELSE todo
    /\ UNCHANGED <<kids, stamp, link, edits, cap, mark>>

\* captureWorkspaceEntries opens the selected leaves and the directories above them.
Needed == {<<p[1]>> : p \in {q \in inv.selected : Len(q) = 2}}
CaptureNext ==
    LET c == Current(cap) IN
    /\ At("capture") /\ walk.stack # <<>> /\ walk.read = NoReader
    /\ source_cursor_held(cap, c)
    /\ \E n \in DOMAIN kids[c.dir] \ c.seen :
          LET e == Entry(c, n)
              seen == See(cap, n)
              dir == e.ino \in Dirs
              file == ~dir /\ e.ino \notin link
              kept == [seen EXCEPT !.held = @ \cup {e},
                                   !.entries = IF file THEN @ ELSE @ \cup {<<e.path, IF dir THEN "directory" ELSE "symlink", <<>>>>}]
          IN IF Top \in inv.selected \/ walk.count = MaxEntries THEN Fails /\ UNCHANGED cap
             ELSE IF e.path \notin inv.selected \cup Needed THEN
                     cap' = seen /\ walk' = [walk EXCEPT !.count = @ + 1]
             ELSE IF e.path \in Needed /\ ~dir THEN Fails /\ UNCHANGED cap
             ELSE
                     /\ walk' = [walk EXCEPT !.count = @ + 1, !.stack = IF dir THEN <<e.path>> \o @ ELSE @,
                                               !.read = IF file THEN [entry |-> {e}, step |-> 1, got |-> <<>>] ELSE @]
                     /\ cap' = IF dir THEN Open(kept, source_mint_cursor(e.path, e.ino)) ELSE kept
    /\ UNCHANGED <<kids, stamp, link, edits, inv, todo, mark>>

\* A file is read in pieces, and looked at before and after each of them.
readChunk ==
    /\ At("capture") /\ walk.read # NoReader
    /\ \E e \in walk.read.entry :
          \/ /\ walk.read.step \in {2, 4}
             /\ walk' = [walk EXCEPT !.read.step = @ + 1, !.read.got = Append(@, stamp[e.ino])]
             /\ UNCHANGED cap
          \/ /\ walk.read.step \in {1, 3} /\ source_entry_held(cap, e)
             /\ walk' = [walk EXCEPT !.read.step = @ + 1]
             /\ UNCHANGED cap
          \/ /\ walk.read.step = 5 /\ source_entry_held(cap, e)
             /\ walk' = [walk EXCEPT !.read = NoReader]
             /\ cap' = [cap EXCEPT !.entries = @ \cup {<<e.path, "file", walk.read.got>>}]
          \/ /\ walk.read.step \in {1, 3, 5} /\ ~source_entry_held(cap, e)
             /\ Fails /\ UNCHANGED cap
    /\ UNCHANGED <<kids, stamp, link, edits, inv, todo, mark>>

\* What was selected must be there; then everything is looked at again.
Chosen == {e[1] : e \in cap.entries}
CaptureLeave ==
    /\ At("capture") /\ walk.stack # <<>> /\ walk.read = NoReader
    /\ Leave(cap, "complete")
    /\ todo' = IF walk'.pc = "complete" THEN Items(cap) ELSE todo
    /\ mark' = IF walk'.pc = "complete" THEN <<kids, stamp, link>> ELSE mark
    /\ UNCHANGED <<kids, stamp, link, edits, inv, cap>>

\* A walk ends with the first directory that is not what it was.
Disturbed ==
    /\ \/ At("inventory") /\ walk.stack # <<>> /\ ~source_cursor_held(inv, Current(inv))
       \/ At("capture") /\ walk.stack # <<>> /\ walk.read = NoReader /\ ~source_cursor_held(cap, Current(cap))
    /\ Fails
    /\ UNCHANGED <<kids, stamp, link, edits, inv, cap, todo, mark>>

-----------------------------------------------------------------------------
(* Looking again *)

Held(held, x) ==
    CASE x[1] = "home" -> source_held
      [] x[1] = "cursor" -> source_cursor_held(held, x[2])
      [] x[1] = "entry" -> IF x[2].pruned THEN source_entry_path_held(held, x[2]) ELSE source_entry_held(held, x[2])

\* assertCurrent and assertComplete look at one thing after the other.
assertHeld ==
    /\ walk.pc \in {"look", "complete", "published", "captured", "projected"} /\ todo # {}
    /\ \E x \in todo :
          LET held == IF walk.pc \in {"complete", "published"} THEN cap ELSE inv
          IN IF Held(held, x) THEN todo' = todo \ {x} /\ UNCHANGED walk ELSE Fails /\ todo' = {}
    /\ UNCHANGED <<kids, stamp, link, edits, inv, cap, mark>>

\* No captured link leads into the controlled home.
checkHardExcludedLinks == \A e \in cap.entries : e[2] # "symlink"

\* After each look: the second walk, the publication of the entries, the capture's
\* second look, the links that may not lead into the controlled home, the
\* publication of the manifests, the last look.
publish ==
    /\ todo = {}
    /\ \/ /\ At("look")
          /\ cap' = Open(cap, source_mint_cursor(<<>>, Root))
          /\ walk' = [pc |-> "capture", stack |-> <<<<>>>>, count |-> 0, read |-> NoReader]
          /\ UNCHANGED todo
       \/ /\ At("complete") /\ inv.selected \subseteq Chosen
          /\ walk' = [walk EXCEPT !.pc = "published"] /\ todo' = Items(cap) /\ UNCHANGED cap
       \/ /\ At("complete") /\ ~(inv.selected \subseteq Chosen)
          /\ Fails /\ UNCHANGED <<cap, todo>>
       \/ /\ At("published")
          /\ walk' = [walk EXCEPT !.pc = "captured"] /\ todo' = Look(inv) /\ UNCHANGED cap
       \/ /\ At("captured") /\ checkHardExcludedLinks
          /\ walk' = [walk EXCEPT !.pc = "projected"] /\ todo' = Look(inv) /\ UNCHANGED cap
       \/ /\ At("captured") /\ ~checkHardExcludedLinks
          /\ Fails /\ UNCHANGED <<cap, todo>>
       \/ /\ At("projected")
          /\ walk' = [walk EXCEPT !.pc = "done"] /\ UNCHANGED <<cap, todo>>
    /\ UNCHANGED <<kids, stamp, link, edits, inv, mark>>

Next == Editor \/ Start \/ InventoryNext \/ InventoryLeave \/ CaptureNext \/ readChunk \/ CaptureLeave \/ Disturbed \/ assertHeld \/ publish

Spec == Init /\ [][Next]_vars

-----------------------------------------------------------------------------
(* Properties *)

\* What a source holds to be captured, read at one instant: files and links that are
\* neither excluded nor the controlled home's, the directories above them, and
\* directories without entries.
Ordinary(k, d, p) == {n \in DOMAIN k[d] : k[d][n] # "H" /\ Append(p, n) # <<"h">> /\ Append(p, n) \notin Excluded}
Leaves(k, s, d, p) ==
    {<<Append(p, n), IF k[d][n] \in mark[3] THEN "symlink" ELSE "file",
       IF k[d][n] \in mark[3] THEN <<>> ELSE <<s[k[d][n]], s[k[d][n]]>>>> : n \in {m \in Ordinary(k, d, p) : k[d][m] \notin Dirs}}
AsOf(k, s) ==
    Leaves(k, s, Root, <<>>) \cup
    UNION {LET inside == Leaves(k, s, k[Root][n], <<n>>)
           IN inside \cup (IF inside # {} \/ DOMAIN k[k[Root][n]] = {} THEN {<<<<n>>, "directory", <<>>>>} ELSE {})
             : n \in {m \in Ordinary(k, Root, <<>>) : k[Root][m] \in Dirs}}

\* However the editor's changes fall between the looks, a projection that succeeds
\* is the source as it was at one instant: when the capture began to look again.
CaptureIsSnapshot == At("done") => cap.entries = AsOf(mark[1], mark[2])

\* A projection never holds what is below the controlled home, nor a link.
CaptureIsConfined ==
    At("done") => \A e \in cap.entries : e[2] # "symlink" /\ e[1] \notin inv.hard
==============================================================================
