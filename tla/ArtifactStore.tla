---------------------------- MODULE ArtifactStore ----------------------------
(***************************************************************************)
(* Content-addressed storage (state/cas.ts): publications of one content,  *)
(* which race for one name in one directory, and the rows that declare it  *)
(* (state/artifacts.ts) through the SQLite driver                          *)
(* (state/sqlite-driver.ts).                                               *)
(*                                                                         *)
(* Every system call is a step.  A publisher may die between any two, and  *)
(* the machine may lose power: then each name of the directory is what it  *)
(* was when the directory was last synced or what it became since, and a   *)
(* file that was not synced has lost its bytes.  Every publication has an  *)
(* inode of its own, named after it.                                       *)
(***************************************************************************)
EXTENDS Naturals, FiniteSets

CONSTANTS
    Pub,           \* publications
    KindOf,        \* the schema kind each declares
    Chunks,        \* chunks of the content
    MaxAttempt,    \* rounds of one recovery
    MaxFault       \* refused system calls

Absent == "none"
Stream(p) == <<"stream", p>>
Temp(p) == <<"temp", p>>
Final == <<"final", "ref">>
Name == {Stream(p) : p \in Pub} \cup {Temp(p) : p \in Pub} \cup {Final}

VARIABLES
    dir,           \* the directory: the inode of each name
    synced,        \* the directory as of its last sync
    inode,         \* the file each publication writes
    pub,           \* the publications
    row,           \* the committed declaration: a schema kind, or none
    conn,          \* the connection to the database
    lost,          \* whether power was lost
    faults
vars == <<dir, synced, inode, pub, row, conn, lost, faults>>

Idle ==
    [st |-> "idle", name |-> "stream", linked |-> FALSE, err |-> FALSE, hit |-> FALSE, then |-> "none",
     ino |-> Absent, links |-> 0, found |-> {}, tries |-> 0]

Init ==
    /\ dir = [n \in Name |-> Absent] /\ synced = dir
    /\ inode = [p \in Pub |-> [bytes |-> 0, ro |-> FALSE, durable |-> FALSE]]
    /\ pub = [p \in Pub |-> Idle]
    /\ row = Absent
    /\ conn = "open"
    /\ lost = FALSE
    /\ faults = 0

Fault == faults < MaxFault /\ faults' = faults + 1

Links(i) == {n \in Name : dir[n] = i}
Whole(i) == inode[i].bytes = Chunks /\ inode[i].ro
Named(p) == IF pub[p].name = "stream" THEN Stream(p) ELSE Temp(p)

At(p, st) == pub[p].st = st
Go(p, st) == pub' = [pub EXCEPT ![p].st = st]

\* What fails after the temporary exists goes on to its cleanup; a call that the
\* system refused is remembered.
Fails(p) == pub' = [pub EXCEPT ![p].st = "clean", ![p].err = TRUE]
Refused(p, st) == Fault /\ pub' = [pub EXCEPT ![p].st = st, ![p].err = TRUE, ![p].hit = TRUE]

-----------------------------------------------------------------------------
(* publishChunks *)

Create(p) ==
    /\ At(p, "idle")
    /\ dir' = [dir EXCEPT ![Stream(p)] = p]
    /\ Go(p, "write")
    /\ UNCHANGED <<synced, inode, row, conn, lost, faults>>

\* A write or the source may fail; the rest is made immutable for the cleanup.
Write(p) ==
    /\ At(p, "write") /\ inode[p].bytes < Chunks
    /\ \/ /\ inode' = [inode EXCEPT ![p].bytes = @ + 1]
          /\ UNCHANGED <<pub, faults>>
       \/ /\ Refused(p, "clean")
          /\ inode' = [inode EXCEPT ![p].ro = TRUE]
    /\ UNCHANGED <<dir, synced, row, conn, lost>>

\* chmod and fsync of the file, before any name of its content exists.
\* Mutant: the file is not synced.
Sealed_NoSync(f) == [f EXCEPT !.ro = TRUE]
Sealed(f) == [f EXCEPT !.ro = TRUE, !.durable = TRUE]
Seal(p) ==
    /\ At(p, "write") /\ inode[p].bytes = Chunks
    /\ inode' = [inode EXCEPT ![p] = Sealed(@)]
    /\ Go(p, "sync1")
    /\ UNCHANGED <<dir, synced, row, conn, lost, faults>>

\* syncRoot, between the steps of a publication.
AfterSync ==
    [sync1 |-> "recover", sync2 |-> "link", sync3 |-> "clean", resync |-> "recheck", cleaned |-> "verify"]
SyncRoot(p) ==
    /\ pub[p].st \in DOMAIN AfterSync
    /\ \/ /\ synced' = dir
          /\ pub' = [pub EXCEPT ![p].st = AfterSync[@],
                                ![p].then = IF pub[p].st = "sync1" THEN "rename" ELSE @]
          /\ UNCHANGED faults
       \/ /\ Refused(p, IF At(p, "cleaned") THEN "failed" ELSE "clean")
          /\ UNCHANGED synced
    /\ UNCHANGED <<dir, inode, row, conn, lost>>

\* The temporary gets a name that a recovery recognizes.
Rename(p) ==
    /\ At(p, "rename")
    /\ dir' = [dir EXCEPT ![Stream(p)] = Absent, ![Temp(p)] = p]
    /\ pub' = [pub EXCEPT ![p].st = "sync2", ![p].name = "temp"]
    /\ UNCHANGED <<synced, inode, row, conn, lost, faults>>

\* link never replaces: a name that exists is recovered instead.
Link(p) ==
    /\ At(p, "link")
    /\ IF dir[Final] = Absent
       THEN /\ dir' = [dir EXCEPT ![Final] = p]
            /\ pub' = [pub EXCEPT ![p].st = "sync3", ![p].linked = TRUE]
       ELSE /\ pub' = [pub EXCEPT ![p].st = "recover", ![p].then = "clean", ![p].tries = 0]
            /\ UNCHANGED dir
    /\ UNCHANGED <<synced, inode, row, conn, lost, faults>>

\* cleanupKnownTemporary: a linked temporary may already be gone.
MayBeGone(p) == pub[p].linked
Clean(p) ==
    /\ At(p, "clean")
    /\ IF dir[Named(p)] = p THEN Go(p, "unlink")
       ELSE Go(p, IF pub[p].err \/ ~MayBeGone(p) THEN "failed" ELSE "verify")
    /\ UNCHANGED <<dir, synced, inode, row, conn, lost, faults>>
Unlink(p) ==
    /\ At(p, "unlink")
    /\ IF dir[Named(p)] = p \/ MayBeGone(p)
       THEN dir' = [dir EXCEPT ![Named(p)] = Absent] /\ Go(p, "cleaned")
       ELSE Go(p, "failed") /\ UNCHANGED dir
    /\ UNCHANGED <<synced, inode, row, conn, lost, faults>>

\* openPublishedFile and verifyOpened: one link, and all of the bytes.
Verify(p) ==
    /\ At(p, "verify")
    /\ LET i == dir[Final]
           ok == ~pub[p].err /\ i # Absent /\ Whole(i) /\ Cardinality(Links(i)) = 1
       IN Go(p, IF ok THEN "published" ELSE "failed")
    /\ UNCHANGED <<dir, synced, inode, row, conn, lost, faults>>

-----------------------------------------------------------------------------
(* recoverLinkedTemporary: the crash between link and unlink *)

\* The bytes are read again; one link is ready, several are looked for.
Open(p) ==
    /\ At(p, "recover")
    /\ LET i == dir[Final] IN
        IF i = Absent \/ (Whole(i) /\ Cardinality(Links(i)) = 1) THEN Go(p, pub[p].then)
        ELSE IF ~Whole(i) \/ pub[p].tries = MaxAttempt THEN Fails(p)
        ELSE pub' = [pub EXCEPT ![p].st = "scan", ![p].ino = i, ![p].links = Cardinality(Links(i)),
                                ![p].tries = @ + 1]
    /\ UNCHANGED <<dir, synced, inode, row, conn, lost, faults>>
Scan(p) ==
    /\ At(p, "scan")
    /\ pub' = [pub EXCEPT ![p].st = "rescan", ![p].found = Links(pub[p].ino)]
    /\ UNCHANGED <<dir, synced, inode, row, conn, lost, faults>>

\* The count is read again: one that moved starts over, one that differs from what
\* the directory shows is not touched.
Rescan(p) ==
    /\ At(p, "rescan")
    /\ LET now == Cardinality(Links(pub[p].ino)) IN
        IF now # pub[p].links THEN Go(p, "recover")
        ELSE IF Cardinality(pub[p].found) # now \/ Final \notin pub[p].found
                \/ \E n \in pub[p].found : n # Final /\ n[1] # "temp" THEN Fails(p)
        ELSE Go(p, "residue")
    /\ UNCHANGED <<dir, synced, inode, row, conn, lost, faults>>
Residue(p) == CHOOSE n \in pub[p].found : n # Final
LstatResidue(p) ==
    /\ At(p, "residue")
    /\ LET n == Residue(p) IN
        IF dir[n] = Absent THEN Go(p, "recheck")
        ELSE IF dir[n] # pub[p].ino THEN Fails(p) ELSE Go(p, "remove")
    /\ UNCHANGED <<dir, synced, inode, row, conn, lost, faults>>
RemoveResidue(p) ==
    /\ At(p, "remove")
    /\ dir' = [dir EXCEPT ![Residue(p)] = Absent]
    /\ Go(p, "resync")
    /\ UNCHANGED <<synced, inode, row, conn, lost, faults>>
Recheck(p) ==
    /\ At(p, "recheck")
    /\ Go(p, IF Cardinality(Links(pub[p].ino)) = 1 THEN pub[p].then ELSE "recover")
    /\ UNCHANGED <<dir, synced, inode, row, conn, lost, faults>>

-----------------------------------------------------------------------------
(* Failures *)

\* The publisher dies; what it did to the directory stays.
Dies(p) ==
    /\ pub[p].st \notin {"idle", "published", "failed", "dead", "declared"}
    /\ Fault
    /\ Go(p, "dead")
    /\ UNCHANGED <<dir, synced, inode, row, conn, lost>>

PowerLoss ==
    /\ ~lost
    /\ lost' = TRUE
    /\ inode' = [p \in Pub |-> IF inode[p].durable THEN inode[p] ELSE [inode[p] EXCEPT !.bytes = 0]]
    /\ \E changed \in SUBSET {n \in Name : dir[n] # synced[n]} :
        dir' = [n \in Name |-> IF n \in changed THEN dir[n] ELSE synced[n]]
    /\ synced' = dir'
    /\ pub' = [p \in Pub |-> IF At(p, "idle") THEN pub[p] ELSE [pub[p] EXCEPT !.st = "dead"]]
    /\ conn' = "open"
    /\ UNCHANGED <<row, faults>>

-----------------------------------------------------------------------------
(* The database *)

\* insertArtifactMetadata in a transaction: the first declaration stays, another
\* must agree with it.
Declared(kind) == IF row = Absent THEN kind ELSE row
Declare(p) ==
    /\ At(p, "published") /\ conn = "open"
    /\ \/ /\ row' = IF Declared(KindOf[p]) = KindOf[p] THEN Declared(KindOf[p]) ELSE row
          /\ Go(p, IF Declared(KindOf[p]) = KindOf[p] THEN "declared" ELSE "failed")
          /\ UNCHANGED <<conn, faults>>
       \/ \E undone \in BOOLEAN :                \* COMMIT failed; so may ROLLBACK
          /\ Refused(p, "failed")
          /\ conn' = IF undone THEN "open" ELSE "poisoned"
          /\ UNCHANGED row
    /\ UNCHANGED <<dir, synced, inode, lost>>

\* readSnapshot: read-only inside one turn; a connection that cannot be made
\* writable again is abandoned.
ReadSnapshot ==
    /\ conn = "open" /\ Fault
    /\ conn' = "poisoned"
    /\ UNCHANGED <<dir, synced, inode, pub, row, lost>>

Next ==
    \/ PowerLoss \/ ReadSnapshot
    \/ \E p \in Pub :
        \/ Create(p) \/ Write(p) \/ Seal(p) \/ SyncRoot(p) \/ Rename(p) \/ Link(p)
        \/ Clean(p) \/ Unlink(p) \/ Verify(p) \/ Declare(p) \/ Dies(p)
        \/ Open(p) \/ Scan(p) \/ Rescan(p) \/ LstatResidue(p) \/ RemoveResidue(p) \/ Recheck(p)

Spec == Init /\ [][Next]_vars

-----------------------------------------------------------------------------
(* Properties *)

\* The name of a content never names anything but all of it, whoever died where
\* and whatever the power took.
NamedIsWhole == dir[Final] # Absent => Whole(dir[Final])

\* What a row declares is in the directory, and its name is synced: a reader finds
\* it after any failure.
DeclaredIsDurable == row # Absent => dir[Final] # Absent /\ synced[Final] = dir[Final]

\* Publications do not fail each other: one fails only if a call of its own was
\* refused or another kind was declared before, wherever the others died and also
\* when it has to recover what they left, and it leaves no temporary if it succeeds.
FailureIsOwn ==
    \A p \in Pub :
        /\ pub[p].st = "failed" => pub[p].hit \/ row \notin {Absent, KindOf[p]}
        /\ pub[p].st \in {"published", "declared"} => dir[Stream(p)] = Absent /\ dir[Temp(p)] = Absent

\* The first declaration of a content stays, and its name keeps its inode.
DeclarationStays ==
    /\ row # Absent => row' = row
    /\ dir[Final] # Absent /\ ~lost' => dir'[Final] = dir[Final]
=============================================================================
