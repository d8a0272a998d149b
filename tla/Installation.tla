---------------------------- MODULE Installation ----------------------------
(***************************************************************************)
(* The installed program: the first installation of a signed package       *)
(* (state/installed-runtime.ts), the terminal exec of a selected role      *)
(* (native/state-owner/installed-exec.c), the keeper that owns the         *)
(* delegated control group and the supervisor that follows its locator     *)
(* (installed-anchor.c), start-up and shutdown of both                     *)
(* (state/installed-entry.ts), the unit files and the manager that starts  *)
(* them (state/installed-services.ts), and the client that has the         *)
(* supervisor finalize a credential (state/installed-credential-client.ts, *)
(* native/state-owner/control-client.c).                                   *)
(*                                                                         *)
(* Every await of the code ends a step: another process may die, stop or   *)
(* start between any two.                                                  *)
(***************************************************************************)
EXTENDS Naturals, Sequences, FiniteSets

CONSTANTS
    Installer,     \* processes that install the package
    Client,        \* credential commands
    MaxInv,        \* invocations of each unit
    MaxFault       \* what goes wrong outside

VARIABLES
    disk,          \* the installation: the steps done, and whether a file changed since
    ins,           \* the step each installer is at
    profile,       \* the unit files
    loaded,        \* the unit files the manager has read
    ready,         \* keeper.ready: 0, or the keeper its locator names
    socket,        \* control-v1.sock: 0, or the supervisor that bound it
    keeper, sup,   \* the two units and their processes
    client,
    commits,       \* the supervisor that committed a client's operation, or 0
    faults
vars == <<disk, ins, profile, loaded, ready, socket, keeper, sup, client, commits, faults>>

Unit == {"keeper", "supervisor"}

Off(inv, unit) == [inv |-> inv, st |-> "off", unit |-> unit, lost |-> FALSE]
Idle(inv, unit) ==
    [inv |-> inv, st |-> "off", unit |-> unit, anchor |-> 0, store |-> "none",
     service |-> "none", stop |-> FALSE]

Init ==
    /\ disk = [done |-> {}, changed |-> FALSE]
    /\ ins = [i \in Installer |-> 0]
    /\ profile = [u \in Unit |-> "none"]
    /\ loaded = {}
    /\ ready = 0 /\ socket = 0
    /\ keeper = Off(0, "inactive")
    /\ sup = Idle(0, "inactive")
    /\ client = [c \in Client |-> [st |-> "idle", k |-> 0, s |-> 0, peer |-> 0]]
    /\ commits = [c \in Client |-> 0]
    /\ faults = 0

Fault == faults < MaxFault /\ faults' = faults + 1

-----------------------------------------------------------------------------
(* Installation *)

\* installInitial: directories that must be new, the copies in a private stage,
\* the bootstrap, the roots in the content store, verification of all of it, the
\* stage gets its name, and the selection is published last.
Steps ==
    <<"root", "runtime", "cas", "bundles", "stage", "entries", "bootstrap", "roots",
      "verify", "rename", "select">>
MustBeNew == {"root", "runtime", "cas", "bundles", "rename", "select"}

Ended == Len(Steps) + 1
Failed == Len(Steps) + 2

InstallStep(i) ==
    /\ ins[i] \in 0 .. Len(Steps) - 1
    /\ LET step == Steps[ins[i] + 1]
           ok == (step \in MustBeNew => step \notin disk.done) /\ (step = "verify" => ~disk.changed)
       IN /\ disk' = IF ok THEN [disk EXCEPT !.done = @ \cup {step}] ELSE disk
          /\ ins' = [ins EXCEPT ![i] =
                IF ~ok THEN Failed ELSE IF @ + 1 = Len(Steps) THEN Ended ELSE @ + 1]
    /\ UNCHANGED <<profile, loaded, ready, socket, keeper, sup, client, commits, faults>>

\* The installer dies, a write fails, or the source no longer has the signed bytes.
InstallDies(i) ==
    /\ ins[i] \in 1 .. Len(Steps) - 1
    /\ Fault
    /\ ins' = [ins EXCEPT ![i] = Failed]
    /\ UNCHANGED <<disk, profile, loaded, ready, socket, keeper, sup, client, commits>>

\* openSelected and every revalidation: the selection, one complete version, the
\* bootstrap and the roots, with the signed bytes.
Selected == "select" \in disk.done /\ ~disk.changed

\* Somebody writes to an installed file.
Tamper ==
    /\ Fault /\ disk.done # {} /\ ~disk.changed
    /\ disk' = [disk EXCEPT !.changed = TRUE]
    /\ UNCHANGED <<ins, profile, loaded, ready, socket, keeper, sup, client, commits>>

-----------------------------------------------------------------------------
(* Unit files *)

\* ProfileScope.create: O_EXCL, then the bytes.  An existing file must have them.
CreateProfile(u) ==
    /\ Selected /\ profile[u] = "none" /\ (u = "supervisor" => profile["keeper"] = "good")
    /\ \/ profile' = [profile EXCEPT ![u] = "good"] /\ UNCHANGED faults
       \/ Fault /\ profile' = [profile EXCEPT ![u] = "partial"]
    /\ UNCHANGED <<disk, ins, loaded, ready, socket, keeper, sup, client, commits>>

\* ProfileScope.read of both: a profile that differs is refused, never replaced.
ProfilesGood == \A u \in Unit : profile[u] = "good"

\* installServices after both profiles are there: the manager reads them.
Reload ==
    /\ Selected /\ ProfilesGood /\ loaded # Unit
    /\ loaded' = Unit
    /\ UNCHANGED <<disk, ins, profile, ready, socket, keeper, sup, client, commits, faults>>

\* checkEffectiveUnit: the manager runs the fixed profiles.
Effective == ProfilesGood /\ loaded = Unit

-----------------------------------------------------------------------------
(* The manager *)

Startable(r) == r.unit # "active" /\ r.inv < MaxInv
Started(r) == IF Startable(r) THEN Off(r.inv + 1, "active") ELSE r
BootKeeper == [Started(keeper) EXCEPT !.st = IF Startable(keeper) THEN "boot" ELSE @]
BootSup == [Idle(sup.inv + 1, "active") EXCEPT !.st = "boot"]

\* The supervisor's unit requires the keeper's and restarts on failure.
StartSup ==
    /\ Startable(sup) /\ loaded = Unit
    /\ keeper.unit = "active" \/ Startable(keeper)
    /\ keeper' = BootKeeper
    /\ sup' = BootSup
Restart ==
    /\ sup.unit = "failed" /\ StartSup
    /\ UNCHANGED <<disk, ins, profile, loaded, ready, socket, client, commits, faults>>

-----------------------------------------------------------------------------
(* The keeper *)

KeeperEnds(unit) == keeper' = Off(keeper.inv, unit)

\* executeSelected: the bootstrap becomes the selected image, or the process ends.
KeeperExec ==
    /\ keeper.st = "boot"
    /\ IF Selected THEN keeper' = [keeper EXCEPT !.st = "role"] ELSE KeeperEnds("failed")
    /\ UNCHANGED <<disk, ins, profile, loaded, ready, socket, sup, client, commits, faults>>

\* initialize_installed_keeper: the original pin of the unit's own empty root, the
\* leaf it moves into, the controllers; then the locator goes to a private file.
Next_(st) ==
    CASE st = "role" -> "pinned" [] st = "pinned" -> "leaf" [] st = "leaf" -> "delegated"
      [] st = "delegated" -> "locator"
KeeperInit ==
    /\ keeper.st \in {"role", "pinned", "leaf", "delegated"}
    /\ IF Selected THEN keeper' = [keeper EXCEPT !.st = Next_(@)] ELSE KeeperEnds("failed")
    /\ UNCHANGED <<disk, ins, profile, loaded, ready, socket, sup, client, commits, faults>>

KeeperPublish ==
    /\ keeper.st = "locator"
    /\ IF keeper.lost
       THEN KeeperEnds("failed") /\ UNCHANGED ready
       ELSE keeper' = [keeper EXCEPT !.st = "up"] /\ ready' = keeper.inv
    /\ UNCHANGED <<disk, ins, profile, loaded, socket, sup, client, commits, faults>>

\* The health timer finds the group, the image or the credentials changed.
KeeperHealth ==
    /\ keeper.st = "up" /\ keeper.lost
    /\ KeeperEnds("failed")
    /\ UNCHANGED <<disk, ins, profile, loaded, ready, socket, sup, client, commits, faults>>

KeeperStops ==
    /\ keeper.st = "up"
    /\ Fault
    /\ KeeperEnds("inactive")
    /\ UNCHANGED <<disk, ins, profile, loaded, ready, socket, sup, client, commits>>

KeeperDies ==
    /\ keeper.st # "off"
    /\ Fault
    /\ KeeperEnds("failed")
    /\ UNCHANGED <<disk, ins, profile, loaded, ready, socket, sup, client, commits>>

\* The delegation or the membership of the group changes under the keeper.
LoseGroup ==
    /\ keeper.st \in {"locator", "up"} /\ ~keeper.lost
    /\ Fault
    /\ keeper' = [keeper EXCEPT !.lost = TRUE]
    /\ UNCHANGED <<disk, ins, profile, loaded, ready, socket, sup, client, commits>>

-----------------------------------------------------------------------------
(* The supervisor *)

\* installed_anchor_current: the keeper of the locator lives, with its image, its
\* original descriptor and its group.
Held(a) == a # 0 /\ keeper.inv = a /\ keeper.st = "up" /\ ~keeper.lost

SupEnds(unit) == sup' = Idle(sup.inv, unit)

SupExec ==
    /\ sup.st = "boot"
    /\ IF Selected THEN sup' = [sup EXCEPT !.st = "anchor"] ELSE SupEnds("failed")
    /\ UNCHANGED <<disk, ins, profile, loaded, ready, socket, keeper, client, commits, faults>>

\* What follows an await of start: a requested stop ends the start-up.
\* Mutant: the stop is not looked at after the runs have started.
Then_NoCheck(r, next) == [r EXCEPT !.st = IF r.stop /\ next # "serve" THEN "stopped" ELSE next]
Then(r, next) == [r EXCEPT !.st = IF r.stop THEN "stopped" ELSE next]

\* acquireInstalledAnchor: the locator's keeper, or the start-up fails.
Acquire ==
    /\ sup.st = "anchor"
    /\ sup' = IF Selected /\ Held(ready)
              THEN Then([sup EXCEPT !.anchor = ready], "profile")
              ELSE [sup EXCEPT !.st = "failing"]
    /\ UNCHANGED <<disk, ins, profile, loaded, ready, socket, keeper, client, commits, faults>>

\* anchor.assertHeld, the sandbox profile and the user of a signed model authority.
ReadProfile ==
    /\ sup.st = "profile"
    /\ sup' = IF Held(sup.anchor) /\ Selected THEN Then(sup, "open")
              ELSE [sup EXCEPT !.st = "failing"]
    /\ UNCHANGED <<disk, ins, profile, loaded, ready, socket, keeper, client, commits, faults>>

\* openStateStore with the held selection and anchor.
OpenStore ==
    /\ sup.st = "open"
    /\ \/ /\ Selected /\ Held(sup.anchor)
          /\ sup' = Then([sup EXCEPT !.store = "open"], "runs")
          /\ UNCHANGED faults
       \/ /\ ~(Selected /\ Held(sup.anchor))
          /\ sup' = [sup EXCEPT !.st = "failing"]
          /\ UNCHANGED faults
       \/ Fault /\ sup' = [sup EXCEPT !.st = "failing"]
    /\ UNCHANGED <<disk, ins, profile, loaded, ready, socket, keeper, client, commits>>

StartRuns ==
    /\ sup.st = "runs"
    /\ \/ sup' = Then(sup, "serve") /\ UNCHANGED faults
       \/ Fault /\ sup' = [sup EXCEPT !.st = "failing"]
    /\ UNCHANGED <<disk, ins, profile, loaded, ready, socket, keeper, client, commits>>

\* The last part of start, in the same turn as the end of StartRuns: the anchor is
\* looked at once more, the service opens and the health timer runs.
Serve ==
    /\ sup.st = "serve"
    /\ IF Held(sup.anchor)
       THEN sup' = [sup EXCEPT !.st = "up", !.service = "open"] /\ socket' = sup.inv
       ELSE sup' = [sup EXCEPT !.st = "failing"] /\ UNCHANGED socket
    /\ UNCHANGED <<disk, ins, profile, loaded, ready, keeper, client, commits, faults>>

SupHealth ==
    /\ sup.st = "up" /\ ~Held(sup.anchor)
    /\ sup' = [sup EXCEPT !.st = "failing"]
    /\ UNCHANGED <<disk, ins, profile, loaded, ready, socket, keeper, client, commits, faults>>

\* SIGTERM: during start-up it is only noted; afterwards close begins.
Terminate ==
    /\ sup.st \notin {"off", "boot", "serve"} /\ ~sup.stop
    /\ Fault
    /\ sup' = [sup EXCEPT !.stop = TRUE, !.st = IF @ = "up" THEN "stopped" ELSE @]
    /\ UNCHANGED <<disk, ins, profile, loaded, ready, socket, keeper, client, commits>>

\* close, once: the service, then the store, then the anchor and the selection.  A
\* close that fails keeps everything behind it until the process ends.
Closing == sup.st \in {"stopped", "failing"}

CloseService ==
    /\ Closing /\ sup.service = "open"
    /\ \/ /\ sup' = [sup EXCEPT !.service = "closed"]
          /\ socket' = IF socket = sup.inv THEN 0 ELSE socket
          /\ UNCHANGED faults
       \/ /\ Fault
          /\ sup' = [sup EXCEPT !.st = "uncertain"]
          /\ UNCHANGED socket
    /\ UNCHANGED <<disk, ins, profile, loaded, ready, keeper, client, commits>>

MayCloseStore == sup.store = "open" /\ sup.service # "open"
CloseStore ==
    /\ Closing /\ MayCloseStore
    /\ \/ sup' = [sup EXCEPT !.store = "closed"] /\ UNCHANGED faults
       \/ Fault /\ sup' = [sup EXCEPT !.st = "uncertain"]
    /\ UNCHANGED <<disk, ins, profile, loaded, ready, socket, keeper, client, commits>>

CloseAnchor ==
    /\ Closing /\ sup.service # "open" /\ sup.store # "open"
    /\ SupEnds(IF sup.st = "failing" THEN "failed" ELSE "inactive")
    /\ UNCHANGED <<disk, ins, profile, loaded, ready, socket, keeper, client, commits, faults>>

\* After a close that failed the process has nothing to do and ends with an error.
EndUncertain ==
    /\ sup.st = "uncertain"
    /\ SupEnds("failed")
    /\ UNCHANGED <<disk, ins, profile, loaded, ready, socket, keeper, client, commits, faults>>

SupDies ==
    /\ sup.st # "off"
    /\ Fault
    /\ SupEnds("failed")
    /\ UNCHANGED <<disk, ins, profile, loaded, ready, socket, keeper, client, commits>>

-----------------------------------------------------------------------------
(* The credential client *)

Go(c, st) == client' = [client EXCEPT ![c].st = st]
Refuse(c) == Go(c, "refused")

\* observeInstalledCredentialSupervisor: nothing is started under other profiles,
\* or over a keeper that failed.
Begin(c) ==
    /\ client[c].st = "idle"
    /\ IF ~Selected \/ ~Effective \/ (sup.unit # "active" /\ keeper.unit = "failed")
       THEN Refuse(c) /\ UNCHANGED keeper
       ELSE IF sup.unit = "active"
            THEN Go(c, "socket") /\ UNCHANGED keeper
            ELSE Go(c, "hint") /\ keeper' = BootKeeper
    /\ UNCHANGED <<disk, ins, profile, loaded, ready, socket, sup, commits, faults>>

\* The wait for keeper.ready: a hint only, the file may be an earlier keeper's.
Hint(c) ==
    /\ client[c].st = "hint"
    /\ \/ /\ keeper.unit = "active" /\ ready # 0
          /\ client' = [client EXCEPT ![c].st = "recheck", ![c].k = keeper.inv]
       \/ keeper.unit # "active" /\ Refuse(c)
    /\ UNCHANGED <<disk, ins, profile, loaded, ready, socket, keeper, sup, commits, faults>>

Recheck(c) ==
    /\ client[c].st = "recheck"
    /\ IF keeper.unit = "active" /\ keeper.inv = client[c].k /\ Selected
       THEN IF sup.unit = "active"
            THEN Go(c, "socket") /\ UNCHANGED <<keeper, sup>>
            ELSE Go(c, "socket") /\ StartSup
       ELSE Refuse(c) /\ UNCHANGED <<keeper, sup>>
    /\ UNCHANGED <<disk, ins, profile, loaded, ready, socket, commits, faults>>

\* The wait for the socket: the observation that saw it is the one kept.
AwaitSocket(c) ==
    /\ client[c].st = "socket"
    /\ \/ /\ socket # 0 /\ sup.unit = "active" /\ keeper.unit = "active" /\ Selected
          /\ client' = [client EXCEPT ![c].st = "connect", ![c].k = keeper.inv, ![c].s = sup.inv]
       \/ /\ "failed" \in {sup.unit, keeper.unit} \/ ~Selected
          /\ Refuse(c)
    /\ UNCHANGED <<disk, ins, profile, loaded, ready, socket, keeper, sup, commits, faults>>

\* connect_installed_control: a live listener of the selected image.
Connect(c) ==
    /\ client[c].st = "connect"
    /\ IF Selected /\ socket # 0 /\ socket = sup.inv /\ sup.service = "open"
       THEN client' = [client EXCEPT ![c].st = "check", ![c].peer = sup.inv]
       ELSE Refuse(c)
    /\ UNCHANGED <<disk, ins, profile, loaded, ready, socket, keeper, sup, commits, faults>>

\* checkCurrent: the units are the observed invocations and the peer is theirs.
Current(c) ==
    /\ Selected /\ Effective
    /\ keeper.unit = "active" /\ keeper.inv = client[c].k
    /\ sup.unit = "active" /\ sup.inv = client[c].s
    /\ client[c].peer = sup.inv /\ sup.service = "open"

\* Greeting and continuation are each bracketed by a check.
Check(c) ==
    /\ client[c].st \in {"check", "sure"}
    /\ IF Current(c)
       THEN Go(c, IF client[c].st = "check" THEN "sent" ELSE "done")
       ELSE Refuse(c)
    /\ UNCHANGED <<disk, ins, profile, loaded, ready, socket, keeper, sup, commits, faults>>

\* The connection is served by the process it was made to.
Served(c) == client[c].peer = sup.inv /\ sup.service = "open" /\ sup.st = "up"
Commit(c) ==
    /\ client[c].st = "sent" /\ Served(c)
    /\ commits' = [commits EXCEPT ![c] = sup.inv]
    /\ Go(c, "answer")
    /\ UNCHANGED <<disk, ins, profile, loaded, ready, socket, keeper, sup, faults>>

\* The answer arrives, or the connection ends or times out before it does.
Answer(c) ==
    /\ client[c].st = "answer"
    /\ \/ Go(c, "sure") /\ Served(c) /\ UNCHANGED faults
       \/ Refuse(c) /\ ~Served(c) /\ UNCHANGED faults
       \/ Refuse(c) /\ Fault
    /\ UNCHANGED <<disk, ins, profile, loaded, ready, socket, keeper, sup, commits>>

\* The waits are bounded: thirty seconds each.
Timeout(c) ==
    /\ client[c].st \in {"hint", "socket", "sent"}
    /\ Fault
    /\ Refuse(c)
    /\ UNCHANGED <<disk, ins, profile, loaded, ready, socket, keeper, sup, commits>>

Lost(c) ==
    /\ client[c].st = "sent" /\ ~Served(c)
    /\ Refuse(c)
    /\ UNCHANGED <<disk, ins, profile, loaded, ready, socket, keeper, sup, commits, faults>>

Next ==
    \/ \E i \in Installer : InstallStep(i) \/ InstallDies(i)
    \/ Tamper \/ Reload \/ Restart
    \/ \E u \in Unit : CreateProfile(u)
    \/ KeeperExec \/ KeeperInit \/ KeeperPublish \/ KeeperHealth \/ KeeperStops \/ KeeperDies
    \/ LoseGroup
    \/ SupExec \/ Acquire \/ ReadProfile \/ OpenStore \/ StartRuns \/ Serve \/ SupHealth
    \/ Terminate \/ CloseService \/ CloseStore \/ CloseAnchor \/ EndUncertain \/ SupDies
    \/ \E c \in Client :
        \/ Begin(c) \/ Hint(c) \/ Recheck(c) \/ AwaitSocket(c) \/ Connect(c) \/ Check(c)
        \/ Commit(c) \/ Answer(c) \/ Timeout(c) \/ Lost(c)

Spec == Init /\ [][Next]_vars

-----------------------------------------------------------------------------
(* Properties *)

\* A selection that can be read is a whole installation, whichever installer died
\* at whichever step, and one installer at most succeeded.
SelectionIsWhole ==
    /\ "select" \in disk.done => {Steps[i] : i \in DOMAIN Steps} = disk.done
    /\ Cardinality({i \in Installer : ins[i] = Ended}) <= 1

\* A supervisor's store is open only while it holds an anchor, and its service only
\* while it holds the store: also after a close that failed half way.
HeldInOrder ==
    /\ sup.store = "open" => sup.anchor # 0
    /\ sup.service = "open" => sup.store = "open"

\* A service opens only under a keeper that lives and published its locator, and
\* never once a stop was asked for.
ServesContained ==
    (sup.service = "none" /\ sup'.service = "open") =>
        ~sup.stop /\ keeper.inv = sup.anchor /\ keeper.st = "up" /\ ready = keeper.inv

\* A client that was told so had its operation committed by the supervisor it
\* observed first, and that supervisor and its keeper still run when it returns.
ClientIsSure ==
    \A c \in Client :
        (client[c].st # "done" /\ client'[c].st = "done") =>
            /\ commits[c] = client[c].s /\ commits[c] = sup.inv
            /\ sup.unit = "active" /\ keeper.unit = "active" /\ keeper.inv = client[c].k
=============================================================================
