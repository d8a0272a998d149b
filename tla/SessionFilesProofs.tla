------------------------- MODULE SessionFilesProofs -------------------------
(* What the files of a CLI home keep for any processes, sessions, plans and   *)
(* bounds, whatever call fails and whatever process is killed: what they name *)
(* is there, and no read-modify-write drops what another one has written.     *)
EXTENDS SessionFiles, SequenceTheorems, TLAPS

\* ---- the inductive invariant -------------------------------------------------

Sid == 1..MaxSession
Wid == 1..MaxSnap
Pid == 1..MaxPlan

CheckpointRow == [at : Nat, snap : Wid]
SessionRow == [id : 0..MaxSession, recs : Nat, cps : Seq(CheckpointRow),
               active : 0..MaxPlan, approved : 0..MaxPlan]
PlanRow == [session : 0..MaxSession,
            status : {"none", "draft", "finalized", "approved", "rejected", "canceled"},
            text : Nat, md : Nat, progress : Nat]
StateRow == [active : 0..MaxSession, recent : Seq(Sid), migrated : BOOLEAN]
SnapPhase == {"none", "available", "unavailable", "collected", "expired"}

Plain == [op : {"none"}]
Checkpointing == [op : {"checkpoint"}, snap : Wid]
Guarding == [op : {"checkpoint"}, snap : Wid, of : Wid]
Planning == [op : {"open", "approved", "declined"}, plan : Pid]
Mutator == Plain \cup Checkpointing \cup Guarding \cup Planning

Named == {"lockState", "readState", "writeState", "writeIndex"}
Saves == {"lock", "read", "write"} \cup Named
SaveCall == [pc : Saves, lock : {"s", "w"}, migrated : BOOLEAN, then : {"idle", "restore"},
             mutator : Mutator, draft : SessionRow, state : StateRow]
PlanCall == [pc : {"planLock", "planMd"}, next : PlanRow, plan : Pid,
             op : {"open", "approved", "declined"}]
SeedCall == [pc : {"seed", "review"}, plan : Pid, text : Nat, then : {"review", "idle"}]
RestoreCall == [pc : {"restore", "restored"}, of : Wid, safety : Wid]
Call == {Idle} \cup SaveCall \cup PlanCall \cup SeedCall \cup RestoreCall

FilesTyped ==
    /\ file \in [Sid -> SessionRow] /\ \A s \in Sid : file[s].id \in {0, s}
    /\ ws \in StateRow /\ index \in 0..MaxSession
    /\ snap \in [Wid -> SnapPhase] /\ plan \in [Pid -> PlanRow]
    /\ lockS \in [Sid -> Proc \cup {"free"}] /\ lockW \in Proc \cup {"free"}
    /\ lockP \in [Pid -> Proc \cup {"free"}]
    /\ mem \in [Proc -> SessionRow] /\ call \in [Proc -> Call]
    /\ made \in [session : 0..MaxSession, snap : 0..MaxSnap, plan : 0..MaxPlan, text : Nat]

\* A session, in a file or in memory, whose checkpoints and approved plan are there.
\* Checkpoints are in the order of their records: a fork up to one of them keeps
\* the records of all before it.
Sound(s, sn, pl) ==
    /\ s.id = 0 => s.cps = <<>>
    /\ \A k \in DOMAIN s.cps : sn[s.cps[k].snap] # "none" /\ s.cps[k].at <= s.recs
    /\ \A j, k \in DOMAIN s.cps : j <= k => s.cps[j].at <= s.cps[k].at
    /\ s.approved # 0 => pl[s.approved].progress # 0 /\ pl[s.approved].session = s.id

\* A session is written before anything names it.
Written(s, f) == s \in Sid /\ f[s].id = s
Recent(w, f) ==
    /\ \A i \in DOMAIN w.recent : Written(w.recent[i], f)
    /\ \A i, j \in DOMAIN w.recent : w.recent[i] = w.recent[j] => i = j
    /\ Len(w.recent) <= RecentMax
    /\ w.active # 0 => w.recent # <<>> /\ w.recent[1] = w.active
\* state.json as it was read has every session that the next one must keep.
Kept(w, v) == \A i \in DOMAIN v.recent :
    (\E j \in DOMAIN w.recent : w.recent[j] = v.recent[i]) \/ Len(v.recent) = RecentMax

FilesOK ==
    /\ \A s \in Sid : Sound(file[s], snap, plan) /\ (s > made.session => file[s].id = 0)
    /\ Recent(ws, file) /\ (index # 0 => Written(index, file))
PlansOK == \A i \in Pid :
    /\ plan[i].status # "none" => plan[i].session # 0 /\ plan[i].text # 0
    /\ plan[i].progress # 0 => plan[i].status # "none"
    /\ i > made.plan => plan[i].status = "none"

\* The session object of a process.
MemOK(p) == Sound(mem[p], snap, plan) /\ (mem[p].id # 0 => Written(mem[p].id, file))

\* A save: the locks it holds, what its mutator added, and what it has read.  The
\* file of a session that is changed stays as it was read until it is written.
SaveOK(p) == LET c == call[p] IN c \in SaveCall =>
    /\ Sound(c.draft, snap, plan) /\ c.draft.id # 0 /\ c.draft.id <= made.session
    /\ c.pc \in Named => Written(c.draft.id, file)
    /\ c.lock = "w" =>
         lockW = p /\ c.mutator.op = "none" /\ c.pc \notin {"lock", "read", "lockState"}
    /\ c.lock = "s" /\ c.pc # "lock" => lockS[c.draft.id] = p
    /\ c.pc \in {"readState", "writeState", "writeIndex"} => lockW = p
    /\ c.pc = "writeState" =>
         c.state.active = c.draft.id /\ Recent(c.state, file) /\ Kept(c.state, ws)
Mutates(p) == LET c == call[p] IN c \in SaveCall =>
    /\ c.pc = "read" => c.mutator.op # "none"
    /\ c.pc = "write" /\ c.mutator.op # "none" =>
         \A k \in DOMAIN file[c.draft.id].cps :
             \E j \in DOMAIN c.draft.cps : c.draft.cps[j] = file[c.draft.id].cps[k]
    /\ c.mutator.op = "approved" =>
         plan[c.mutator.plan].progress # 0 /\ plan[c.mutator.plan].session = c.draft.id
    /\ c.mutator.op = "checkpoint" =>
         /\ snap[c.mutator.snap] # "none"
         /\ c.pc \notin {"lock", "read"} =>
              \E k \in DOMAIN c.draft.cps : c.draft.cps[k].snap = c.mutator.snap
    /\ c.then = "restore" => c.mutator \in Guarding
\* A restore holds its safety checkpoint.
RestoreOK(p) == LET c == call[p] IN c \in RestoreCall =>
    snap[c.safety] # "none" /\ \E k \in DOMAIN mem[p].cps : mem[p].cps[k].snap = c.safety
\* A plan belongs to one session, that of the call which writes it, and progress is
\* seeded before an approval.
PlanOK(p) == LET c == call[p] IN c \in PlanCall =>
    /\ c.next.session = mem[p].id /\ mem[p].id # 0 /\ c.next.status # "none" /\ c.next.text # 0
    /\ c.plan <= made.plan
    /\ plan[c.plan].status # "none" => plan[c.plan].session = mem[p].id
    /\ c.pc = "planMd" => plan[c.plan].status # "none"
    /\ c.op = "approved" => plan[c.plan].progress # 0
SeedOK(p) == LET c == call[p] IN c \in SeedCall =>
    /\ c.text # 0 /\ plan[c.plan].status # "none"
    /\ c.pc = "review" => plan[c.plan].progress # 0
    /\ c.pc = "review" \/ c.then = "review" =>
         plan[c.plan].session = mem[p].id /\ mem[p].id # 0
OwnInv(p) == MemOK(p) /\ SaveOK(p) /\ Mutates(p) /\ RestoreOK(p) /\ PlanOK(p) /\ SeedOK(p)

\* Ids are drawn once: one call writes the first file of a session, and one the
\* first plan.json of a plan.
UniqueInv ==
    /\ \A p, q \in Proc :
         /\ call[p] \in SaveCall /\ call[q] \in SaveCall
         /\ call[p].draft.id = call[q].draft.id /\ ~Written(call[p].draft.id, file)
         => p = q
    /\ \A p, q \in Proc :
         /\ call[p] \in PlanCall /\ call[q] \in PlanCall
         /\ call[p].plan = call[q].plan /\ plan[call[p].plan].status = "none"
         => p = q

FilesInv == FilesTyped /\ FilesOK /\ PlansOK /\ (\A p \in Proc : OwnInv(p)) /\ UniqueInv

\* Until state.json names a session, nobody but ensureSession knows the id that a
\* legacy session keeps, and its file is what the legacy session becomes: a second
\* attempt of ensureSession, after a failed one, writes what is there.
Clear(p) ==
    /\ mem[p].id # 1
    /\ call[p] \in SaveCall =>
         /\ call[p].pc # "writeIndex"
         /\ call[p].draft.id = 1 => call[p].lock = "w" /\ call[p].draft = Own
Attempts(p) == call[p] \in SaveCall /\ call[p].lock = "w" /\ call[p].pc = "write"
LegacyInv ==
    /\ \A p \in Proc : Attempts(p) =>
         \/ ~Written(call[p].draft.id, file)
         \/ legacy = "own" /\ ws.active = 0 /\ call[p].draft = Own
    /\ legacy = "own" =>
         /\ 1 <= made.session /\ snap[1] # "none"
         /\ ws.active = 0 => /\ ws.recent = <<>> /\ (Written(1, file) => file[1] = Own)
                             /\ \A p \in Proc : Clear(p)

\* ---- sequences ---------------------------------------------------------------

Differ(r) == \A i, j \in DOMAIN r : r[i] = r[j] => i = j

\* A sequence without its k-th entry.
LEMMA Removing ==
  ASSUME NEW S, NEW r \in Seq(S), NEW k \in 1..Len(r)
  PROVE  /\ RemoveAt(r, k) \in Seq(S) /\ DOMAIN RemoveAt(r, k) = 1..(Len(r) - 1)
         /\ Len(RemoveAt(r, k)) = Len(r) - 1
         /\ \A i \in 1..(Len(r) - 1) : i < k => RemoveAt(r, k)[i] = r[i]
         /\ \A i \in 1..(Len(r) - 1) : i >= k => RemoveAt(r, k)[i] = r[i + 1]
<1>0. PICK n \in Nat : n = Len(r) /\ k \in 1..n
  BY LenProperties
<1> DEFINE a == SubSeq(r, 1, k - 1)
           b == SubSeq(r, k + 1, n)
<1>1. \A i \in 1..n : r[i] \in S
  BY <1>0, ElementOfSeq
<1>2. a \in Seq(S) /\ Len(a) = k - 1 /\ \A i \in 1..(k - 1) : a[i] = r[i]
  <2>1. \A i \in 1..(k - 1) : r[i] \in S
    BY <1>0, <1>1
  <2>2. /\ SubSeq(r, 1, k - 1) \in Seq(S)
        /\ Len(SubSeq(r, 1, k - 1)) = IF 1 <= k - 1 THEN (k - 1) - 1 + 1 ELSE 0
        /\ \A i \in 1 .. (k - 1) - 1 + 1 : SubSeq(r, 1, k - 1)[i] = r[1 + i - 1]
    BY <1>0, <2>1, SubSeqProperties
  <2> QED
    BY <1>0, <2>2
<1>3. b \in Seq(S) /\ Len(b) = n - k /\ \A i \in 1..(n - k) : b[i] = r[k + i]
  <2>1. \A i \in (k + 1)..n : r[i] \in S
    BY <1>0, <1>1
  <2>2. /\ SubSeq(r, k + 1, n) \in Seq(S)
        /\ Len(SubSeq(r, k + 1, n)) = IF k + 1 <= n THEN n - (k + 1) + 1 ELSE 0
        /\ \A i \in 1 .. n - (k + 1) + 1 : SubSeq(r, k + 1, n)[i] = r[(k + 1) + i - 1]
    BY <1>0, <2>1, SubSeqProperties
  <2>3. n - (k + 1) + 1 = n - k
    BY <1>0
  <2>4. \A i \in 1..(n - k) : (k + 1) + i - 1 = k + i
    BY <1>0
  <2>5. \A i \in 1..(n - k) : b[i] = r[k + i]
    BY <2>2, <2>3, <2>4
  <2> QED
    BY <1>0, <2>2, <2>5
<1>4. RemoveAt(r, k) = a \o b
  BY <1>0 DEF RemoveAt
<1> HIDE DEF a, b
<1>5. /\ a \o b \in Seq(S) /\ Len(a \o b) = Len(a) + Len(b)
      /\ \A i \in 1 .. Len(a) + Len(b) : (a \o b)[i] = IF i <= Len(a) THEN a[i] ELSE b[i - Len(a)]
  BY <1>2, <1>3, ConcatProperties
<1>6. Len(a) + Len(b) = n - 1
  BY <1>0, <1>2, <1>3
<1>7. DOMAIN (a \o b) = 1..(n - 1)
  BY <1>0, <1>5, <1>6, LenProperties
<1>8. ASSUME NEW i \in 1..(n - 1), i < k PROVE (a \o b)[i] = r[i]
  <2>1. i \in 1..(k - 1) /\ i <= Len(a)
    BY <1>0, <1>2, <1>8
  <2> QED
    BY <1>0, <1>2, <1>5, <1>6, <2>1
<1>9. ASSUME NEW i \in 1..(n - 1), i >= k PROVE (a \o b)[i] = r[i + 1]
  <2>1. ~(i <= Len(a)) /\ i - Len(a) \in 1..(n - k) /\ k + (i - Len(a)) = i + 1
    BY <1>0, <1>2, <1>9
  <2>2. (a \o b)[i] = b[i - Len(a)]
    BY <1>0, <1>5, <1>6, <2>1
  <2> QED
    BY <1>3, <2>1, <2>2
<1> QED
  BY <1>0, <1>4, <1>5, <1>6, <1>7, <1>8, <1>9

\* Dropping an entry of a sequence of different ones leaves the others.
LEMMA Dropping ==
  ASSUME NEW r \in Seq(Sid), Differ(r), NEW id \in Sid
  PROVE  /\ dropped(r, id) \in Seq(Sid) /\ Differ(dropped(r, id))
         /\ Len(dropped(r, id)) <= Len(r)
         /\ \A i \in DOMAIN dropped(r, id) :
              dropped(r, id)[i] # id /\ \E j \in DOMAIN r : dropped(r, id)[i] = r[j]
         /\ \A j \in DOMAIN r : r[j] # id => \E i \in DOMAIN dropped(r, id) : dropped(r, id)[i] = r[j]
<1>1. CASE id \notin Range(r)
  BY <1>1 DEF dropped, Range
<1>2. CASE id \in Range(r)
  <2>0. PICK n \in Nat : n = Len(r) /\ DOMAIN r = 1..n
    BY LenProperties
  <2>1. PICK k \in 1..n : r[k] = id /\ dropped(r, id) = RemoveAt(r, k)
    BY <1>2, <2>0 DEF Range, dropped
  <2>2. PICK d : d = RemoveAt(r, k)
    OBVIOUS
  <2>3. /\ d \in Seq(Sid) /\ DOMAIN d = 1..(n - 1) /\ Len(d) = n - 1
        /\ \A i \in 1..(n - 1) : i < k => d[i] = r[i]
        /\ \A i \in 1..(n - 1) : i >= k => d[i] = r[i + 1]
    <3>1. /\ RemoveAt(r, k) \in Seq(Sid) /\ DOMAIN RemoveAt(r, k) = 1..(n - 1)
          /\ Len(RemoveAt(r, k)) = n - 1
          /\ \A i \in 1..(n - 1) : i < k => RemoveAt(r, k)[i] = r[i]
          /\ \A i \in 1..(n - 1) : i >= k => RemoveAt(r, k)[i] = r[i + 1]
      <4>1. n = Len(r) /\ k \in 1..Len(r)
        BY <2>0, <2>1
      <4> QED
        BY <4>1, Removing
    <3> QED
      BY <2>2, <3>1
  <2>4. ASSUME NEW i \in 1..(n - 1)
        PROVE  \E m \in 1..n : m # k /\ d[i] = r[m] /\ m = (IF i < k THEN i ELSE i + 1)
    <3>1. CASE i < k
      BY <2>3, <3>1
    <3>2. CASE i >= k
      <4>1. i + 1 \in 1..n /\ i + 1 # k /\ ~(i < k)
        BY <3>2
      <4> QED
        BY <2>3, <3>2, <4>1
    <3> QED
      BY <3>1, <3>2
  <2>5. ASSUME NEW j \in 1..n, r[j] # id PROVE \E i \in 1..(n - 1) : d[i] = r[j]
    <3>1. CASE j < k
      <4>1. j \in 1..(n - 1)
        BY <3>1
      <4> QED
        BY <2>3, <3>1, <4>1
    <3>2. CASE j > k
      <4>1. j - 1 \in 1..(n - 1) /\ j - 1 >= k /\ (j - 1) + 1 = j
        BY <3>2
      <4> QED
        BY <2>3, <4>1
    <3> QED
      BY <2>1, <2>5, <3>1, <3>2
  <2>6. ASSUME NEW i \in 1..(n - 1), NEW j \in 1..(n - 1), d[i] = d[j] PROVE i = j
    <3>1. PICK m \in 1..n : m # k /\ d[i] = r[m] /\ m = (IF i < k THEN i ELSE i + 1)
      BY <2>4
    <3>2. PICK o \in 1..n : o # k /\ d[j] = r[o] /\ o = (IF j < k THEN j ELSE j + 1)
      BY <2>4
    <3>3. m = o
      BY <2>0, <2>6, <3>1, <3>2 DEF Differ
    <3> QED
      BY <3>1, <3>2, <3>3
  <2>7. \A i \in 1..(n - 1) : d[i] # id /\ \E j \in DOMAIN r : d[i] = r[j]
    BY <2>0, <2>1, <2>4 DEF Differ
  <2>8. Differ(d) /\ n - 1 <= n
    BY <2>3, <2>6 DEF Differ
  <2>9. dropped(r, id) = d /\ Len(d) <= Len(r)
    BY <2>0, <2>1, <2>2, <2>3
  <2> HIDE DEF dropped
  <2>10. \A j \in DOMAIN r : r[j] # id => \E i \in DOMAIN d : d[i] = r[j]
    BY <2>0, <2>3, <2>5
  <2> QED
    BY <2>3, <2>7, <2>8, <2>9, <2>10
<1> QED
  BY <1>1, <1>2

\* state.json with a session recorded in it.
LEMMA Recording ==
  ASSUME SessionConstants, NEW w \in StateRow, NEW f, Recent(w, f), NEW id \in Sid, Written(id, f),
         NEW migrated \in BOOLEAN
  PROVE  /\ recorded(w, id, migrated) \in StateRow /\ recorded(w, id, migrated).active = id
         /\ Recent(recorded(w, id, migrated), f) /\ Kept(recorded(w, id, migrated), w)
<1> DEFINE v == w.recent
           d == dropped(v, id)
           r == <<id>> \o d
           n == IF Len(r) < RecentMax THEN Len(r) ELSE RecentMax
           s == SubSeq(r, 1, n)
<1>0. /\ v \in Seq(Sid) /\ Len(v) \in Nat /\ DOMAIN v = 1..Len(v) /\ Differ(v) /\ Len(v) <= RecentMax
      /\ \A i \in DOMAIN v : Written(v[i], f)
  BY LenProperties DEF StateRow, Recent, Differ
<1>1. /\ d \in Seq(Sid) /\ Differ(d) /\ Len(d) \in Nat /\ DOMAIN d = 1..Len(d) /\ Len(d) <= Len(v)
      /\ \A i \in DOMAIN d : d[i] # id /\ \E j \in DOMAIN v : d[i] = v[j]
      /\ \A j \in DOMAIN v : v[j] # id => \E i \in DOMAIN d : d[i] = v[j]
  BY <1>0, Dropping, LenProperties
<1> HIDE DEF d
<1>2. /\ r \in Seq(Sid) /\ Len(r) = Len(d) + 1 /\ r[1] = id
      /\ \A i \in 1..Len(d) : r[i + 1] = d[i]
  <2>1. <<id>> \in Seq(Sid) /\ Len(<<id>>) = 1 /\ <<id>>[1] = id
    OBVIOUS
  <2>2. /\ <<id>> \o d \in Seq(Sid) /\ Len(<<id>> \o d) = Len(<<id>>) + Len(d)
        /\ \A i \in 1 .. Len(<<id>>) + Len(d) : (<<id>> \o d)[i] = IF i <= Len(<<id>>) THEN <<id>>[i] ELSE d[i - Len(<<id>>)]
    BY <1>1, <2>1, ConcatProperties
  <2>3. ASSUME NEW i \in 1..Len(d) PROVE r[i + 1] = d[i]
    <3>1. i + 1 \in 1 .. Len(<<id>>) + Len(d) /\ ~(i + 1 <= Len(<<id>>)) /\ i + 1 - Len(<<id>>) = i
      BY <1>1, <2>1
    <3> QED
      BY <2>2, <3>1
  <2> QED
    BY <1>1, <2>1, <2>2, <2>3
<1> HIDE DEF r
<1>3. n \in 1..Len(r) /\ n <= RecentMax
  BY <1>1, <1>2 DEF SessionConstants
<1>3a. Len(v) < RecentMax => n = Len(r)
  BY <1>0, <1>1, <1>2 DEF SessionConstants
<1>3b. RecentMax \in Nat
  BY DEF SessionConstants
<1> HIDE DEF n
<1>4. s \in Seq(Sid) /\ Len(s) = n /\ DOMAIN s = 1..n /\ \A i \in 1..n : s[i] = r[i]
  <2>1. \A i \in 1..n : r[i] \in Sid
    BY <1>2, <1>3, LenProperties, ElementOfSeq
  <2>2. n \in Int
    BY <1>1, <1>2, <1>3
  <2>3. /\ SubSeq(r, 1, n) \in Seq(Sid)
        /\ Len(SubSeq(r, 1, n)) = IF 1 <= n THEN n - 1 + 1 ELSE 0
        /\ \A i \in 1..(n - 1 + 1) : SubSeq(r, 1, n)[i] = r[1 + i - 1]
    BY <2>1, <2>2, SubSeqProperties
  <2>4. DOMAIN SubSeq(r, 1, n) = 1..Len(SubSeq(r, 1, n))
    BY <2>3, LenProperties
  <2> QED
    BY <1>1, <1>2, <1>3, <2>2, <2>3, <2>4
<1> HIDE DEF s
<1>5. ASSUME NEW i \in 1..n PROVE s[i] = id \/ (i > 1 /\ i - 1 \in DOMAIN d /\ s[i] = d[i - 1])
  <2>1. CASE i = 1
    <3>1. s[1] = r[1] /\ r[1] = id
      BY <1>2, <1>4, <2>1
    <3> QED
      BY <2>1, <3>1
  <2>2. CASE i > 1
    <3>1. i - 1 \in 1..Len(d) /\ (i - 1) + 1 = i
      BY <1>1, <1>2, <1>3, <2>2
    <3>2. r[i] = d[i - 1]
      BY <1>2, <3>1
    <3> QED
      BY <1>1, <1>4, <2>2, <3>1, <3>2
  <2> QED
    BY <1>3, <2>1, <2>2
<1>6. s # <<>> /\ s[1] = id
  BY <1>2, <1>3, <1>4, EmptySeq
<1>7. recorded(w, id, migrated) = [active |-> id, recent |-> s, migrated |-> w.migrated \/ migrated]
  BY DEF recorded, s, n, r, d
<1>8. \A i \in DOMAIN s : Written(s[i], f)
  <2> SUFFICES ASSUME NEW i \in 1..n PROVE Written(s[i], f)
    BY <1>4
  <2>1. CASE s[i] = id
    BY <2>1
  <2>2. CASE i > 1 /\ i - 1 \in DOMAIN d /\ s[i] = d[i - 1]
    <3>1. PICK j \in DOMAIN v : d[i - 1] = v[j]
      BY <1>1, <2>2
    <3>2. s[i] = v[j] /\ Written(v[j], f)
      BY <1>0, <2>2, <3>1
    <3> QED
      BY <3>2
  <2> QED
    BY <1>5, <2>1, <2>2
<1>9. \A i, j \in DOMAIN s : s[i] = s[j] => i = j
  <2> SUFFICES ASSUME NEW i \in 1..n, NEW j \in 1..n, s[i] = s[j] PROVE i = j
    BY <1>4
  <2>1. CASE i = 1
    <3>1. CASE j > 1
      <4>1. j - 1 \in 1..Len(d) /\ (j - 1) + 1 = j
        BY <1>1, <1>2, <1>3, <3>1
      <4>2. s[j] = d[j - 1] /\ d[j - 1] # id
        BY <1>1, <1>2, <1>4, <4>1
      <4> QED
        BY <1>6, <2>1, <4>2
    <3> QED
      BY <1>3, <2>1, <3>1
  <2>2. CASE j = 1
    <3>1. CASE i > 1
      <4>1. i - 1 \in 1..Len(d) /\ (i - 1) + 1 = i
        BY <1>1, <1>2, <1>3, <3>1
      <4>2. s[i] = d[i - 1] /\ d[i - 1] # id
        BY <1>1, <1>2, <1>4, <4>1
      <4> QED
        BY <1>6, <2>2, <4>2
    <3> QED
      BY <1>3, <2>2, <3>1
  <2>3. CASE i > 1 /\ j > 1
    <3>1. /\ i - 1 \in 1..Len(d) /\ (i - 1) + 1 = i
          /\ j - 1 \in 1..Len(d) /\ (j - 1) + 1 = j
      BY <1>1, <1>2, <1>3, <2>3
    <3>2. d[i - 1] = d[j - 1]
      BY <1>2, <1>4, <3>1
    <3>3. i - 1 = j - 1
      BY <1>1, <3>1, <3>2 DEF Differ
    <3> QED
      BY <3>3
  <2> QED
    BY <1>3, <2>1, <2>2, <2>3
<1>10. recorded(w, id, migrated) \in StateRow
  <2>1. id \in 0..MaxSession
    BY DEF Sid, SessionConstants
  <2> QED
    BY <1>4, <1>7, <2>1 DEF StateRow
<1>11. Recent(recorded(w, id, migrated), f)
  BY <1>3, <1>3b, <1>4, <1>6, <1>7, <1>8, <1>9 DEF Recent
<1>12. Kept(recorded(w, id, migrated), w)
  <2> SUFFICES ASSUME NEW i \in DOMAIN v, Len(v) # RecentMax PROVE \E j \in DOMAIN s : s[j] = v[i]
    BY <1>7 DEF Kept
  <2>1. n = Len(r)
    BY <1>0, <1>3a, <1>3b
  <2>2. CASE v[i] = id
    BY <1>3, <1>4, <1>6, <2>2
  <2>3. CASE v[i] # id
    <3>1. PICK k \in DOMAIN d : d[k] = v[i]
      BY <1>1, <2>3
    <3>2. k \in 1..Len(d)
      BY <1>1
    <3>3. k + 1 \in 1..n
      <4>1. Len(d) \in Nat /\ n = Len(d) + 1
        BY <1>1, <1>2, <2>1
      <4> QED
        BY <3>2, <4>1
    <3>4. r[k + 1] = d[k]
      BY <1>2, <3>2
    <3> QED
      BY <1>4, <3>1, <3>3, <3>4
  <2> QED
    BY <2>2, <2>3
<1> QED
  BY <1>7, <1>10, <1>11, <1>12

\* ---- sessions ----------------------------------------------------------------

\* A session that is made is sound, ...
LEMMA Created ==
  ASSUME SessionConstants, NEW id \in Sid, NEW sn, NEW pl
  PROVE  /\ createSession(id) \in SessionRow /\ createSession(id).id = id
         /\ Sound(createSession(id), sn, pl)
         /\ migrateLegacySession(id) \in SessionRow /\ migrateLegacySession(id).id = id
         /\ Sound(migrateLegacySession(id), sn, pl)
<1>1. id \in 0..MaxSession /\ id # 0 /\ 0 \in 0..MaxPlan /\ <<>> \in Seq(CheckpointRow)
  BY DEF SessionConstants, Sid
<1>2. createSession(id) = [id |-> id, recs |-> 0, cps |-> <<>>, active |-> 0, approved |-> 0]
  BY DEF createSession, NoSession
<1>3. migrateLegacySession(id) = [id |-> id, recs |-> 1, cps |-> <<>>, active |-> 0, approved |-> 0]
  BY <1>2 DEF migrateLegacySession
<1>4. DOMAIN <<>> = {}
  OBVIOUS
<1>5. createSession(id) \in SessionRow /\ migrateLegacySession(id) \in SessionRow
  BY <1>1, <1>2, <1>3 DEF SessionRow
<1> QED
  BY <1>1, <1>2, <1>3, <1>4, <1>5 DEF Sound

\* ... that of a legacy file with its own id is when its checkpoint is there, ...
LEMMA OwnCreated ==
  ASSUME SessionConstants, NEW sn, NEW pl, sn[1] # "none"
  PROVE  Own \in SessionRow /\ Own.id = 1 /\ 1 \in Sid /\ Sound(Own, sn, pl)
<1>1. 1 \in Sid /\ 1 \in Wid /\ 1 \in 0..MaxSession /\ 0 \in 0..MaxPlan
  BY DEF SessionConstants, Sid, Wid
<1> DEFINE cps == <<[at |-> 1, snap |-> 1]>>
<1>2. Own = [id |-> 1, recs |-> 1, cps |-> cps, active |-> 0, approved |-> 0]
  <2>1. createSession(1) = [id |-> 1, recs |-> 0, cps |-> <<>>, active |-> 0, approved |-> 0]
    BY DEF createSession, NoSession
  <2>2. migrateLegacySession(1) = [id |-> 1, recs |-> 1, cps |-> <<>>, active |-> 0, approved |-> 0]
    BY <2>1 DEF migrateLegacySession
  <2> QED
    BY <2>2 DEF Own
<1>3. [at |-> 1, snap |-> 1] \in CheckpointRow
  BY <1>1 DEF CheckpointRow
<1>4. cps \in Seq(CheckpointRow) /\ DOMAIN cps = {1} /\ cps[1].at = 1 /\ cps[1].snap = 1
  BY <1>3
<1> HIDE DEF cps
<1>5. Own \in SessionRow
  BY <1>1, <1>2, <1>4 DEF SessionRow
<1>6. Sound(Own, sn, pl)
  BY <1>2, <1>4 DEF Sound
<1> QED
  BY <1>1, <1>2, <1>5, <1>6

\* ... one that has a record more is, ...
LEMMA Appending ==
  ASSUME NEW s \in SessionRow, NEW sn, NEW pl, Sound(s, sn, pl)
  PROVE  /\ [s EXCEPT !.recs = @ + 1] \in SessionRow /\ [s EXCEPT !.recs = @ + 1].id = s.id
         /\ Sound([s EXCEPT !.recs = @ + 1], sn, pl)
<1> DEFINE t == [s EXCEPT !.recs = @ + 1]
<1>1. /\ t \in SessionRow /\ t.id = s.id /\ t.recs = s.recs + 1 /\ t.cps = s.cps
      /\ t.active = s.active /\ t.approved = s.approved
  BY DEF SessionRow
<1>2. s.recs \in Nat /\ s.cps \in Seq(CheckpointRow)
  BY DEF SessionRow
<1>3. \A k \in DOMAIN s.cps : s.cps[k].at \in Nat
  <2>1. \A k \in DOMAIN s.cps : s.cps[k] \in CheckpointRow
    BY <1>2, LenProperties, ElementOfSeq
  <2> QED
    BY <2>1 DEF CheckpointRow
<1> HIDE DEF t
<1>4. Sound(t, sn, pl)
  BY <1>1, <1>2, <1>3 DEF Sound
<1> QED
  BY <1>1, <1>4 DEF t

\* ... a fork of one up to a checkpoint is, ...
LEMMA Forking ==
  ASSUME SessionConstants, NEW s \in SessionRow, NEW id \in Sid, NEW k \in DOMAIN s.cps,
         NEW sn, NEW pl, Sound(s, sn, pl)
  PROVE  /\ forked(s, id, k) \in SessionRow /\ forked(s, id, k).id = id
         /\ Sound(forked(s, id, k), sn, pl)
<1> DEFINE c == SubSeq(s.cps, 1, k)
<1>0. PICK n \in Nat : n = Len(s.cps) /\ DOMAIN s.cps = 1..n /\ s.cps \in Seq(CheckpointRow)
  BY LenProperties DEF SessionRow
<1>1. k \in 1..n /\ \A i \in 1..n : s.cps[i] \in CheckpointRow
  BY <1>0, ElementOfSeq
<1>2. c \in Seq(CheckpointRow) /\ DOMAIN c = 1..k /\ \A i \in 1..k : c[i] = s.cps[i]
  <2>1. \A i \in 1..k : s.cps[i] \in CheckpointRow
    BY <1>0, <1>1
  <2>2. /\ SubSeq(s.cps, 1, k) \in Seq(CheckpointRow)
        /\ Len(SubSeq(s.cps, 1, k)) = IF 1 <= k THEN k - 1 + 1 ELSE 0
        /\ \A i \in 1 .. k - 1 + 1 : SubSeq(s.cps, 1, k)[i] = s.cps[1 + i - 1]
    BY <1>0, <1>1, <2>1, SubSeqProperties
  <2>3. DOMAIN SubSeq(s.cps, 1, k) = 1..Len(SubSeq(s.cps, 1, k))
    BY <2>2, LenProperties
  <2> QED
    BY <1>0, <1>1, <2>2, <2>3
<1> HIDE DEF c
<1>3. id \in 0..MaxSession /\ id # 0 /\ 0 \in 0..MaxPlan
  BY DEF SessionConstants, Sid
<1>6. s.cps[k].at \in Nat
  BY <1>1 DEF CheckpointRow
<1>4. PICK t \in SessionRow : /\ t = forked(s, id, k) /\ t.id = id /\ t.recs = s.cps[k].at
                              /\ t.cps = c /\ t.approved = 0
  <2>1. PICK b \in SessionRow : /\ b = createSession(id) /\ b.id = id /\ b.approved = 0
    BY <1>3, Created DEF createSession, NoSession
  <2>2. forked(s, id, k) = [b EXCEPT !.recs = s.cps[k].at, !.cps = c]
    BY <2>1 DEF forked, c
  <2> QED
    BY <1>2, <1>6, <2>1, <2>2 DEF SessionRow
<1>5. \A i \in 1..k : c[i].snap = s.cps[i].snap /\ c[i].at = s.cps[i].at
  BY <1>2
<1>8. \A i \in 1..k : i \in 1..n /\ i <= k
  BY <1>0, <1>1
<1>9. \A i \in 1..k : sn[c[i].snap] # "none" /\ c[i].at <= s.cps[k].at
  BY <1>0, <1>1, <1>5, <1>8 DEF Sound
<1>10. \A i, j \in 1..k : i <= j => c[i].at <= c[j].at
  BY <1>0, <1>5, <1>8 DEF Sound
<1>11. Sound(t, sn, pl)
  BY <1>2, <1>3, <1>4, <1>9, <1>10 DEF Sound
<1> QED
  BY <1>4, <1>11

\* ... and so is one that a mutator has changed; it keeps the checkpoints it had.
LEMMA Mutating ==
  ASSUME SessionConstants, NEW m \in Mutator, m.op # "none", NEW s \in SessionRow, s.id # 0,
         NEW sn, NEW pl, Sound(s, sn, pl),
         m.op = "checkpoint" => sn[m.snap] # "none",
         m.op = "approved" => pl[m.plan].progress # 0 /\ pl[m.plan].session = s.id
  PROVE  /\ mutated(m, s) \in SessionRow /\ mutated(m, s).id = s.id
         /\ Sound(mutated(m, s), sn, pl)
         /\ \A k \in DOMAIN s.cps : \E j \in DOMAIN mutated(m, s).cps : mutated(m, s).cps[j] = s.cps[k]
         /\ m.op = "checkpoint" => \E k \in DOMAIN mutated(m, s).cps : mutated(m, s).cps[k].snap = m.snap
<1>0. PICK n \in Nat : n = Len(s.cps) /\ DOMAIN s.cps = 1..n /\ s.cps \in Seq(CheckpointRow)
  BY LenProperties DEF SessionRow
<1>1. CASE m.op = "checkpoint"
  <2> DEFINE e == [at |-> s.recs, snap |-> m.snap]
             c == Append(s.cps, e)
  <2>1. mutated(m, s) = [s EXCEPT !.cps = c]
    BY <1>1 DEF mutated
  <2>2. m.snap \in Wid /\ s.recs \in Nat
    BY <1>1 DEF Mutator, Plain, Checkpointing, Guarding, Planning, SessionRow
  <2>3. e \in CheckpointRow /\ e.at = s.recs /\ e.snap = m.snap
    BY <2>2 DEF CheckpointRow
  <2> HIDE DEF e
  <2>4. /\ c \in Seq(CheckpointRow) /\ DOMAIN c = 1..(n + 1) /\ c[n + 1] = e
        /\ \A i \in 1..n : c[i] = s.cps[i]
    BY <1>0, <2>3, AppendProperties, LenProperties
  <2> HIDE DEF c, mutated
  <2>5. PICK t \in SessionRow : /\ t = mutated(m, s) /\ t.id = s.id /\ t.recs = s.recs /\ t.cps = c
                                /\ t.active = s.active /\ t.approved = s.approved
    BY <2>1, <2>4 DEF SessionRow
  <2>6. \A i \in 1..n : i \in 1..(n + 1) /\ i # n + 1 /\ c[i].at = s.cps[i].at /\ c[i].snap = s.cps[i].snap
    BY <2>4
  <2>7. n + 1 \in 1..(n + 1) /\ c[n + 1].at = s.recs /\ c[n + 1].snap = m.snap
    BY <2>3, <2>4
  <2>8. \A i \in 1..(n + 1) : i \in 1..n \/ i = n + 1
    OBVIOUS
  <2>9. \A i \in 1..(n + 1) : sn[c[i].snap] # "none" /\ c[i].at <= s.recs
    BY <1>0, <1>1, <2>2, <2>6, <2>7, <2>8 DEF Sound
  <2>10. ASSUME NEW i \in 1..(n + 1), NEW j \in 1..(n + 1), i <= j PROVE c[i].at <= c[j].at
    <3>1. CASE j = n + 1
      BY <2>7, <2>9, <3>1
    <3>2. CASE j # n + 1
      <4>1. i \in 1..n /\ j \in 1..n
        BY <2>10, <3>2
      <4> QED
        BY <1>0, <2>6, <2>10, <4>1 DEF Sound
    <3> QED
      BY <3>1, <3>2
  <2>11. Sound(t, sn, pl)
    BY <2>4, <2>5, <2>9, <2>10 DEF Sound
  <2> QED
    BY <1>0, <2>4, <2>5, <2>6, <2>7, <2>11
<1>2. CASE m.op \in {"open", "approved", "declined"}
  <2>1. m.plan \in Pid /\ 0 \in 0..MaxPlan /\ Pid \subseteq 0..MaxPlan
    BY <1>2 DEF Mutator, Plain, Checkpointing, Guarding, Planning, Pid, SessionConstants
  <2>2. PICK t \in SessionRow : /\ t = mutated(m, s) /\ t.id = s.id /\ t.recs = s.recs /\ t.cps = s.cps
                                /\ t.approved # 0 => \/ t.approved = s.approved
                                                     \/ m.op = "approved" /\ t.approved = m.plan
    <3>1. CASE m.op = "open"
      <4>1. mutated(m, s) = [s EXCEPT !.active = m.plan, !.approved = 0]
        BY <3>1 DEF mutated
      <4> HIDE DEF mutated
      <4> QED
        BY <2>1, <3>1, <4>1 DEF SessionRow
    <3>2. CASE m.op = "approved"
      <4>1. mutated(m, s) = [s EXCEPT !.approved = m.plan, !.active = IF @ = m.plan THEN 0 ELSE @]
        BY <3>2 DEF mutated
      <4> HIDE DEF mutated
      <4> QED
        BY <2>1, <3>2, <4>1 DEF SessionRow
    <3>3. CASE m.op = "declined"
      <4>1. mutated(m, s) = [s EXCEPT !.approved = IF @ = m.plan THEN 0 ELSE @,
                                      !.active = IF @ = m.plan THEN 0 ELSE @]
        BY <3>3 DEF mutated
      <4> HIDE DEF mutated
      <4> QED
        BY <2>1, <3>3, <4>1 DEF SessionRow
    <3> QED
      BY <1>2, <3>1, <3>2, <3>3
  <2> HIDE DEF mutated
  <2>3. Sound(t, sn, pl)
    BY <2>2 DEF Sound
  <2> QED
    BY <1>2, <2>2, <2>3
<1>3. m.op \in {"none", "checkpoint", "open", "approved", "declined"}
  BY DEF Mutator, Plain, Checkpointing, Guarding, Planning
<1> QED
  BY <1>1, <1>2, <1>3

\* ---- what a step of one process leaves to the others -----------------------------

LEMMA Kinds ==
  ASSUME NEW c \in Call
  PROVE  /\ c.pc = "idle" => c = Idle
         /\ c.pc \in Saves <=> c \in SaveCall
         /\ c.pc \in {"planLock", "planMd"} <=> c \in PlanCall
         /\ c.pc \in {"seed", "review"} <=> c \in SeedCall
         /\ c.pc \in {"restore", "restored"} <=> c \in RestoreCall
<1>1. c = Idle => c.pc = "idle"
  BY DEF Idle
<1>2. c \in SaveCall => c.pc \in Saves
  BY DEF SaveCall
<1>3. c \in PlanCall => c.pc \in {"planLock", "planMd"}
  BY DEF PlanCall
<1>4. c \in SeedCall => c.pc \in {"seed", "review"}
  BY DEF SeedCall
<1>5. c \in RestoreCall => c.pc \in {"restore", "restored"}
  BY DEF RestoreCall
<1>6. c = Idle \/ c \in SaveCall \/ c \in PlanCall \/ c \in SeedCall \/ c \in RestoreCall
  BY DEF Call
<1> QED
  BY <1>1, <1>2, <1>3, <1>4, <1>5, <1>6 DEF Saves, Named

LEMMA IdleIsNone ==
  Idle \in Call /\ Idle \notin SaveCall /\ Idle \notin PlanCall /\ Idle \notin SeedCall
    /\ Idle \notin RestoreCall
<1>1. Idle \in Call /\ Idle.pc = "idle"
  BY DEF Call, Idle
<1> QED
  BY <1>1, Kinds DEF Saves, Named

\* What is there stays there, and belongs to whom it belonged.
Grows ==
    /\ \A s \in Sid : file[s].id = s => file'[s].id = s
    /\ \A w \in Wid : snap[w] # "none" => snap'[w] # "none"
    /\ \A i \in Pid : /\ plan[i].progress # 0 => plan'[i].progress # 0
                      /\ plan[i].status # "none" => /\ plan'[i].status # "none"
                                                    /\ plan'[i].session = plan[i].session
    /\ made.session <= made'.session /\ made.plan <= made'.plan

LEMMA SoundStays ==
  ASSUME SessionConstants, FilesTyped, PlansOK, Grows, NEW s \in SessionRow, Sound(s, snap, plan)
  PROVE  Sound(s, snap', plan')
<1>1. \A k \in DOMAIN s.cps : s.cps[k].snap \in Wid
  <2>1. \A k \in DOMAIN s.cps : s.cps[k] \in CheckpointRow
    BY LenProperties, ElementOfSeq DEF SessionRow
  <2> QED
    BY <2>1 DEF CheckpointRow
<1>2. s.approved # 0 => s.approved \in Pid
  BY DEF SessionRow, Pid, SessionConstants
<1>3. \A k \in DOMAIN s.cps : snap'[s.cps[k].snap] # "none" /\ s.cps[k].at <= s.recs
  BY <1>1 DEF Sound, Grows
<1>4. s.approved # 0 => plan'[s.approved].progress # 0 /\ plan'[s.approved].session = s.id
  BY <1>2 DEF Sound, Grows, PlansOK
<1> QED
  BY <1>3, <1>4 DEF Sound

LEMMA WrittenStays ==
  ASSUME Grows, NEW s, Written(s, file)
  PROVE  Written(s, file')
BY DEF Grows, Written

LEMMA RecentStays ==
  ASSUME Grows, NEW w, Recent(w, file)
  PROVE  Recent(w, file')
BY WrittenStays DEF Recent

\* The locks a process holds, the file it is about to change and the state.json it
\* has read stay with it.
Undisturbed(q) ==
    /\ call'[q] = call[q] /\ mem'[q] = mem[q]
    /\ \A s \in Sid : lockS[s] = q => lockS'[s] = q
    /\ lockW = q => lockW' = q
    /\ call[q] \in SaveCall =>
         /\ call[q].pc = "write" /\ (call[q].mutator.op # "none" \/ call[q].lock = "w") =>
              file'[call[q].draft.id] = file[call[q].draft.id]
         /\ call[q].pc = "writeState" => ws' = ws
    /\ call[q] \in PlanCall /\ plan[call[q].plan].status = "none" =>
         plan'[call[q].plan].status = "none"

LEMMA OthersStay ==
  ASSUME SessionConstants, FilesInv, FilesTyped', Grows, NEW q \in Proc, Undisturbed(q)
  PROVE  OwnInv(q)'
<1>0. PICK c \in Call : c = call[q] /\ c = call'[q]
  BY DEF FilesInv, FilesTyped, Undisturbed
<1>m. PICK m \in SessionRow : m = mem[q] /\ m = mem'[q]
  BY DEF FilesInv, FilesTyped, Undisturbed
<1>t. FilesTyped /\ PlansOK /\ OwnInv(q)
  BY DEF FilesInv
<1>1. MemOK(q)'
  <2>1. Sound(m, snap, plan) /\ (m.id # 0 => Written(m.id, file))
    BY <1>m, <1>t DEF OwnInv, MemOK
  <2>2. Sound(m, snap', plan') /\ (m.id # 0 => Written(m.id, file'))
    BY <1>t, <2>1, SoundStays, WrittenStays
  <2> QED
    BY <1>m, <2>2 DEF MemOK
<1>2. SaveOK(q)'
  <2> SUFFICES ASSUME c \in SaveCall
               PROVE  SaveOK(q)'
    BY <1>0 DEF SaveOK
  <2>1. /\ Sound(c.draft, snap, plan) /\ c.draft.id # 0 /\ c.draft.id <= made.session
        /\ c.pc \in Named => Written(c.draft.id, file)
        /\ c.lock = "w" =>
             lockW = q /\ c.mutator.op = "none" /\ c.pc \notin {"lock", "read", "lockState"}
        /\ c.lock = "s" /\ c.pc # "lock" => lockS[c.draft.id] = q
        /\ c.pc \in {"readState", "writeState", "writeIndex"} => lockW = q
        /\ c.pc = "writeState" =>
             c.state.active = c.draft.id /\ Recent(c.state, file) /\ Kept(c.state, ws)
    BY <1>0, <1>t DEF OwnInv, SaveOK
  <2>2. c.draft \in SessionRow /\ c.draft.id \in Sid
    BY <2>1 DEF SaveCall, SessionRow, Sid, SessionConstants
  <2>3. Sound(c.draft, snap', plan')
    BY <1>t, <2>1, <2>2, SoundStays
  <2>4. c.draft.id <= made'.session
    BY <1>t, <2>1, <2>2 DEF Grows, FilesTyped, Sid, SessionConstants
  <2>5. c.pc \in Named => Written(c.draft.id, file')
    BY <2>1, WrittenStays
  <2>6. c.lock = "w" => lockW' = q
    BY <2>1 DEF Undisturbed
  <2>7. c.lock = "s" /\ c.pc # "lock" => lockS'[c.draft.id] = q
    BY <2>1, <2>2 DEF Undisturbed
  <2>8. c.pc \in {"readState", "writeState", "writeIndex"} => lockW' = q
    BY <2>1 DEF Undisturbed
  <2>9. c.pc = "writeState" => Recent(c.state, file') /\ Kept(c.state, ws')
    BY <1>0, <2>1, RecentStays DEF Undisturbed
  <2> QED
    BY <1>0, <2>1, <2>3, <2>4, <2>5, <2>6, <2>7, <2>8, <2>9 DEF SaveOK
<1>3. Mutates(q)'
  <2> SUFFICES ASSUME c \in SaveCall
               PROVE  Mutates(q)'
    BY <1>0 DEF Mutates
  <2>1. /\ c.pc = "read" => c.mutator.op # "none"
        /\ c.pc = "write" /\ c.mutator.op # "none" =>
             \A k \in DOMAIN file[c.draft.id].cps :
                 \E j \in DOMAIN c.draft.cps : c.draft.cps[j] = file[c.draft.id].cps[k]
        /\ c.mutator.op = "approved" =>
             plan[c.mutator.plan].progress # 0 /\ plan[c.mutator.plan].session = c.draft.id
        /\ c.mutator.op = "checkpoint" =>
             /\ snap[c.mutator.snap] # "none"
             /\ c.pc \notin {"lock", "read"} =>
                  \E k \in DOMAIN c.draft.cps : c.draft.cps[k].snap = c.mutator.snap
        /\ c.then = "restore" => c.mutator \in Guarding
    BY <1>0, <1>t DEF OwnInv, Mutates
  <2>2. c.pc = "write" /\ c.mutator.op # "none" =>
          \A k \in DOMAIN file'[c.draft.id].cps :
              \E j \in DOMAIN c.draft.cps : c.draft.cps[j] = file'[c.draft.id].cps[k]
    BY <1>0, <2>1 DEF Undisturbed
  <2>3. c.mutator.op = "approved" =>
          plan'[c.mutator.plan].progress # 0 /\ plan'[c.mutator.plan].session = c.draft.id
    <3>1. c.mutator.op = "approved" => c.mutator.plan \in Pid
      BY DEF SaveCall, Mutator, Plain, Checkpointing, Guarding, Planning
    <3> QED
      BY <1>t, <2>1, <3>1 DEF Grows, PlansOK
  <2>4. c.mutator.op = "checkpoint" => snap'[c.mutator.snap] # "none"
    <3>1. c.mutator.op = "checkpoint" => c.mutator.snap \in Wid
      BY DEF SaveCall, Mutator, Plain, Checkpointing, Guarding, Planning
    <3> QED
      BY <2>1, <3>1 DEF Grows
  <2> QED
    BY <1>0, <2>1, <2>2, <2>3, <2>4 DEF Mutates
<1>4. RestoreOK(q)'
  <2> SUFFICES ASSUME c \in RestoreCall
               PROVE  snap'[c.safety] # "none" /\ \E k \in DOMAIN m.cps : m.cps[k].snap = c.safety
    BY <1>0, <1>m DEF RestoreOK
  <2>1. snap[c.safety] # "none" /\ \E k \in DOMAIN m.cps : m.cps[k].snap = c.safety
    BY <1>0, <1>m, <1>t DEF OwnInv, RestoreOK
  <2>2. c.safety \in Wid
    BY DEF RestoreCall
  <2> QED
    BY <2>1, <2>2 DEF Grows
<1>5. PlanOK(q)'
  <2> SUFFICES ASSUME c \in PlanCall
               PROVE  /\ c.next.session = m.id /\ m.id # 0 /\ c.next.status # "none" /\ c.next.text # 0
                      /\ c.plan <= made'.plan
                      /\ plan'[c.plan].status # "none" => plan'[c.plan].session = m.id
                      /\ c.pc = "planMd" => plan'[c.plan].status # "none"
                      /\ c.op = "approved" => plan'[c.plan].progress # 0
    BY <1>0, <1>m DEF PlanOK
  <2>1. /\ c.next.session = m.id /\ m.id # 0 /\ c.next.status # "none" /\ c.next.text # 0
        /\ c.plan <= made.plan
        /\ plan[c.plan].status # "none" => plan[c.plan].session = m.id
        /\ c.pc = "planMd" => plan[c.plan].status # "none"
        /\ c.op = "approved" => plan[c.plan].progress # 0
    BY <1>0, <1>m, <1>t DEF OwnInv, PlanOK
  <2>2. c.plan \in Pid
    BY DEF PlanCall
  <2>3. plan[c.plan].status = "none" => plan'[c.plan].status = "none"
    BY <1>0 DEF Undisturbed
  <2>4. c.plan <= made'.plan
    BY <1>t, <2>1, <2>2 DEF Grows, FilesTyped, Pid, SessionConstants
  <2> QED
    BY <2>1, <2>2, <2>3, <2>4 DEF Grows
<1>6. SeedOK(q)'
  <2> SUFFICES ASSUME c \in SeedCall
               PROVE  /\ c.text # 0 /\ plan'[c.plan].status # "none"
                      /\ c.pc = "review" => plan'[c.plan].progress # 0
                      /\ c.pc = "review" \/ c.then = "review" =>
                           plan'[c.plan].session = m.id /\ m.id # 0
    BY <1>0, <1>m DEF SeedOK
  <2>1. /\ c.text # 0 /\ plan[c.plan].status # "none"
        /\ c.pc = "review" => plan[c.plan].progress # 0
        /\ c.pc = "review" \/ c.then = "review" =>
             plan[c.plan].session = m.id /\ m.id # 0
    BY <1>0, <1>m, <1>t DEF OwnInv, SeedOK
  <2>2. c.plan \in Pid
    BY DEF SeedCall
  <2> QED
    BY <2>1, <2>2 DEF Grows
<1> QED
  BY <1>1, <1>2, <1>3, <1>4, <1>5, <1>6 DEF OwnInv

\* Ids stay with one call when the others are left alone and the process's own call
\* is about the same session and plan as before, a known one or a new one.
LEMMA UniqueStays ==
  ASSUME SessionConstants, FilesInv, FilesTyped', Grows, NEW p \in Proc,
         \A q \in Proc \ {p} : Undisturbed(q),
         call'[p] \in SaveCall =>
            \/ call[p] \in SaveCall /\ call'[p].draft.id = call[p].draft.id
            \/ Written(call'[p].draft.id, file')
            \/ call'[p].draft.id > made.session
            \/ \A q \in Proc \ {p} : call[q] \in SaveCall => call[q].draft.id # call'[p].draft.id,
         call'[p] \in PlanCall =>
            \/ call[p] \in PlanCall /\ call'[p].plan = call[p].plan
            \/ plan'[call'[p].plan].status # "none"
            \/ call'[p].plan > made.plan
  PROVE  UniqueInv'
<1>0. /\ FilesTyped /\ UniqueInv
      /\ \A q \in Proc : SaveOK(q) /\ PlanOK(q)
  BY DEF FilesInv, OwnInv
<1>1. ASSUME NEW q \in Proc, NEW r \in Proc, call'[q] \in SaveCall, call'[r] \in SaveCall,
             call'[q].draft.id = call'[r].draft.id, ~Written(call'[q].draft.id, file')
      PROVE  q = r
  <2>1. ~Written(call'[q].draft.id, file) /\ ~Written(call'[r].draft.id, file)
    BY <1>1, WrittenStays
  <2>2. ASSUME NEW o \in Proc, o # p, call'[o] \in SaveCall, call'[p] \in SaveCall,
               call'[o].draft.id = call'[p].draft.id, ~Written(call'[p].draft.id, file')
        PROVE  FALSE
    <3>1. call[o] = call'[o] /\ call[o] \in SaveCall /\ call[o].draft.id <= made.session
      BY <1>0, <2>2 DEF Undisturbed, SaveOK
    <3>2. call[o].draft.id \in 0..MaxSession /\ made.session \in 0..MaxSession
      BY <1>0, <3>1 DEF SaveCall, SessionRow, FilesTyped
    <3>3. call[p] \in SaveCall /\ call'[p].draft.id = call[p].draft.id
      BY <2>2, <3>1, <3>2 DEF SessionConstants
    <3>4. ~Written(call[o].draft.id, file)
      BY <2>2, <3>1, WrittenStays
    <3> QED
      BY <1>0, <2>2, <3>1, <3>3, <3>4 DEF UniqueInv
  <2>3. CASE q = p
    BY <1>1, <2>2, <2>3
  <2>4. CASE r = p
    BY <1>1, <2>2, <2>4
  <2>5. CASE q # p /\ r # p
    <3>1. call[q] = call'[q] /\ call[r] = call'[r]
      BY <2>5 DEF Undisturbed
    <3> QED
      BY <1>0, <1>1, <2>1, <3>1 DEF UniqueInv
  <2> QED
    BY <2>3, <2>4, <2>5
<1>2. ASSUME NEW q \in Proc, NEW r \in Proc, call'[q] \in PlanCall, call'[r] \in PlanCall,
             call'[q].plan = call'[r].plan, plan'[call'[q].plan].status = "none"
      PROVE  q = r
  <2>1. call'[q].plan \in Pid
    BY <1>2 DEF PlanCall
  <2>2. plan[call'[q].plan].status = "none"
    BY <1>2, <2>1 DEF Grows
  <2>3. ASSUME NEW o \in Proc, o # p, call'[o] \in PlanCall, call'[p] \in PlanCall,
               call'[o].plan = call'[p].plan, plan'[call'[p].plan].status = "none",
               plan[call'[p].plan].status = "none"
        PROVE  FALSE
    <3>1. call[o] = call'[o] /\ call[o] \in PlanCall /\ call[o].plan <= made.plan
      BY <1>0, <2>3 DEF Undisturbed, PlanOK
    <3>2. call[o].plan \in Pid /\ made.plan \in 0..MaxPlan
      BY <1>0, <3>1 DEF PlanCall, FilesTyped
    <3>3. call[p] \in PlanCall /\ call'[p].plan = call[p].plan
      BY <2>3, <3>1, <3>2 DEF SessionConstants, Pid
    <3> QED
      BY <1>0, <2>3, <3>1, <3>3 DEF UniqueInv
  <2>4. CASE q = p
    BY <1>2, <2>2, <2>3, <2>4
  <2>5. CASE r = p
    BY <1>2, <2>2, <2>3, <2>5
  <2>6. CASE q # p /\ r # p
    <3>1. call[q] = call'[q] /\ call[r] = call'[r]
      BY <2>6 DEF Undisturbed
    <3> QED
      BY <1>0, <1>2, <2>2, <3>1 DEF UniqueInv
  <2> QED
    BY <2>4, <2>5, <2>6
<1> QED
  BY <1>1, <1>2 DEF UniqueInv

\* ---- the first state and the steps -----------------------------------------------

LEMMA InitInv ==
  ASSUME SessionConstants, Init
  PROVE  FilesInv
<1>1. /\ 0 \in 0..MaxSession /\ 0 \in 0..MaxSnap /\ 0 \in 0..MaxPlan /\ 0 \in Nat
      /\ <<>> \in Seq(CheckpointRow) /\ <<>> \in Seq(Sid) /\ Len(<<>>) = 0 /\ DOMAIN <<>> = {}
  BY DEF SessionConstants
<1>2. NoSession \in SessionRow /\ NoSession.id = 0 /\ NoSession.cps = <<>> /\ NoSession.approved = 0
  BY <1>1 DEF NoSession, SessionRow
<1>3. NoPlan \in PlanRow /\ NoPlan.status = "none" /\ NoPlan.progress = 0
  BY <1>1 DEF NoPlan, PlanRow
<1>4. NoState \in StateRow /\ NoState.recent = <<>> /\ NoState.active = 0
  BY <1>1 DEF NoState, StateRow
<1>5. FilesTyped
  <2>1. file \in [Sid -> SessionRow] /\ \A s \in Sid : file[s].id \in {0, s}
    BY <1>2 DEF Init, Sid
  <2>2. ws \in StateRow /\ index \in 0..MaxSession /\ snap \in [Wid -> SnapPhase] /\ plan \in [Pid -> PlanRow]
    BY <1>1, <1>3, <1>4 DEF Init, Wid, Pid, SnapPhase
  <2>3. /\ lockS \in [Sid -> Proc \cup {"free"}] /\ lockW \in Proc \cup {"free"}
        /\ lockP \in [Pid -> Proc \cup {"free"}]
    BY DEF Init, Sid, Pid
  <2>4. mem \in [Proc -> SessionRow] /\ call \in [Proc -> Call]
    BY <1>2, IdleIsNone DEF Init
  <2>5. made \in [session : 0..MaxSession, snap : 0..MaxSnap, plan : 0..MaxPlan, text : Nat]
    BY <1>1 DEF Init, SessionConstants
  <2> QED
    BY <2>1, <2>2, <2>3, <2>4, <2>5 DEF FilesTyped
<1>6. Sound(NoSession, snap, plan)
  BY <1>1, <1>2 DEF Sound
<1>7. FilesOK
  <2>1. Recent(ws, file)
    BY <1>1, <1>4 DEF Recent, Init, SessionConstants
  <2> QED
    BY <1>2, <1>6, <2>1 DEF FilesOK, Init, Sid
<1>8. PlansOK
  BY <1>3 DEF PlansOK, Init, Pid
<1>9. ASSUME NEW p \in Proc PROVE OwnInv(p)
  <2>1. call[p] = Idle /\ mem[p] = NoSession
    BY DEF Init
  <2>2. MemOK(p)
    BY <1>2, <1>6, <2>1 DEF MemOK
  <2> QED
    BY <2>1, <2>2, IdleIsNone DEF OwnInv, SaveOK, Mutates, RestoreOK, PlanOK, SeedOK
<1>10. UniqueInv
  BY IdleIsNone DEF UniqueInv, Init
<1> QED
  BY <1>5, <1>7, <1>8, <1>9, <1>10 DEF FilesInv

LEMMA InitLegacy ==
  ASSUME SessionConstants, Init
  PROVE  LegacyInv
<1>1. \A p \in Proc : call[p] = Idle /\ mem[p].id = 0
  BY DEF Init, NoSession
<1>2. \A p \in Proc : Clear(p) /\ ~Attempts(p)
  BY <1>1, IdleIsNone DEF Clear, Attempts
<1>3. ws.recent = <<>> /\ ~Written(1, file)
  BY DEF Init, NoState, NoSession, Written, Sid
<1>4. legacy = "own" => 1 <= made.session /\ snap[1] # "none"
  BY DEF Init, SessionConstants
<1> QED
  BY <1>2, <1>3, <1>4 DEF LegacyInv

LEMMA KindsDiffer ==
  ASSUME NEW c \in Call
  PROVE  /\ c \in SaveCall => c \notin PlanCall /\ c \notin SeedCall /\ c \notin RestoreCall
         /\ c \in PlanCall => c \notin SaveCall /\ c \notin SeedCall /\ c \notin RestoreCall
         /\ c \in SeedCall => c \notin SaveCall /\ c \notin PlanCall /\ c \notin RestoreCall
         /\ c \in RestoreCall => c \notin SaveCall /\ c \notin PlanCall /\ c \notin SeedCall
BY Kinds DEF Saves, Named

\* A call that has ended asks for nothing but its session object.
LEMMA OwnIdle ==
  ASSUME NEW p \in Proc, call'[p] = Idle, MemOK(p)'
  PROVE  OwnInv(p)'
BY IdleIsNone DEF OwnInv, SaveOK, Mutates, RestoreOK, PlanOK, SeedOK

\* The parts of the invariant by the kind of the call.
LEMMA OwnSave ==
  ASSUME NEW p \in Proc, call'[p] \in SaveCall, MemOK(p)', SaveOK(p)', Mutates(p)'
  PROVE  OwnInv(p)'
<1>1. call'[p] \in Call
  BY DEF Call
<1> QED
  BY <1>1, KindsDiffer DEF OwnInv, RestoreOK, PlanOK, SeedOK

LEMMA OwnPlan ==
  ASSUME NEW p \in Proc, call'[p] \in PlanCall, MemOK(p)', PlanOK(p)'
  PROVE  OwnInv(p)'
<1>1. call'[p] \in Call
  BY DEF Call
<1> QED
  BY <1>1, KindsDiffer DEF OwnInv, SaveOK, Mutates, RestoreOK, SeedOK

LEMMA OwnSeed ==
  ASSUME NEW p \in Proc, call'[p] \in SeedCall, MemOK(p)', SeedOK(p)'
  PROVE  OwnInv(p)'
<1>1. call'[p] \in Call
  BY DEF Call
<1> QED
  BY <1>1, KindsDiffer DEF OwnInv, SaveOK, Mutates, RestoreOK, PlanOK

LEMMA OwnRestore ==
  ASSUME NEW p \in Proc, call'[p] \in RestoreCall, MemOK(p)', RestoreOK(p)'
  PROVE  OwnInv(p)'
<1>1. call'[p] \in Call
  BY DEF Call
<1> QED
  BY <1>1, KindsDiffer DEF OwnInv, SaveOK, Mutates, PlanOK, SeedOK

\* The session object stays what it was when the process has the same one.
LEMMA MemStays ==
  ASSUME SessionConstants, FilesInv, Grows, NEW p \in Proc, mem'[p] = mem[p]
  PROVE  MemOK(p)'
<1>1. PICK m \in SessionRow : m = mem[p] /\ m = mem'[p]
  BY DEF FilesInv, FilesTyped
<1>2. FilesTyped /\ PlansOK /\ Sound(m, snap, plan) /\ (m.id # 0 => Written(m.id, file))
  BY <1>1 DEF FilesInv, OwnInv, MemOK
<1>3. Sound(m, snap', plan') /\ (m.id # 0 => Written(m.id, file'))
  BY <1>2, SoundStays, WrittenStays
<1> QED
  BY <1>1, <1>3 DEF MemOK

\* The files stay what they were in a step that writes none but a new snapshot.
LEMMA FilesStay ==
  ASSUME SessionConstants, FilesInv, FilesTyped', Grows, UNCHANGED <<file, ws, index>>
  PROVE  FilesOK'
<1>1. FilesTyped /\ FilesOK /\ PlansOK
  BY DEF FilesInv
<1>2. ASSUME NEW s \in Sid PROVE Sound(file'[s], snap', plan') /\ (s > made'.session => file'[s].id = 0)
  <2>1. PICK r \in SessionRow : r = file[s] /\ r = file'[s]
    BY <1>1 DEF FilesTyped
  <2>2. Sound(r, snap, plan)
    BY <1>1, <2>1 DEF FilesOK
  <2>3. Sound(r, snap', plan')
    BY <1>1, <2>2, SoundStays
  <2>4. made.session <= made'.session /\ made.session \in 0..MaxSession /\ made'.session \in 0..MaxSession
    BY <1>1 DEF Grows, FilesTyped
  <2>5. s > made'.session => s > made.session
    BY <2>4 DEF Sid, SessionConstants
  <2> QED
    BY <1>1, <2>1, <2>3, <2>5 DEF FilesOK
<1> QED
  BY <1>1, <1>2 DEF FilesOK

\* A step of one process that writes no file but a new snapshot keeps the
\* invariant when its own call does.
LEMMA QuietStep ==
  ASSUME SessionConstants, FilesInv, FilesTyped', NEW p \in Proc,
         UNCHANGED <<file, ws, index, plan>>,
         \A w \in Wid : snap[w] # "none" => snap'[w] # "none",
         made.session <= made'.session, made.plan <= made'.plan,
         \A q \in Proc \ {p} :
            /\ call'[q] = call[q] /\ mem'[q] = mem[q]
            /\ \A s \in Sid : lockS[s] = q => lockS'[s] = q
            /\ lockW = q => lockW' = q,
         OwnInv(p)',
         call'[p] \in SaveCall =>
            \/ call[p] \in SaveCall /\ call'[p].draft.id = call[p].draft.id
            \/ Written(call'[p].draft.id, file)
            \/ call'[p].draft.id > made.session
            \/ \A q \in Proc \ {p} : call[q] \in SaveCall => call[q].draft.id # call'[p].draft.id,
         call'[p] \in PlanCall =>
            \/ call[p] \in PlanCall /\ call'[p].plan = call[p].plan
            \/ plan[call'[p].plan].status # "none"
            \/ call'[p].plan > made.plan
  PROVE  FilesInv'
<1>1. Grows
  BY DEF Grows
<1>2. \A q \in Proc \ {p} : Undisturbed(q)
  BY DEF Undisturbed
<1>3. FilesOK'
  BY <1>1, FilesStay
<1>4. PlansOK'
  <2>1. made.plan \in 0..MaxPlan /\ made'.plan \in 0..MaxPlan /\ PlansOK
    BY DEF FilesInv, FilesTyped
  <2>2. \A i \in Pid : i > made'.plan => i > made.plan
    BY <2>1 DEF Pid, SessionConstants
  <2> QED
    BY <2>1, <2>2 DEF PlansOK
<1>5. \A q \in Proc : OwnInv(q)'
  BY <1>1, <1>2, OthersStay
<1>6. UniqueInv'
  BY <1>1, <1>2, UniqueStays
<1> QED
  BY <1>3, <1>4, <1>5, <1>6 DEF FilesInv

\* ---- the calls that begin --------------------------------------------------------

\* What a step that changes the call of p, and nothing that others have, leaves typed.
LEMMA TypedStep ==
  ASSUME FilesTyped, NEW p \in Proc, NEW c \in Call, Goto(p, c),
         UNCHANGED <<file, ws, index, plan, lockS, lockP>>,
         lockW' \in Proc \cup {"free"}, snap' \in [Wid -> SnapPhase],
         mem' \in [Proc -> SessionRow],
         made' \in [session : 0..MaxSession, snap : 0..MaxSnap, plan : 0..MaxPlan, text : Nat]
  PROVE  FilesTyped' /\ call'[p] = c /\ \A q \in Proc \ {p} : call'[q] = call[q]
<1>1. call' \in [Proc -> Call] /\ call'[p] = c /\ \A q \in Proc \ {p} : call'[q] = call[q]
  BY DEF Goto, FilesTyped
<1> QED
  BY <1>1 DEF FilesTyped

\* A save that begins.
LEMMA BeginSave ==
  ASSUME SessionConstants, FilesInv, FilesTyped', NEW p \in Proc,
         NEW d \in SessionRow, NEW m \in Mutator, NEW then \in {"idle", "restore"},
         call'[p] = Saving(d, m, then),
         Sound(d, snap', plan'), d.id # 0, d.id <= made'.session, MemOK(p)',
         m.op = "approved" => plan'[m.plan].progress # 0 /\ plan'[m.plan].session = d.id,
         m.op = "checkpoint" => snap'[m.snap] # "none",
         then = "restore" => m \in Guarding
  PROVE  OwnInv(p)' /\ call'[p] \in SaveCall /\ call'[p].draft.id = d.id
<1>1. NoState \in StateRow
  BY DEF NoState, StateRow, SessionConstants
<1>2. PICK c \in SaveCall : c = Saving(d, m, then) /\ c = call'[p]
                            /\ c.pc = "lock" /\ c.lock = "s" /\ c.then = then /\ c.mutator = m
                            /\ c.draft = d
  <2> DEFINE r == Saving(d, m, then)
  <2>1. r = [pc |-> "lock", lock |-> "s", migrated |-> FALSE, then |-> then,
             mutator |-> m, draft |-> d, state |-> NoState]
    BY DEF Saving
  <2> HIDE DEF r
  <2>2. /\ r.pc = "lock" /\ r.lock = "s" /\ r.then = then /\ r.mutator = m /\ r.draft = d
        /\ r \in SaveCall
    BY <1>1, <2>1 DEF SaveCall, Saves
  <2>3. r = Saving(d, m, then)
    BY DEF r
  <2> QED
    BY <2>2, <2>3
<1>3. SaveOK(p)'
  BY <1>2 DEF SaveOK, Named
<1>4. Mutates(p)'
  BY <1>2 DEF Mutates
<1> QED
  BY <1>2, <1>3, <1>4, OwnSave

\* A plan that begins to be written.
LEMMA BeginPlan ==
  ASSUME NEW p \in Proc, NEW next \in PlanRow, NEW i \in Pid,
         NEW op \in {"open", "approved", "declined"},
         call'[p] = Writing(next, i, op), MemOK(p)',
         next.session = mem'[p].id, mem'[p].id # 0, next.status # "none", next.text # 0,
         i <= made'.plan,
         plan'[i].status # "none" => plan'[i].session = mem'[p].id,
         op = "approved" => plan'[i].progress # 0
  PROVE  OwnInv(p)' /\ call'[p] \in PlanCall /\ call'[p].plan = i
<1>2. PICK c \in PlanCall : c = Writing(next, i, op) /\ c = call'[p]
                            /\ c.pc = "planLock" /\ c.next = next /\ c.plan = i /\ c.op = op
  BY DEF Writing, PlanCall
<1>3. PlanOK(p)'
  BY <1>2 DEF PlanOK
<1> QED
  BY <1>2, <1>3, OwnPlan

LEMMA EnsureStep ==
  ASSUME SessionConstants, FilesInv, LegacyInv, NEW p \in Proc, ensureSession(p)
  PROVE  FilesInv'
<1>0. /\ FilesTyped /\ FilesOK /\ OwnInv(p)
      /\ file \in [Sid -> SessionRow] /\ ws \in StateRow
      /\ made \in [session : 0..MaxSession, snap : 0..MaxSnap, plan : 0..MaxPlan, text : Nat]
      /\ mem \in [Proc -> SessionRow] /\ call \in [Proc -> Call]
  BY DEF FilesInv, FilesTyped
<1>1. CASE Readable(ws.active)
  <2>1. /\ mem' = [mem EXCEPT ![p] = file[ws.active]] /\ UNCHANGED <<call, lockW, made>>
        /\ UNCHANGED <<file, ws, index, snap, plan, lockP, lockS>> /\ call[p] = Idle
    <3>1. call[p].pc = "idle"
      BY DEF ensureSession, Start
    <3> QED
      BY <1>0, <1>1, <3>1, Kinds DEF ensureSession, plans
  <2>2. ws.active \in Sid /\ file[ws.active] \in SessionRow /\ file[ws.active].id = ws.active
    BY <1>0, <1>1 DEF StateRow, Readable, Sid, SessionConstants
  <2>3. FilesTyped'
    BY <1>0, <2>1, <2>2 DEF FilesTyped
  <2>4. MemOK(p)'
    BY <1>0, <2>1, <2>2 DEF MemOK, FilesOK, Written
  <2>5. OwnInv(p)'
    BY <2>1, <2>4, OwnIdle
  <2>6. made.session <= made.session /\ made.plan <= made.plan
    BY <1>0 DEF SessionConstants
  <2> QED
    BY <1>0, <2>1, <2>3, <2>5, <2>6, IdleIsNone, QuietStep
<1>2. CASE ~Readable(ws.active)
  <2> DEFINE n == IF legacy = "own" THEN 1 ELSE made.session + 1
             d == CASE legacy = "own"     -> Own
                    [] legacy = "session" -> migrateLegacySession(n)
                    [] OTHER              -> createSession(n)
             c == [pc |-> "write", lock |-> "w", migrated |-> legacy \in {"own", "session"},
                   then |-> "idle", mutator |-> [op |-> "none"], state |-> NoState, draft |-> d]
  <2>1. /\ legacy # "own" => made.session < MaxSession
        /\ made' = IF legacy = "own" THEN made ELSE [made EXCEPT !.session = @ + 1]
        /\ lockW = "free" /\ lockW' = p /\ UNCHANGED mem
        /\ UNCHANGED <<file, ws, index, snap, plan, lockP, lockS>>
    BY <1>2 DEF ensureSession, plans
  <2>0. ws.active = 0
    BY <1>0, <1>2 DEF FilesOK, Recent, Written, Readable, StateRow
  <2>2. /\ n \in Sid
        /\ n > made.session \/ \A q \in Proc \ {p} : call[q] \in SaveCall => call[q].draft.id # n
    <3>1. CASE legacy # "own"
      BY <1>0, <2>1, <3>1 DEF Sid, SessionConstants
    <3>2. CASE legacy = "own"
      <4>1. \A q \in Proc : Clear(q) /\ SaveOK(q)
        BY <2>0, <3>2 DEF LegacyInv, FilesInv, OwnInv
      <4>2. \A q \in Proc \ {p} : call[q] \in SaveCall => call[q].draft.id # 1
        BY <2>1, <4>1 DEF Clear, SaveOK, SessionConstants
      <4> QED
        BY <3>2, <4>2 DEF Sid, SessionConstants
    <3> QED
      BY <3>1, <3>2
  <2>3. /\ made' \in [session : 0..MaxSession, snap : 0..MaxSnap, plan : 0..MaxPlan, text : Nat]
        /\ n <= made'.session /\ made.session <= made'.session /\ made'.plan = made.plan
        /\ legacy # "own" => made'.session = n
    <3>1. CASE legacy # "own"
      BY <1>0, <2>1, <2>2, <3>1 DEF Sid, SessionConstants
    <3>2. CASE legacy = "own"
      BY <1>0, <2>1, <3>2 DEF LegacyInv
    <3> QED
      BY <3>1, <3>2
  <2>4. Goto(p, c)
    BY <1>2, <2>3 DEF ensureSession
  <2>5. d \in SessionRow /\ d.id = n /\ Sound(d, snap', plan')
    <3>1. CASE legacy = "own"
      BY <2>1, <3>1, OwnCreated DEF LegacyInv
    <3>2. CASE legacy # "own"
      BY <2>2, <3>2, Created
    <3> QED
      BY <3>1, <3>2
  <2> HIDE DEF n
  <2> HIDE DEF d
  <2>6. c \in SaveCall
    <3>1. NoState \in StateRow
      BY DEF NoState, StateRow, SessionConstants
    <3> QED
      BY <2>5, <3>1 DEF SaveCall, Saves, Mutator, Plain
  <2>7. PICK e \in SaveCall : e = c /\ e.pc = "write" /\ e.lock = "w" /\ e.then = "idle" /\ e.mutator.op = "none"
                              /\ e.draft = d
    BY <2>6
  <2> HIDE DEF c
  <2>8. FilesTyped' /\ call'[p] = e /\ \A q \in Proc \ {p} : call'[q] = call[q]
    <3>1. c \in Call /\ UNCHANGED <<file, ws, index, plan, lockS, lockP>>
      BY <2>1, <2>6 DEF Call
    <3> QED
      BY <1>0, <2>1, <2>3, <2>4, <2>7, <3>1, TypedStep DEF FilesTyped
  <2>9. Grows
    BY <1>0, <2>1, <2>2, <2>3 DEF Grows, SessionConstants
  <2>10. MemOK(p)'
    BY <2>1, <2>9, MemStays
  <2>12. SaveOK(p)'
    <3>1. d.id # 0 /\ d.id <= made'.session
      BY <2>2, <2>3, <2>5 DEF Sid
    <3> QED
      BY <2>1, <2>5, <2>7, <2>8, <3>1 DEF SaveOK, Named
  <2>13. Mutates(p)'
    BY <2>7, <2>8 DEF Mutates
  <2>14. OwnInv(p)'
    BY <2>7, <2>8, <2>10, <2>12, <2>13, OwnSave
  <2>15. call'[p] \notin PlanCall
    <3>1. e \in Call
      BY DEF Call
    <3> QED
      BY <2>7, <2>8, <3>1, KindsDiffer
  <2>16. \A q \in Proc \ {p} : lockW # q
    BY <2>1 DEF SessionConstants
  <2>17. made.session <= made'.session /\ made.plan <= made'.plan
    BY <2>9 DEF Grows
  <2> QED
    BY <2>1, <2>2, <2>5, <2>7, <2>8, <2>14, <2>15, <2>16, <2>17, QuietStep
<1> QED
  BY <1>1, <1>2

LEMMA SavingTyped ==
  ASSUME SessionConstants, NEW d \in SessionRow, NEW m \in Mutator, NEW then \in {"idle", "restore"}
  PROVE  Saving(d, m, then) \in SaveCall /\ Saving(d, m, then) \in Call
<1>1. NoState \in StateRow
  BY DEF NoState, StateRow, SessionConstants
<1> QED
  BY <1>1 DEF SaveCall, Saves, Call, Saving

\* A call that draws its ids and begins to save.
LEMMA SaveBegins ==
  ASSUME SessionConstants, FilesInv, NEW p \in Proc,
         NEW d \in SessionRow, NEW m \in Mutator, NEW then \in {"idle", "restore"},
         Goto(p, Saving(d, m, then)), UNCHANGED <<file, ws, index, plan, lockS, lockP, lockW>>,
         snap' \in [Wid -> SnapPhase], \A w \in Wid : snap[w] # "none" => snap'[w] # "none",
         made' \in [session : 0..MaxSession, snap : 0..MaxSnap, plan : 0..MaxPlan, text : Nat],
         made.session <= made'.session, made.plan <= made'.plan,
         mem' \in [Proc -> SessionRow], \A q \in Proc \ {p} : mem'[q] = mem[q], MemOK(p)',
         Sound(d, snap', plan), d.id # 0, Written(d.id, file) \/ d.id > made.session,
         d.id <= made'.session,
         m.op \in {"none", "checkpoint"}, m.op = "checkpoint" => snap'[m.snap] # "none",
         then = "restore" => m \in Guarding
  PROVE  FilesInv'
<1>0. FilesTyped /\ lockW \in Proc \cup {"free"}
  BY DEF FilesInv, FilesTyped
<1>1. FilesTyped' /\ call'[p] = Saving(d, m, then) /\ \A q \in Proc \ {p} : call'[q] = call[q]
  <2>1. lockW' \in Proc \cup {"free"} /\ UNCHANGED <<file, ws, index, plan, lockS, lockP>>
    BY <1>0
  <2>2. Saving(d, m, then) \in Call
    BY SavingTyped
  <2> HIDE DEF Goto
  <2> QED
    BY <1>0, <2>1, <2>2, TypedStep
<1>2. OwnInv(p)' /\ call'[p] \in SaveCall /\ call'[p].draft.id = d.id
  <2>1. Sound(d, snap', plan') /\ m.op # "approved"
    OBVIOUS
  <2> QED
    BY <1>1, <2>1, BeginSave
<1>3. call'[p] \notin PlanCall
  <2>1. call'[p] \in Call
    BY <1>2 DEF Call
  <2> QED
    BY <1>2, <2>1, KindsDiffer
<1> QED
  BY <1>1, <1>2, <1>3, QuietStep

\* The session object of a process that has one: sound, written and known.
LEMMA Held ==
  ASSUME SessionConstants, FilesInv, NEW p \in Proc, mem[p].id # 0
  PROVE  /\ mem[p] \in SessionRow /\ Sound(mem[p], snap, plan)
         /\ Written(mem[p].id, file) /\ mem[p].id \in Sid /\ mem[p].id <= made.session
<1>1. mem[p] \in SessionRow /\ Sound(mem[p], snap, plan) /\ Written(mem[p].id, file)
  BY DEF FilesInv, FilesTyped, OwnInv, MemOK
<1>2. mem[p].id \in Sid /\ file[mem[p].id].id # 0
  BY <1>1 DEF Written
<1>3. made.session \in 0..MaxSession /\ ~(mem[p].id > made.session)
  BY <1>2 DEF FilesInv, FilesTyped, FilesOK
<1> QED
  BY <1>1, <1>2, <1>3 DEF Sid, SessionConstants

LEMMA AppendStep ==
  ASSUME SessionConstants, FilesInv, NEW p \in Proc, appendRecord(p)
  PROVE  FilesInv'
<1> DEFINE d == [mem[p] EXCEPT !.recs = @ + 1]
           m == [op |-> "none"]
<1>0. FilesTyped /\ mem \in [Proc -> SessionRow] /\ mem[p] \in SessionRow
  BY DEF FilesInv, FilesTyped
<1>1. /\ mem[p].id # 0 /\ mem' = [mem EXCEPT ![p].recs = @ + 1]
      /\ UNCHANGED <<file, ws, index, snap, plan, lockS, lockP, lockW, made>>
  BY DEF appendRecord, plans
<1>2. mem' = [mem EXCEPT ![p] = d] /\ mem'[p] = d
  BY <1>0, <1>1
<1>3. Goto(p, Saving(d, m, "idle"))
  BY <1>2 DEF appendRecord
<1>4. Sound(mem[p], snap, plan) /\ Written(mem[p].id, file) /\ mem[p].id <= made.session
  BY <1>1, Held
<1>5. d \in SessionRow /\ d.id = mem[p].id /\ Sound(d, snap, plan)
  BY <1>0, <1>4, Appending
<1> HIDE DEF d
<1>6. MemOK(p)'
  BY <1>1, <1>2, <1>4, <1>5 DEF MemOK
<1>7. m \in Mutator /\ m.op = "none"
  BY DEF Mutator, Plain
<1>8. /\ mem' \in [Proc -> SessionRow] /\ \A q \in Proc \ {p} : mem'[q] = mem[q]
      /\ snap' \in [Wid -> SnapPhase] /\ Sound(d, snap', plan)
      /\ made' \in [session : 0..MaxSession, snap : 0..MaxSnap, plan : 0..MaxPlan, text : Nat]
      /\ made.session <= made'.session /\ made.plan <= made'.plan
  BY <1>0, <1>1, <1>2, <1>5 DEF FilesTyped, SessionConstants
<1> HIDE DEF m
<1> QED
  BY <1>1, <1>3, <1>4, <1>5, <1>6, <1>7, <1>8, SaveBegins

LEMMA FreshStep ==
  ASSUME SessionConstants, FilesInv, NEW p \in Proc, ensureFresh(p) \/ forkSessionFromCheckpoint(p)
  PROVE  FilesInv'
<1> DEFINE m == [op |-> "none"]
           n == made.session + 1
<1>0. /\ FilesTyped /\ mem \in [Proc -> SessionRow] /\ mem[p] \in SessionRow
      /\ made \in [session : 0..MaxSession, snap : 0..MaxSnap, plan : 0..MaxPlan, text : Nat]
      /\ Sound(mem[p], snap, plan)
  BY DEF FilesInv, FilesTyped, OwnInv, MemOK
<1>1. /\ made.session < MaxSession /\ made' = [made EXCEPT !.session = @ + 1]
      /\ UNCHANGED <<file, ws, index, snap, plan, lockS, lockP, lockW, mem>>
  BY DEF ensureFresh, forkSessionFromCheckpoint, plans
<1>2. n \in Sid /\ n > made.session /\ n # 0
  BY <1>0, <1>1 DEF Sid, SessionConstants
<1>3. /\ made' \in [session : 0..MaxSession, snap : 0..MaxSnap, plan : 0..MaxPlan, text : Nat]
      /\ made'.session = n /\ made'.plan = made.plan
      /\ n <= made'.session /\ made.session <= made'.session /\ made.plan <= made'.plan
  BY <1>0, <1>1, <1>2 DEF Sid, SessionConstants
<1>4. PICK d \in SessionRow : Goto(p, Saving(d, m, "idle")) /\ d.id = n /\ Sound(d, snap, plan)
  <2>1. CASE ensureFresh(p)
    BY <1>2, <1>3, <2>1, Created DEF ensureFresh
  <2>2. CASE forkSessionFromCheckpoint(p)
    <3>1. PICK k \in DOMAIN mem[p].cps : Goto(p, Saving(forked(mem[p], n, k), m, "idle"))
      BY <1>3, <2>2 DEF forkSessionFromCheckpoint
    <3>2. /\ forked(mem[p], n, k) \in SessionRow /\ forked(mem[p], n, k).id = n
          /\ Sound(forked(mem[p], n, k), snap, plan)
      BY <1>0, <1>2, Forking
    <3> QED
      BY <3>1, <3>2
  <2> QED
    BY <2>1, <2>2
<1>5. Grows
  BY <1>0, <1>1, <1>3 DEF Grows
<1>6. MemOK(p)'
  BY <1>1, <1>5, MemStays
<1>7. m \in Mutator /\ m.op = "none"
  BY DEF Mutator, Plain
<1>8. /\ mem' \in [Proc -> SessionRow] /\ \A q \in Proc \ {p} : mem'[q] = mem[q]
      /\ snap' \in [Wid -> SnapPhase] /\ Sound(d, snap', plan)
  BY <1>0, <1>1, <1>4 DEF FilesTyped
<1> HIDE DEF m
<1> QED
  BY <1>1, <1>2, <1>3, <1>4, <1>6, <1>7, <1>8, SaveBegins

LEMMA LoadStep ==
  ASSUME SessionConstants, FilesInv, NEW p \in Proc, loadSession(p)
  PROVE  FilesInv'
<1>0. /\ FilesTyped /\ FilesOK /\ file \in [Sid -> SessionRow] /\ ws \in StateRow
      /\ mem \in [Proc -> SessionRow] /\ call \in [Proc -> Call]
      /\ made \in [session : 0..MaxSession, snap : 0..MaxSnap, plan : 0..MaxPlan, text : Nat]
  BY DEF FilesInv, FilesTyped
<1>1. PICK id \in {ws.active} \cup Range(ws.recent) : Readable(id) /\ mem' = [mem EXCEPT ![p] = file[id]]
  BY DEF loadSession
<1>2. /\ UNCHANGED <<file, ws, index, snap, plan, lockS, lockP, lockW, call, made>>
      /\ call[p].pc = "idle"
  BY DEF loadSession, plans, Start
<1>3. id \in Sid
  <2>1. CASE id = ws.active
    BY <1>0, <1>1, <2>1 DEF StateRow, Readable, Sid, SessionConstants
  <2>2. CASE id \in Range(ws.recent)
    <3>1. ws.recent \in Seq(Sid)
      BY <1>0 DEF StateRow
    <3>2. \A i \in DOMAIN ws.recent : ws.recent[i] \in Sid
      BY <3>1, LenProperties, ElementOfSeq
    <3> QED
      BY <2>2, <3>2 DEF Range
  <2> QED
    BY <1>1, <2>1, <2>2
<1>4. file[id] \in SessionRow /\ file[id].id = id /\ Sound(file[id], snap, plan)
  BY <1>0, <1>1, <1>3 DEF Readable, FilesOK
<1>5. FilesTyped'
  BY <1>0, <1>1, <1>2, <1>4 DEF FilesTyped
<1>6. MemOK(p)'
  BY <1>0, <1>1, <1>2, <1>3, <1>4 DEF MemOK, Written
<1>7. call[p] = Idle
  BY <1>0, <1>2, Kinds
<1>8. OwnInv(p)'
  BY <1>2, <1>6, <1>7, OwnIdle
<1>9. made.session <= made.session /\ made.plan <= made.plan
  BY <1>0 DEF SessionConstants
<1> QED
  BY <1>0, <1>1, <1>2, <1>5, <1>7, <1>8, <1>9, IdleIsNone, QuietStep

\* A snapshot that is drawn, or one that is collected or expires.
LEMMA Drawn ==
  ASSUME SessionConstants, FilesTyped, made.snap < MaxSnap, made' = [made EXCEPT !.snap = @ + 1],
         \E status \in ghost : snap' = [snap EXCEPT ![made'.snap] = status]
  PROVE  /\ snap' \in [Wid -> SnapPhase] /\ \A w \in Wid : snap[w] # "none" => snap'[w] # "none"
         /\ made' \in [session : 0..MaxSession, snap : 0..MaxSnap, plan : 0..MaxPlan, text : Nat]
         /\ made'.session = made.session /\ made'.plan = made.plan
         /\ made'.snap \in Wid /\ snap'[made'.snap] # "none"
<1>1. /\ made \in [session : 0..MaxSession, snap : 0..MaxSnap, plan : 0..MaxPlan, text : Nat]
      /\ snap \in [Wid -> SnapPhase]
  BY DEF FilesTyped
<1>2. made.snap + 1 \in Wid
  BY <1>1 DEF Wid, SessionConstants
<1>3. /\ made' \in [session : 0..MaxSession, snap : 0..MaxSnap, plan : 0..MaxPlan, text : Nat]
      /\ made'.session = made.session /\ made'.plan = made.plan /\ made'.snap \in Wid
  BY <1>1, <1>2 DEF Wid
<1>4. PICK status \in ghost : snap' = [snap EXCEPT ![made'.snap] = status]
  OBVIOUS
<1>5. status \in SnapPhase /\ status # "none"
  BY DEF ghost, SnapPhase
<1>6. /\ snap' \in [Wid -> SnapPhase] /\ snap'[made'.snap] = status
      /\ \A w \in Wid : snap[w] # "none" => snap'[w] # "none"
  BY <1>1, <1>3, <1>4, <1>5
<1> QED
  BY <1>3, <1>5, <1>6

LEMMA Expiring ==
  ASSUME FilesTyped, NEW w \in Wid, resolved(w)
  PROVE  snap' \in [Wid -> SnapPhase] /\ \A v \in Wid : snap[v] # "none" => snap'[v] # "none"
<1>1. snap \in [Wid -> SnapPhase]
  BY DEF FilesTyped
<1>2. CASE snap[w] = "collected"
  <2>1. snap' = [snap EXCEPT ![w] = "expired"]
    BY <1>2 DEF resolved
  <2> QED
    BY <1>1, <2>1 DEF SnapPhase
<1>3. CASE snap[w] # "collected"
  BY <1>1, <1>3 DEF resolved
<1> QED
  BY <1>2, <1>3

LEMMA CheckpointStep ==
  ASSUME SessionConstants, FilesInv, NEW p \in Proc, createCheckpoint(p)
  PROVE  FilesInv'
<1> DEFINE m == [op |-> "checkpoint", snap |-> made'.snap]
<1>0. FilesTyped /\ mem \in [Proc -> SessionRow] /\ PlansOK
      /\ made \in [session : 0..MaxSession, snap : 0..MaxSnap, plan : 0..MaxPlan, text : Nat]
  BY DEF FilesInv, FilesTyped
<1>1. /\ UNCHANGED <<file, ws, index, plan, lockS, lockP, lockW, mem>> /\ mem[p].id # 0
      /\ made.snap < MaxSnap /\ made' = [made EXCEPT !.snap = @ + 1]
      /\ \E status \in ghost : snap' = [snap EXCEPT ![made'.snap] = status]
      /\ Goto(p, Saving(mem[p], m, "idle"))
  BY DEF createCheckpoint, plans
<1>2. /\ snap' \in [Wid -> SnapPhase] /\ \A w \in Wid : snap[w] # "none" => snap'[w] # "none"
      /\ made' \in [session : 0..MaxSession, snap : 0..MaxSnap, plan : 0..MaxPlan, text : Nat]
      /\ made'.session = made.session /\ made'.plan = made.plan
      /\ made'.snap \in Wid /\ snap'[made'.snap] # "none"
  BY <1>0, <1>1, Drawn
<1>3. m \in Mutator /\ m.op = "checkpoint" /\ m.snap = made'.snap
  BY <1>2 DEF Mutator, Checkpointing
<1> HIDE DEF m
<1>4. /\ mem[p] \in SessionRow /\ Sound(mem[p], snap, plan)
      /\ Written(mem[p].id, file) /\ mem[p].id <= made.session
  BY <1>1, Held
<1>5. made.session <= made'.session /\ made.plan <= made'.plan /\ mem[p].id <= made'.session
  BY <1>0, <1>2, <1>4 DEF SessionConstants
<1>6. Grows
  BY <1>1, <1>2, <1>5 DEF Grows
<1>7. MemOK(p)'
  BY <1>1, <1>6, MemStays
<1>8. Sound(mem[p], snap', plan)
  <2>1. Sound(mem[p], snap', plan')
    BY <1>0, <1>4, <1>6, SoundStays
  <2> QED
    BY <1>1, <2>1
<1>9. mem' \in [Proc -> SessionRow] /\ \A q \in Proc \ {p} : mem'[q] = mem[q]
  BY <1>0, <1>1
<1> QED
  BY <1>1, <1>2, <1>3, <1>4, <1>5, <1>7, <1>8, <1>9, SaveBegins

LEMMA PrepareStep ==
  ASSUME SessionConstants, FilesInv, NEW p \in Proc, prepareWorkspaceRestore(p)
  PROVE  FilesInv'
<1>0. /\ FilesTyped /\ mem \in [Proc -> SessionRow] /\ mem[p] \in SessionRow /\ PlansOK
      /\ made \in [session : 0..MaxSession, snap : 0..MaxSnap, plan : 0..MaxPlan, text : Nat]
      /\ Sound(mem[p], snap, plan) /\ call \in [Proc -> Call]
  BY DEF FilesInv, FilesTyped, OwnInv, MemOK
<1>1. UNCHANGED <<file, ws, index, plan, lockS, lockP, lockW, mem>> /\ call[p].pc = "idle"
  BY DEF prepareWorkspaceRestore, plans, Start
<1>2. PICK k \in DOMAIN mem[p].cps :
         IF snap[mem[p].cps[k].snap] = "available"
         THEN /\ made.snap < MaxSnap /\ made' = [made EXCEPT !.snap = @ + 1]
              /\ \E status \in ghost : snap' = [snap EXCEPT ![made'.snap] = status]
              /\ Goto(p, Saving(mem[p], [op |-> "checkpoint", snap |-> made'.snap,
                                         of |-> mem[p].cps[k].snap], "restore"))
         ELSE resolved(mem[p].cps[k].snap) /\ UNCHANGED <<made, call>>
  BY DEF prepareWorkspaceRestore
<1> DEFINE w == mem[p].cps[k].snap
           m == [op |-> "checkpoint", snap |-> made'.snap, of |-> w]
<1>3. w \in Wid /\ mem[p].id # 0
  <2>1. mem[p].cps[k] \in CheckpointRow
    BY <1>0, LenProperties, ElementOfSeq DEF SessionRow
  <2>2. mem[p].cps # <<>>
    OBVIOUS
  <2> QED
    BY <1>0, <2>1, <2>2 DEF CheckpointRow, Sound
<1>4. CASE snap[w] = "available"
  <2>1. /\ made.snap < MaxSnap /\ made' = [made EXCEPT !.snap = @ + 1]
        /\ \E status \in ghost : snap' = [snap EXCEPT ![made'.snap] = status]
        /\ Goto(p, Saving(mem[p], m, "restore"))
    BY <1>2, <1>4
  <2>2. /\ snap' \in [Wid -> SnapPhase] /\ \A v \in Wid : snap[v] # "none" => snap'[v] # "none"
        /\ made' \in [session : 0..MaxSession, snap : 0..MaxSnap, plan : 0..MaxPlan, text : Nat]
        /\ made'.session = made.session /\ made'.plan = made.plan
        /\ made'.snap \in Wid /\ snap'[made'.snap] # "none"
    BY <1>0, <2>1, Drawn
  <2>3. m \in Mutator /\ m.op = "checkpoint" /\ m.snap = made'.snap /\ m \in Guarding
    BY <1>3, <2>2 DEF Mutator, Guarding
  <2> HIDE DEF m
  <2>4. Written(mem[p].id, file) /\ mem[p].id <= made.session
    BY <1>3, Held
  <2>5. made.session <= made'.session /\ made.plan <= made'.plan /\ mem[p].id <= made'.session
    BY <1>0, <2>2, <2>4 DEF SessionConstants
  <2>6. Grows
    BY <1>1, <2>2, <2>5 DEF Grows
  <2>7. MemOK(p)'
    BY <1>1, <2>6, MemStays
  <2>8. Sound(mem[p], snap', plan)
    <3>1. Sound(mem[p], snap', plan')
      BY <1>0, <2>6, SoundStays
    <3> QED
      BY <1>1, <3>1
  <2>9. mem' \in [Proc -> SessionRow] /\ \A q \in Proc \ {p} : mem'[q] = mem[q]
    BY <1>0, <1>1
  <2> QED
    BY <1>0, <1>1, <1>3, <2>1, <2>2, <2>3, <2>4, <2>5, <2>7, <2>8, <2>9, SaveBegins
<1>5. CASE snap[w] # "available"
  <2>1. resolved(w) /\ UNCHANGED <<made, call>>
    BY <1>2, <1>5
  <2>2. snap' \in [Wid -> SnapPhase] /\ \A v \in Wid : snap[v] # "none" => snap'[v] # "none"
    BY <1>0, <1>3, <2>1, Expiring
  <2>3. FilesTyped'
    BY <1>0, <1>1, <2>1, <2>2 DEF FilesTyped
  <2>4. made.session <= made'.session /\ made.plan <= made'.plan
    BY <1>0, <2>1 DEF SessionConstants
  <2>5. Grows
    BY <1>1, <2>2, <2>4 DEF Grows
  <2>6. MemOK(p)'
    BY <1>1, <2>5, MemStays
  <2>7. call'[p] = Idle
    BY <1>0, <1>1, <2>1, Kinds
  <2>8. OwnInv(p)'
    BY <2>6, <2>7, OwnIdle
  <2> QED
    BY <1>1, <2>1, <2>2, <2>3, <2>4, <2>7, <2>8, IdleIsNone, QuietStep
<1> QED
  BY <1>4, <1>5

\* A step that changes only snapshots, or nothing.
LEMMA StillStep ==
  ASSUME SessionConstants, FilesInv, FilesTyped',
         UNCHANGED <<file, ws, index, plan, lockS, lockW, mem, call, made>>,
         \A w \in Wid : snap[w] # "none" => snap'[w] # "none"
  PROVE  FilesInv'
<1>1. made.session <= made.session /\ made.plan <= made.plan
  BY DEF FilesInv, FilesTyped, SessionConstants
<1>2. Grows
  BY <1>1 DEF Grows
<1>3. \A q \in Proc : Undisturbed(q)
  BY DEF Undisturbed
<1>4. FilesOK'
  BY <1>2, FilesStay
<1>5. PlansOK' /\ UniqueInv'
  BY DEF PlansOK, UniqueInv, FilesInv, Written
<1>6. \A q \in Proc : OwnInv(q)'
  BY <1>2, <1>3, OthersStay
<1> QED
  BY <1>4, <1>5, <1>6 DEF FilesInv

LEMMA CollectStep ==
  ASSUME SessionConstants, FilesInv, GitCollects \/ UNCHANGED vars
  PROVE  FilesInv'
<1>0. FilesTyped /\ snap \in [Wid -> SnapPhase]
  BY DEF FilesInv, FilesTyped
<1>1. /\ UNCHANGED <<file, ws, index, plan, lockS, lockP, lockW, mem, call, made>>
      /\ snap' \in [Wid -> SnapPhase] /\ \A w \in Wid : snap[w] # "none" => snap'[w] # "none"
  <2>1. CASE GitCollects
    <3>1. PICK w \in DOMAIN snap : snap' = [snap EXCEPT ![w] = "collected"]
      BY <2>1 DEF GitCollects
    <3> QED
      BY <1>0, <2>1, <3>1 DEF GitCollects, plans, SnapPhase
  <2>2. CASE UNCHANGED vars
    BY <1>0, <2>2 DEF vars
  <2> QED
    BY <2>1, <2>2
<1>2. FilesTyped'
  BY <1>0, <1>1 DEF FilesTyped
<1> QED
  BY <1>1, <1>2, StillStep

LEMMA RestoreStep ==
  ASSUME SessionConstants, FilesInv, NEW p \in Proc, restoreWorkspaceCheckpoint(p) \/ Restored(p)
  PROVE  FilesInv'
<1>0. /\ FilesTyped /\ call \in [Proc -> Call] /\ snap \in [Wid -> SnapPhase]
      /\ made \in [session : 0..MaxSession, snap : 0..MaxSnap, plan : 0..MaxPlan, text : Nat]
      /\ OwnInv(p)
  BY DEF FilesInv, FilesTyped
<1>1. UNCHANGED <<file, ws, index, plan, lockS, lockP, lockW, mem, made>>
  BY DEF restoreWorkspaceCheckpoint, Restored, plans
<1>2. PICK c \in RestoreCall : c = call[p]
  <2>1. call[p].pc \in {"restore", "restored"} /\ call[p] \in Call
    BY <1>0 DEF restoreWorkspaceCheckpoint, Restored, At
  <2> QED
    BY <2>1, Kinds
<1>3. c.of \in Wid /\ c.safety \in Wid
  BY DEF RestoreCall
<1>4. snap' \in [Wid -> SnapPhase] /\ \A w \in Wid : snap[w] # "none" => snap'[w] # "none"
  <2>1. CASE restoreWorkspaceCheckpoint(p)
    <3>1. resolved(c.of)
      BY <1>2, <2>1 DEF restoreWorkspaceCheckpoint
    <3> QED
      BY <1>0, <1>3, <3>1, Expiring
  <2>2. CASE Restored(p)
    BY <1>0, <2>2 DEF Restored
  <2> QED
    BY <2>1, <2>2
<1>5. PICK e \in Call : Goto(p, e) /\ (e = Idle \/ (e \in RestoreCall /\ e.safety = c.safety))
  <2>1. CASE restoreWorkspaceCheckpoint(p)
    <3>1. CASE snap[c.of] = "available"
      <4>1. Goto(p, [c EXCEPT !.pc = "restored"])
        BY <1>2, <2>1, <3>1 DEF restoreWorkspaceCheckpoint
      <4>2. /\ [c EXCEPT !.pc = "restored"] \in RestoreCall
            /\ [c EXCEPT !.pc = "restored"].safety = c.safety
        BY DEF RestoreCall
      <4> QED
        BY <4>1, <4>2 DEF Call
    <3>2. CASE snap[c.of] # "available"
      BY <1>2, <2>1, <3>2, IdleIsNone DEF restoreWorkspaceCheckpoint
    <3> QED
      BY <3>1, <3>2
  <2>2. CASE Restored(p)
    BY <2>2, IdleIsNone DEF Restored
  <2> QED
    BY <2>1, <2>2
<1>6. FilesTyped' /\ call'[p] = e /\ \A q \in Proc \ {p} : call'[q] = call[q]
  <2> HIDE DEF Goto
  <2>1. /\ lockW' \in Proc \cup {"free"} /\ mem' \in [Proc -> SessionRow]
        /\ made' \in [session : 0..MaxSession, snap : 0..MaxSnap, plan : 0..MaxPlan, text : Nat]
    BY <1>0, <1>1 DEF FilesTyped
  <2> QED
    BY <1>0, <1>1, <1>4, <1>5, <2>1, TypedStep
<1>7. made.session <= made'.session /\ made.plan <= made'.plan
  BY <1>0, <1>1 DEF SessionConstants
<1>8. Grows
  BY <1>1, <1>4, <1>7 DEF Grows
<1>9. MemOK(p)'
  BY <1>1, <1>8, MemStays
<1>10. OwnInv(p)'
  <2>1. CASE e = Idle
    BY <1>6, <1>9, <2>1, OwnIdle
  <2>2. CASE e \in RestoreCall /\ e.safety = c.safety
    <3>1. RestoreOK(p)'
      BY <1>0, <1>1, <1>2, <1>3, <1>4, <1>6, <2>2 DEF OwnInv, RestoreOK
    <3> QED
      BY <1>6, <1>9, <2>2, <3>1, OwnRestore
  <2> QED
    BY <1>5, <2>1, <2>2
<1>11. e \notin SaveCall /\ e \notin PlanCall
  BY <1>5, KindsDiffer, IdleIsNone
<1> QED
  BY <1>1, <1>4, <1>6, <1>7, <1>10, <1>11, QuietStep

\* A call that begins to write a plan.
LEMMA PlanBegins ==
  ASSUME SessionConstants, FilesInv, NEW p \in Proc, NEW next \in PlanRow, NEW i \in Pid,
         NEW op \in {"open", "approved", "declined"}, Goto(p, Writing(next, i, op)),
         UNCHANGED <<file, ws, index, snap, plan, lockS, lockP, lockW, mem>>,
         made' \in [session : 0..MaxSession, snap : 0..MaxSnap, plan : 0..MaxPlan, text : Nat],
         made'.session = made.session, made.plan <= made'.plan,
         next.session = mem[p].id, mem[p].id # 0, next.status # "none", next.text # 0,
         i <= made'.plan,
         (plan[i].status # "none" /\ plan[i].session = mem[p].id) \/ (plan[i].status = "none" /\ i > made.plan),
         op = "approved" => plan[i].progress # 0
  PROVE  FilesInv'
<1>0. /\ FilesTyped /\ snap \in [Wid -> SnapPhase] /\ lockW \in Proc \cup {"free"}
      /\ mem \in [Proc -> SessionRow]
      /\ made \in [session : 0..MaxSession, snap : 0..MaxSnap, plan : 0..MaxPlan, text : Nat]
  BY DEF FilesInv, FilesTyped
<1>1. Writing(next, i, op) \in Call
  BY DEF Writing, Call, PlanCall
<1>2. FilesTyped' /\ call'[p] = Writing(next, i, op) /\ \A q \in Proc \ {p} : call'[q] = call[q]
  <2> HIDE DEF Goto
  <2>1. lockW' \in Proc \cup {"free"} /\ mem' \in [Proc -> SessionRow] /\ snap' \in [Wid -> SnapPhase]
    BY <1>0
  <2> QED
    BY <1>0, <1>1, <2>1, TypedStep
<1>3. made.session <= made'.session
  BY <1>0 DEF SessionConstants
<1>4. Grows
  BY <1>3 DEF Grows
<1>5. MemOK(p)'
  BY <1>4, MemStays
<1>6. OwnInv(p)' /\ call'[p] \in PlanCall /\ call'[p].plan = i
  BY <1>2, <1>5, BeginPlan
<1>7. call'[p] \notin SaveCall
  <2>1. call'[p] \in Call
    BY <1>6 DEF Call
  <2> QED
    BY <1>6, <2>1, KindsDiffer
<1> QED
  BY <1>2, <1>3, <1>6, <1>7, QuietStep

\* A plan of the process's session is there and was drawn.
LEMMA KnownPlan ==
  ASSUME SessionConstants, FilesInv, NEW p \in Proc, NEW i, i \in 0..MaxPlan \/ i \in Pid, Known(p, i)
  PROVE  /\ i \in Pid /\ plan[i] \in PlanRow /\ plan[i].status # "none"
         /\ plan[i].session = mem[p].id /\ mem[p].id # 0 /\ plan[i].text # 0 /\ i <= made.plan
<1>1. FilesTyped /\ PlansOK
  BY DEF FilesInv
<1>2. i \in Pid /\ plan[i].status # "none" /\ plan[i].session = mem[p].id
  BY DEF Known, Pid, SessionConstants
<1>3. plan[i] \in PlanRow /\ made.plan \in 0..MaxPlan
  BY <1>1, <1>2 DEF FilesTyped
<1>4. plan[i].session # 0 /\ plan[i].text # 0 /\ ~(i > made.plan)
  BY <1>1, <1>2 DEF PlansOK
<1> QED
  BY <1>2, <1>3, <1>4 DEF Pid, SessionConstants

\* A plan with another state, and one with another text too.
Marked(a, st) == [a EXCEPT !.status = st]
Rewritten(a, st, t) == [a EXCEPT !.status = st, !.text = t]
NewPlan(s, t) == [NoPlan EXCEPT !.session = s, !.status = "draft", !.text = t]

LEMMA Marking ==
  ASSUME NEW a \in PlanRow, NEW st \in {"draft", "finalized", "approved", "rejected", "canceled"}
  PROVE  /\ Marked(a, st) \in PlanRow /\ Marked(a, st).session = a.session
         /\ Marked(a, st).status = st /\ Marked(a, st).text = a.text
BY DEF PlanRow, Marked

LEMMA Rewriting ==
  ASSUME NEW a \in PlanRow, NEW st \in {"draft", "finalized"}, NEW t \in Nat
  PROVE  /\ Rewritten(a, st, t) \in PlanRow /\ Rewritten(a, st, t).session = a.session
         /\ Rewritten(a, st, t).status = st /\ Rewritten(a, st, t).text = t
BY DEF PlanRow, Rewritten

LEMMA Drafting ==
  ASSUME SessionConstants, NEW s \in 0..MaxSession, NEW t \in Nat
  PROVE  /\ NewPlan(s, t) \in PlanRow /\ NewPlan(s, t).session = s
         /\ NewPlan(s, t).status = "draft" /\ NewPlan(s, t).text = t
<1>1. NoPlan \in PlanRow
  BY DEF NoPlan, PlanRow, SessionConstants
<1> QED
  BY <1>1 DEF NewPlan, PlanRow

LEMMA DraftStep ==
  ASSUME SessionConstants, FilesInv, NEW p \in Proc, createDraftPlan(p)
  PROVE  FilesInv'
<1> DEFINE n == made.plan + 1
           x == [NoPlan EXCEPT !.session = mem[p].id, !.status = "draft", !.text = made.text + 1]
<1>0. /\ FilesTyped /\ PlansOK /\ mem[p] \in SessionRow /\ plan \in [Pid -> PlanRow]
      /\ made \in [session : 0..MaxSession, snap : 0..MaxSnap, plan : 0..MaxPlan, text : Nat]
  BY DEF FilesInv, FilesTyped
<1>1. /\ UNCHANGED <<file, ws, index, snap, plan, lockS, lockP, lockW, mem>> /\ mem[p].id # 0
      /\ made.plan < MaxPlan /\ made' = [made EXCEPT !.plan = @ + 1, !.text = @ + 1]
      /\ Goto(p, Writing([NoPlan EXCEPT !.session = mem[p].id, !.status = "draft", !.text = made'.text],
                         made'.plan, "open"))
  BY DEF createDraftPlan, plans
<1>2. n \in Pid /\ n > made.plan /\ made.plan <= n /\ made.text \in Nat
  BY <1>0, <1>1 DEF Pid, SessionConstants
<1>3. /\ made' \in [session : 0..MaxSession, snap : 0..MaxSnap, plan : 0..MaxPlan, text : Nat]
      /\ made'.session = made.session /\ made'.plan = n /\ made'.text = made.text + 1
  <2>1. n \in 0..MaxPlan /\ made.text + 1 \in Nat
    BY <1>2 DEF Pid
  <2>2. made' = [made EXCEPT !.plan = n, !.text = made.text + 1]
    BY <1>1
  <2> HIDE DEF n
  <2> QED
    BY <1>0, <2>1, <2>2
<1>4. plan[n].status = "none"
  BY <1>0, <1>2 DEF PlansOK
<1>5. PICK y \in PlanRow : y = x /\ y.session = mem[p].id /\ y.status = "draft" /\ y.text = made.text + 1
  <2>1. mem[p].id \in 0..MaxSession /\ 0 \in Nat /\ made.text + 1 \in Nat
    BY <1>0, <1>2 DEF SessionRow
  <2>2. x = NewPlan(mem[p].id, made.text + 1)
    BY DEF NewPlan
  <2> QED
    BY <2>1, <2>2, Drafting
<1>6. Goto(p, Writing(y, n, "open")) /\ y.text # 0 /\ n <= made'.plan
  <2>1. n <= n
    BY <1>2 DEF Pid
  <2> QED
    BY <1>1, <1>2, <1>3, <1>5, <2>1
<1> HIDE DEF n, x
<1> QED
  BY <1>1, <1>2, <1>3, <1>4, <1>5, <1>6, PlanBegins

LEMMA RewriteStep ==
  ASSUME SessionConstants, FilesInv, NEW p \in Proc, updatePlan(p) \/ finalizePlan(p)
  PROVE  FilesInv'
<1> DEFINE i == mem[p].active
<1>0. /\ FilesTyped /\ mem[p] \in SessionRow
      /\ made \in [session : 0..MaxSession, snap : 0..MaxSnap, plan : 0..MaxPlan, text : Nat]
  BY DEF FilesInv, FilesTyped
<1>1. /\ UNCHANGED <<file, ws, index, snap, plan, lockS, lockP, lockW, mem>>
      /\ Known(p, i) /\ plan[i].status \in {"draft", "finalized"}
  BY DEF updatePlan, finalizePlan, activePlan, plans
<1>2. /\ i \in Pid /\ plan[i] \in PlanRow /\ plan[i].status # "none"
      /\ plan[i].session = mem[p].id /\ mem[p].id # 0 /\ plan[i].text # 0 /\ i <= made.plan
  <2>1. i \in 0..MaxPlan
    BY <1>0 DEF SessionRow
  <2> QED
    BY <1>1, <2>1, KnownPlan
<1>3. /\ made' \in [session : 0..MaxSession, snap : 0..MaxSnap, plan : 0..MaxPlan, text : Nat]
      /\ made'.session = made.session /\ made'.plan = made.plan
      /\ updatePlan(p) => made'.text = made.text + 1
  <2>1. CASE updatePlan(p)
    <3>1. made' = [made EXCEPT !.text = @ + 1]
      BY <2>1 DEF updatePlan
    <3> QED
      BY <1>0, <3>1
  <2>2. CASE finalizePlan(p) /\ ~updatePlan(p)
    BY <1>0, <2>2 DEF finalizePlan
  <2> QED
    BY <2>1, <2>2
<1>4. PICK y \in PlanRow : /\ Goto(p, Writing(y, i, "open")) /\ y.session = plan[i].session
                           /\ y.status # "none" /\ y.text # 0
  <2>1. CASE updatePlan(p)
    <3> DEFINE y == Rewritten(plan[i], "draft", made.text + 1)
    <3>1. y \in PlanRow /\ y.session = plan[i].session /\ y.status = "draft" /\ y.text # 0
      <4>1. made.text + 1 \in Nat /\ made.text + 1 # 0
        BY <1>0
      <4> QED
        BY <1>2, <4>1, Rewriting
    <3>2. Goto(p, Writing(y, i, "open"))
      BY <1>3, <2>1 DEF updatePlan, activePlan, Rewritten
    <3> QED
      BY <3>1, <3>2
  <2>2. CASE finalizePlan(p)
    <3> DEFINE t == readText(plan[i])
               y == Rewritten(plan[i], "finalized", t)
    <3>1. t \in Nat /\ t # 0
      BY <1>2 DEF readText, PlanRow
    <3>2. Goto(p, Writing(y, i, "open"))
      BY <2>2 DEF finalizePlan, activePlan, Rewritten
    <3> HIDE DEF t
    <3>3. y \in PlanRow /\ y.session = plan[i].session /\ y.status = "finalized" /\ y.text # 0
      BY <1>2, <3>1, Rewriting
    <3> QED
      BY <3>2, <3>3
  <2> QED
    BY <2>1, <2>2
<1>5. made.plan <= made'.plan /\ i <= made'.plan /\ y.session = mem[p].id
  BY <1>0, <1>2, <1>3, <1>4 DEF SessionConstants
<1> HIDE DEF i
<1> QED
  BY <1>1, <1>2, <1>3, <1>4, <1>5, PlanBegins

LEMMA DeclineStep ==
  ASSUME SessionConstants, FilesInv, NEW p \in Proc, markDeclined(p)
  PROVE  FilesInv'
<1>0. /\ FilesTyped /\ plan \in [Pid -> PlanRow]
      /\ made \in [session : 0..MaxSession, snap : 0..MaxSnap, plan : 0..MaxPlan, text : Nat]
  BY DEF FilesInv, FilesTyped
<1>1. UNCHANGED <<file, ws, index, snap, plan, lockS, lockP, lockW, mem, made>>
  BY DEF markDeclined, plans
<1>2. PICK i \in Pid, status \in {"rejected", "canceled"} :
         Known(p, i) /\ Goto(p, Writing([plan[i] EXCEPT !.status = status], i, "declined"))
  BY <1>0 DEF markDeclined
<1>3. /\ plan[i] \in PlanRow /\ plan[i].status # "none"
      /\ plan[i].session = mem[p].id /\ mem[p].id # 0 /\ plan[i].text # 0 /\ i <= made.plan
  BY <1>2, KnownPlan
<1>4. PICK y \in PlanRow : /\ y = Marked(plan[i], status) /\ y.session = plan[i].session
                           /\ y.status = status /\ y.text = plan[i].text
  BY <1>3, Marking
<1>5. Goto(p, Writing(y, i, "declined")) /\ y.status # "none"
  BY <1>2, <1>4 DEF Marked
<1>6. made.plan <= made'.plan /\ i <= made'.plan /\ y.session = mem[p].id
  BY <1>0, <1>1, <1>3, <1>4 DEF SessionConstants
<1>7. made' \in [session : 0..MaxSession, snap : 0..MaxSnap, plan : 0..MaxPlan, text : Nat]
      /\ made'.session = made.session
  BY <1>0, <1>1
<1> QED
  BY <1>1, <1>3, <1>4, <1>5, <1>6, <1>7, PlanBegins

LEMMA ReviewStep ==
  ASSUME SessionConstants, FilesInv, NEW p \in Proc, markApproved(p)
  PROVE  FilesInv'
<1>0. /\ FilesTyped /\ PlansOK /\ plan \in [Pid -> PlanRow] /\ call \in [Proc -> Call] /\ SeedOK(p)
      /\ made \in [session : 0..MaxSession, snap : 0..MaxSnap, plan : 0..MaxPlan, text : Nat]
  BY DEF FilesInv, FilesTyped, OwnInv
<1>1. UNCHANGED <<file, ws, index, snap, plan, lockS, lockP, lockW, mem, made>>
  BY DEF markApproved, plans
<1>2. PICK c \in SeedCall : c = call[p] /\ c.pc = "review"
  <2>1. call[p].pc = "review" /\ call[p] \in Call
    BY <1>0 DEF markApproved, At
  <2> QED
    BY <2>1, Kinds
<1>3. /\ c.plan \in Pid /\ plan[c.plan] \in PlanRow /\ plan[c.plan].status # "none"
      /\ plan[c.plan].session = mem[p].id /\ mem[p].id # 0 /\ plan[c.plan].progress # 0
  BY <1>0, <1>2 DEF SeedOK, SeedCall
<1>4. made.plan <= made'.plan /\ made.session <= made'.session
  BY <1>0, <1>1 DEF SessionConstants
<1>5. CASE plan[c.plan].status = "finalized"
  <2>1. Goto(p, Writing([plan[c.plan] EXCEPT !.status = "approved"], c.plan, "approved"))
    BY <1>2, <1>5 DEF markApproved
  <2>2. PICK y \in PlanRow : /\ y = Marked(plan[c.plan], "approved")
                             /\ y.session = plan[c.plan].session
                             /\ y.status = "approved" /\ y.text = plan[c.plan].text
    BY <1>3, Marking
  <2>3. y.text # 0 /\ c.plan <= made'.plan
    <3>1. plan[c.plan].text # 0 /\ ~(c.plan > made.plan)
      BY <1>0, <1>3 DEF PlansOK
    <3> QED
      BY <1>0, <1>1, <1>3, <2>2, <3>1 DEF Pid, SessionConstants
  <2>4. /\ made' \in [session : 0..MaxSession, snap : 0..MaxSnap, plan : 0..MaxPlan, text : Nat]
        /\ made'.session = made.session /\ y.session = mem[p].id /\ y.status # "none"
        /\ Goto(p, Writing(y, c.plan, "approved"))
    BY <1>0, <1>1, <1>3, <2>1, <2>2 DEF Marked
  <2> QED
    BY <1>1, <1>3, <1>4, <2>3, <2>4, PlanBegins
<1>6. CASE plan[c.plan].status # "finalized"
  <2>1. Goto(p, Idle)
    BY <1>2, <1>6 DEF markApproved
  <2>2. FilesTyped' /\ call'[p] = Idle /\ \A q \in Proc \ {p} : call'[q] = call[q]
    <3> HIDE DEF Goto
    <3>1. /\ lockW' \in Proc \cup {"free"} /\ mem' \in [Proc -> SessionRow] /\ snap' \in [Wid -> SnapPhase]
          /\ made' \in [session : 0..MaxSession, snap : 0..MaxSnap, plan : 0..MaxPlan, text : Nat]
          /\ Idle \in Call
      BY <1>0, <1>1, IdleIsNone DEF FilesTyped
    <3> QED
      BY <1>0, <1>1, <2>1, <3>1, TypedStep
  <2>3. Grows
    BY <1>1, <1>4 DEF Grows
  <2>4. MemOK(p)'
    BY <1>1, <2>3, MemStays
  <2>5. OwnInv(p)'
    BY <2>2, <2>4, OwnIdle
  <2> QED
    BY <1>1, <1>4, <2>2, <2>5, IdleIsNone, QuietStep
<1> QED
  BY <1>5, <1>6

\* A call that begins to seed or to rewrite progress.json.
LEMMA SeedBegins ==
  ASSUME SessionConstants, FilesInv, NEW p \in Proc, NEW i \in Pid, NEW t \in Nat, t # 0,
         NEW then \in {"review", "idle"},
         Goto(p, [pc |-> "seed", plan |-> i, text |-> t, then |-> then]),
         UNCHANGED <<file, ws, index, snap, plan, lockS, lockP, lockW, mem, made>>,
         plan[i].status # "none", plan[i].session = mem[p].id, mem[p].id # 0
  PROVE  FilesInv'
<1> DEFINE c == [pc |-> "seed", plan |-> i, text |-> t, then |-> then]
<1>0. /\ FilesTyped /\ mem \in [Proc -> SessionRow] /\ snap \in [Wid -> SnapPhase]
      /\ lockW \in Proc \cup {"free"}
      /\ made \in [session : 0..MaxSession, snap : 0..MaxSnap, plan : 0..MaxPlan, text : Nat]
  BY DEF FilesInv, FilesTyped
<1>1. c \in SeedCall /\ c.pc = "seed" /\ c.plan = i /\ c.text = t /\ Goto(p, c)
  BY DEF SeedCall
<1> HIDE DEF c
<1>2. c \in Call /\ c \notin SaveCall /\ c \notin PlanCall
  <2>1. c \in Call
    BY <1>1 DEF Call
  <2> QED
    BY <1>1, <2>1, KindsDiffer
<1>3. FilesTyped' /\ call'[p] = c /\ \A q \in Proc \ {p} : call'[q] = call[q]
  <2> HIDE DEF Goto
  <2>1. /\ lockW' \in Proc \cup {"free"} /\ mem' \in [Proc -> SessionRow] /\ snap' \in [Wid -> SnapPhase]
        /\ made' \in [session : 0..MaxSession, snap : 0..MaxSnap, plan : 0..MaxPlan, text : Nat]
    BY <1>0
  <2> QED
    BY <1>0, <1>1, <1>2, <2>1, TypedStep
<1>4. made.plan <= made'.plan /\ made.session <= made'.session
  BY <1>0 DEF SessionConstants
<1>5. Grows
  BY <1>4 DEF Grows
<1>6. MemOK(p)'
  BY <1>5, MemStays
<1>7. SeedOK(p)'
  BY <1>1, <1>3 DEF SeedOK
<1>8. OwnInv(p)'
  BY <1>1, <1>3, <1>6, <1>7, OwnSeed
<1> QED
  BY <1>2, <1>3, <1>4, <1>8, QuietStep

LEMMA ApproveStep ==
  ASSUME SessionConstants, FilesInv, NEW p \in Proc, approvePlan(p)
  PROVE  FilesInv'
<1>0. FilesTyped /\ plan \in [Pid -> PlanRow]
  BY DEF FilesInv, FilesTyped
<1>1. UNCHANGED <<file, ws, index, snap, plan, lockS, lockP, lockW, mem, made>>
  BY DEF approvePlan, plans
<1>2. PICK i \in Pid : /\ Known(p, i)
                       /\ Goto(p, [pc |-> "seed", plan |-> i, text |-> plan[i].text, then |-> "review"])
  BY <1>0 DEF approvePlan
<1>3. /\ plan[i] \in PlanRow /\ plan[i].status # "none"
      /\ plan[i].session = mem[p].id /\ mem[p].id # 0 /\ plan[i].text # 0
  BY <1>2, KnownPlan
<1>4. plan[i].text \in Nat
  BY <1>3 DEF PlanRow
<1> QED
  BY <1>1, <1>2, <1>3, <1>4, SeedBegins

LEMMA ProgressStep ==
  ASSUME SessionConstants, FilesInv, NEW p \in Proc, updatePlanProgress(p)
  PROVE  FilesInv'
<1> DEFINE i == mem[p].approved
<1>0. FilesTyped /\ plan \in [Pid -> PlanRow] /\ mem[p] \in SessionRow
  BY DEF FilesInv, FilesTyped
<1>1. UNCHANGED <<file, ws, index, snap, plan, lockS, lockP, lockW, mem, made>>
  BY DEF updatePlanProgress, plans
<1>2. /\ Known(p, i) /\ plan[i].progress # 0
      /\ Goto(p, [pc |-> "seed", plan |-> i, text |-> plan[i].progress, then |-> "idle"])
  BY <1>0 DEF updatePlanProgress
<1>3. /\ i \in Pid /\ plan[i] \in PlanRow /\ plan[i].status # "none"
      /\ plan[i].session = mem[p].id /\ mem[p].id # 0
  <2>1. i \in 0..MaxPlan
    BY <1>0 DEF SessionRow
  <2> QED
    BY <1>2, <2>1, KnownPlan
<1>4. plan[i].progress \in Nat
  BY <1>3 DEF PlanRow
<1> HIDE DEF i
<1> QED
  BY <1>1, <1>2, <1>3, <1>4, SeedBegins

\* ---- the files of a plan ---------------------------------------------------------

\* What a step that writes a file of plan i keeps for all others.
PlanGrows(i) ==
    /\ \A j \in Pid \ {i} : plan'[j] = plan[j]
    /\ plan[i].progress # 0 => plan'[i].progress # 0
    /\ plan[i].status # "none" => plan'[i].status # "none" /\ plan'[i].session = plan[i].session

LEMMA PlanGrowing ==
  ASSUME SessionConstants, FilesTyped, NEW i \in Pid, PlanGrows(i), UNCHANGED <<file, snap, made>>
  PROVE  Grows
<1>1. made.plan <= made'.plan /\ made.session <= made'.session
  BY DEF FilesTyped, SessionConstants
<1> QED
  BY <1>1 DEF Grows, PlanGrows

\* A step that writes a file of plan i: only the one call that draws it makes it.
LEMMA PlanFileStep ==
  ASSUME SessionConstants, FilesInv, FilesTyped', PlansOK', NEW p \in Proc, NEW i \in Pid, PlanGrows(i),
         UNCHANGED <<file, ws, index, snap, lockS, lockW, mem, made>>,
         \A q \in Proc \ {p} : call'[q] = call[q],
         plan[i].status = "none" => call[p] \in PlanCall /\ call[p].plan = i,
         OwnInv(p)',
         call'[p] \in SaveCall => Written(call'[p].draft.id, file),
         call'[p] \in PlanCall => call[p] \in PlanCall /\ call'[p].plan = call[p].plan
  PROVE  FilesInv'
<1>0. FilesTyped /\ PlansOK /\ UniqueInv
  BY DEF FilesInv
<1>1. Grows
  BY <1>0, PlanGrowing
<1>2. ASSUME NEW q \in Proc \ {p} PROVE Undisturbed(q)
  <2>1. ASSUME call[q] \in PlanCall, plan[call[q].plan].status = "none"
        PROVE  plan'[call[q].plan].status = "none"
    <3>1. call[q].plan \in Pid
      BY <2>1 DEF PlanCall
    <3>2. call[q].plan # i
      BY <1>0, <2>1 DEF UniqueInv
    <3> QED
      BY <2>1, <3>1, <3>2 DEF PlanGrows
  <2> QED
    BY <2>1 DEF Undisturbed
<1>3. FilesOK'
  BY <1>1, FilesStay
<1>4. \A q \in Proc : OwnInv(q)'
  BY <1>1, <1>2, OthersStay
<1>5. call'[p] \in SaveCall => Written(call'[p].draft.id, file')
  OBVIOUS
<1>6. UniqueInv'
  BY <1>1, <1>2, <1>5, UniqueStays
<1> QED
  BY <1>3, <1>4, <1>6 DEF FilesInv

\* A plan with another file written.
Seeded(a, t) == [a EXCEPT !.progress = t]
Described(a, t) == [a EXCEPT !.md = t]
Replaced(n, a) == [n EXCEPT !.md = a.md, !.progress = a.progress]

LEMMA PlanFiles ==
  ASSUME NEW a \in PlanRow, NEW n \in PlanRow, NEW t \in Nat
  PROVE  /\ Seeded(a, t) \in PlanRow /\ Seeded(a, t).session = a.session /\ Seeded(a, t).text = a.text
         /\ Seeded(a, t).status = a.status /\ Seeded(a, t).progress = t
         /\ Described(a, t) \in PlanRow /\ Described(a, t).session = a.session
         /\ Described(a, t).text = a.text /\ Described(a, t).status = a.status
         /\ Described(a, t).progress = a.progress
         /\ Replaced(n, a) \in PlanRow /\ Replaced(n, a).session = n.session
         /\ Replaced(n, a).text = n.text /\ Replaced(n, a).status = n.status
         /\ Replaced(n, a).progress = a.progress
<1>1. /\ Seeded(a, t) \in PlanRow /\ Seeded(a, t).session = a.session /\ Seeded(a, t).text = a.text
      /\ Seeded(a, t).status = a.status /\ Seeded(a, t).progress = t
  BY DEF PlanRow, Seeded
<1>2. /\ Described(a, t) \in PlanRow /\ Described(a, t).session = a.session
      /\ Described(a, t).text = a.text /\ Described(a, t).status = a.status
      /\ Described(a, t).progress = a.progress
  BY DEF PlanRow, Described
<1>3. a.md \in Nat /\ a.progress \in Nat
  BY DEF PlanRow
<1>4. /\ Replaced(n, a) \in PlanRow /\ Replaced(n, a).session = n.session
      /\ Replaced(n, a).text = n.text /\ Replaced(n, a).status = n.status
      /\ Replaced(n, a).progress = a.progress
  BY <1>3 DEF PlanRow, Replaced
<1> QED
  BY <1>1, <1>2, <1>4

\* The plans stay sound when the one that is written is.
LEMMA PlansStay ==
  ASSUME FilesTyped, PlansOK, NEW i \in Pid, NEW x \in PlanRow, plan' = [plan EXCEPT ![i] = x], UNCHANGED made,
         x.status # "none", x.session # 0, x.text # 0, i <= made.plan,
         plan[i].progress # 0 => x.progress # 0,
         plan[i].status # "none" => x.session = plan[i].session
  PROVE  /\ plan' \in [Pid -> PlanRow] /\ plan'[i] = x /\ PlansOK' /\ PlanGrows(i)
<1>1. plan \in [Pid -> PlanRow] /\ made.plan \in 0..MaxPlan
  BY DEF FilesTyped
<1>2. plan' \in [Pid -> PlanRow] /\ plan'[i] = x /\ \A j \in Pid \ {i} : plan'[j] = plan[j]
  BY <1>1
<1>3. PlansOK'
  <2> SUFFICES ASSUME NEW j \in Pid
               PROVE  /\ plan'[j].status # "none" => plan'[j].session # 0 /\ plan'[j].text # 0
                      /\ plan'[j].progress # 0 => plan'[j].status # "none"
                      /\ j > made.plan => plan'[j].status = "none"
    BY DEF PlansOK
  <2>1. CASE j = i
    <3>1. ~(i > made.plan)
      BY <1>1 DEF Pid
    <3> QED
      BY <1>2, <2>1, <3>1
  <2>2. CASE j # i
    BY <1>2, <2>2 DEF PlansOK
  <2> QED
    BY <2>1, <2>2
<1>4. PlanGrows(i)
  BY <1>2 DEF PlanGrows
<1> QED
  BY <1>2, <1>3, <1>4

LEMMA SeedStep ==
  ASSUME SessionConstants, FilesInv, NEW p \in Proc, seedPlanProgress(p)
  PROVE  FilesInv'
<1>0. /\ FilesTyped /\ PlansOK /\ plan \in [Pid -> PlanRow] /\ call \in [Proc -> Call] /\ SeedOK(p)
      /\ made \in [session : 0..MaxSession, snap : 0..MaxSnap, plan : 0..MaxPlan, text : Nat]
  BY DEF FilesInv, FilesTyped, OwnInv
<1>1. UNCHANGED <<file, ws, index, snap, lockS, lockP, lockW, mem, made>>
  BY DEF seedPlanProgress
<1>2. PICK c \in SeedCall : c = call[p] /\ c.pc = "seed"
  <2>1. call[p].pc = "seed" /\ call[p] \in Call
    BY <1>0 DEF seedPlanProgress, At
  <2> QED
    BY <2>1, Kinds
<1>3. PICK i \in Pid : i = c.plan
  BY DEF SeedCall
<1>4. /\ plan[i] \in PlanRow /\ plan[i].status # "none" /\ c.text # 0 /\ c.text \in Nat
      /\ c.then = "review" => plan[i].session = mem[p].id /\ mem[p].id # 0
  BY <1>0, <1>2, <1>3 DEF SeedOK, SeedCall
<1>5. PICK x \in PlanRow : x = Seeded(plan[i], c.text) /\ x.session = plan[i].session /\ x.text = plan[i].text
                           /\ x.status = plan[i].status /\ x.progress = c.text
  BY <1>4, PlanFiles
<1>6. plan' = [plan EXCEPT ![i] = x]
  <2>1. plan' = [plan EXCEPT ![i].progress = c.text]
    BY <1>2, <1>3 DEF seedPlanProgress
  <2> QED
    BY <1>5, <2>1 DEF Seeded
<1>7. x.session # 0 /\ x.text # 0 /\ i <= made.plan
  <2>1. plan[i].session # 0 /\ plan[i].text # 0 /\ ~(i > made.plan)
    BY <1>0, <1>4 DEF PlansOK
  <2> QED
    BY <1>0, <1>5, <2>1 DEF Pid, SessionConstants
<1>8. plan' \in [Pid -> PlanRow] /\ plan'[i] = x /\ PlansOK' /\ PlanGrows(i)
  BY <1>0, <1>1, <1>4, <1>5, <1>6, <1>7, PlansStay
<1>9. PICK e \in Call : call' = [call EXCEPT ![p] = e]
                        /\ (e = Idle \/ (e \in SeedCall /\ e.pc = "review" /\ c.then = "review"
                                         /\ e.plan = i /\ e.text = c.text))
  <2>1. CASE c.then = "review"
    <3>1. call' = [call EXCEPT ![p] = [c EXCEPT !.pc = "review"]]
      BY <1>2, <2>1 DEF seedPlanProgress, Step
    <3>2. /\ [c EXCEPT !.pc = "review"] \in SeedCall /\ [c EXCEPT !.pc = "review"].pc = "review"
          /\ [c EXCEPT !.pc = "review"].plan = c.plan /\ [c EXCEPT !.pc = "review"].text = c.text
      BY DEF SeedCall
    <3> QED
      BY <1>3, <2>1, <3>1, <3>2 DEF Call
  <2>2. CASE c.then # "review"
    BY <1>2, <2>2, IdleIsNone DEF seedPlanProgress, Goto
  <2> QED
    BY <2>1, <2>2
<1>10. call' \in [Proc -> Call] /\ call'[p] = e /\ \A q \in Proc \ {p} : call'[q] = call[q]
  BY <1>0, <1>9
<1>11. FilesTyped'
  BY <1>0, <1>1, <1>8, <1>10 DEF FilesTyped
<1>12. Grows
  BY <1>0, <1>1, <1>8, PlanGrowing
<1>13. MemOK(p)'
  BY <1>1, <1>12, MemStays
<1>14. OwnInv(p)'
  <2>1. CASE e = Idle
    BY <1>10, <1>13, <2>1, OwnIdle
  <2>2. CASE e \in SeedCall /\ e.pc = "review" /\ c.then = "review" /\ e.plan = i /\ e.text = c.text
    <3>1. SeedOK(p)'
      BY <1>1, <1>4, <1>5, <1>8, <1>10, <2>2 DEF SeedOK
    <3> QED
      BY <1>10, <1>13, <2>2, <3>1, OwnSeed
  <2> QED
    BY <1>9, <2>1, <2>2
<1>15. e \notin SaveCall /\ e \notin PlanCall
  BY <1>9, KindsDiffer, IdleIsNone
<1> QED
  BY <1>1, <1>4, <1>8, <1>10, <1>11, <1>14, <1>15, PlanFileStep

LEMMA JsonStep ==
  ASSUME SessionConstants, FilesInv, NEW p \in Proc, WritePlanJson(p)
  PROVE  FilesInv'
<1>0. /\ FilesTyped /\ PlansOK /\ plan \in [Pid -> PlanRow] /\ call \in [Proc -> Call] /\ PlanOK(p)
      /\ lockP \in [Pid -> Proc \cup {"free"}]
  BY DEF FilesInv, FilesTyped, OwnInv
<1>1. UNCHANGED <<file, ws, index, snap, lockS, lockW, mem, made>>
  BY DEF WritePlanJson
<1>2. PICK c \in PlanCall : c = call[p] /\ c.pc = "planLock"
  <2>1. call[p].pc = "planLock" /\ call[p] \in Call
    BY <1>0 DEF WritePlanJson, At
  <2> QED
    BY <2>1, Kinds
<1>3. PICK i \in Pid : i = c.plan
  BY DEF PlanCall
<1>4a. c.op = "approved" => plan[i].progress # 0
  BY <1>0, <1>2, <1>3 DEF PlanOK
<1>4b. plan[i].status # "none" => plan[i].session = mem[p].id
  BY <1>0, <1>2, <1>3 DEF PlanOK
<1>4c. /\ c.next.session = mem[p].id /\ mem[p].id # 0 /\ c.next.status # "none" /\ c.next.text # 0
       /\ i <= made.plan
  BY <1>0, <1>2, <1>3 DEF PlanOK
<1>4d. plan[i] \in PlanRow /\ c.next \in PlanRow
  BY <1>0 DEF PlanCall
<1>5. PICK x \in PlanRow : x = Replaced(c.next, plan[i]) /\ x.session = mem[p].id /\ x.text = c.next.text
                           /\ x.status = c.next.status /\ x.progress = plan[i].progress
  BY <1>4c, <1>4d, PlanFiles
<1>6. plan' = [plan EXCEPT ![i] = x]
  <2>1. plan' = [plan EXCEPT ![i] = [c.next EXCEPT !.md = plan[i].md, !.progress = plan[i].progress]]
    BY <1>2, <1>3 DEF WritePlanJson
  <2> QED
    BY <1>5, <2>1 DEF Replaced
<1>8. plan' \in [Pid -> PlanRow] /\ plan'[i] = x /\ PlansOK' /\ PlanGrows(i)
  BY <1>0, <1>1, <1>4b, <1>4c, <1>5, <1>6, PlansStay
<1>9. PICK e \in PlanCall : /\ call' = [call EXCEPT ![p] = e] /\ e.next = c.next /\ e.plan = i /\ e.op = c.op
  <2>1. call' = [call EXCEPT ![p] = [c EXCEPT !.pc = "planMd"]]
    BY <1>2 DEF WritePlanJson, Step
  <2>2. /\ [c EXCEPT !.pc = "planMd"] \in PlanCall /\ [c EXCEPT !.pc = "planMd"].next = c.next
        /\ [c EXCEPT !.pc = "planMd"].plan = c.plan /\ [c EXCEPT !.pc = "planMd"].op = c.op
    BY DEF PlanCall
  <2> QED
    BY <1>3, <2>1, <2>2
<1>10. call' \in [Proc -> Call] /\ call'[p] = e /\ \A q \in Proc \ {p} : call'[q] = call[q]
  BY <1>0, <1>9 DEF Call
<1>10a. lockP' \in [Pid -> Proc \cup {"free"}]
  BY <1>0 DEF WritePlanJson
<1>11. FilesTyped'
  BY <1>0, <1>1, <1>8, <1>10, <1>10a DEF FilesTyped
<1>12. Grows
  BY <1>0, <1>1, <1>8, PlanGrowing
<1>13. MemOK(p)'
  BY <1>1, <1>12, MemStays
<1>14. PlanOK(p)'
  BY <1>1, <1>4a, <1>4c, <1>5, <1>8, <1>9, <1>10 DEF PlanOK
<1>15. OwnInv(p)'
  BY <1>10, <1>13, <1>14, OwnPlan
<1>16. e \notin SaveCall
  BY KindsDiffer DEF Call
<1> QED
  BY <1>1, <1>2, <1>3, <1>8, <1>9, <1>10, <1>11, <1>15, <1>16, PlanFileStep

LEMMA MdStep ==
  ASSUME SessionConstants, FilesInv, NEW p \in Proc, WritePlanMd(p)
  PROVE  FilesInv'
<1>0. /\ FilesTyped /\ PlansOK /\ plan \in [Pid -> PlanRow] /\ call \in [Proc -> Call] /\ PlanOK(p)
      /\ lockP \in [Pid -> Proc \cup {"free"}]
      /\ made \in [session : 0..MaxSession, snap : 0..MaxSnap, plan : 0..MaxPlan, text : Nat]
  BY DEF FilesInv, FilesTyped, OwnInv
<1>1. UNCHANGED <<file, ws, index, snap, lockS, lockW, mem, made>>
  BY DEF WritePlanMd
<1>2. PICK c \in PlanCall : c = call[p] /\ c.pc = "planMd"
  <2>1. call[p].pc = "planMd" /\ call[p] \in Call
    BY <1>0 DEF WritePlanMd, At
  <2> QED
    BY <2>1, Kinds
<1>3. PICK i \in Pid : i = c.plan
  BY DEF PlanCall
<1>4. /\ mem[p].id # 0 /\ i <= made.plan
      /\ plan[i].status # "none" /\ plan[i].session = mem[p].id
      /\ c.op = "approved" => plan[i].progress # 0
  BY <1>0, <1>2, <1>3 DEF PlanOK
<1>4a. plan[i] \in PlanRow /\ c.next.text \in Nat /\ c.op \in {"open", "approved", "declined"}
  BY <1>0 DEF PlanCall, PlanRow
<1>5. PICK x \in PlanRow : x = Described(plan[i], c.next.text) /\ x.session = plan[i].session
                           /\ x.text = plan[i].text
                           /\ x.status = plan[i].status /\ x.progress = plan[i].progress
  BY <1>4a, PlanFiles
<1>6. plan' = [plan EXCEPT ![i] = x]
  <2>1. plan' = [plan EXCEPT ![i].md = c.next.text]
    BY <1>2, <1>3 DEF WritePlanMd
  <2> QED
    BY <1>5, <2>1 DEF Described
<1>7. x.session # 0 /\ x.text # 0
  BY <1>0, <1>4, <1>5 DEF PlansOK
<1>8. plan' \in [Pid -> PlanRow] /\ plan'[i] = x /\ PlansOK' /\ PlanGrows(i)
  BY <1>0, <1>1, <1>4, <1>5, <1>6, <1>7, PlansStay
<1> DEFINE m == [op |-> c.op, plan |-> i]
<1>9. m \in Mutator /\ m.op = c.op /\ m.plan = i
  BY <1>4a DEF Mutator, Planning
<1>10. Goto(p, Saving(mem[p], m, "idle"))
  BY <1>2, <1>3 DEF WritePlanMd
<1> HIDE DEF m
<1>11. /\ mem[p] \in SessionRow /\ Sound(mem[p], snap, plan)
       /\ Written(mem[p].id, file) /\ mem[p].id <= made.session
  BY <1>4, Held
<1>12. Saving(mem[p], m, "idle") \in Call
  BY <1>9, <1>11, SavingTyped
<1>13. /\ call' \in [Proc -> Call] /\ call'[p] = Saving(mem[p], m, "idle")
       /\ \A q \in Proc \ {p} : call'[q] = call[q]
  BY <1>0, <1>10, <1>12 DEF Goto
<1>13a. lockP' \in [Pid -> Proc \cup {"free"}]
  BY <1>0 DEF WritePlanMd
<1>14. FilesTyped'
  BY <1>0, <1>1, <1>8, <1>13, <1>13a DEF FilesTyped
<1>15. Grows
  BY <1>0, <1>1, <1>8, PlanGrowing
<1>16. MemOK(p)'
  BY <1>1, <1>15, MemStays
<1>17. Sound(mem[p], snap', plan')
  BY <1>0, <1>11, <1>15, SoundStays
<1>18. /\ m.op = "approved" => plan'[m.plan].progress # 0 /\ plan'[m.plan].session = mem[p].id
       /\ m.op # "checkpoint" /\ mem[p].id <= made'.session
  BY <1>1, <1>4, <1>4a, <1>5, <1>8, <1>9, <1>11
<1>19. OwnInv(p)' /\ call'[p] \in SaveCall /\ call'[p].draft.id = mem[p].id
  BY <1>4, <1>9, <1>11, <1>13, <1>14, <1>16, <1>17, <1>18, BeginSave
<1>20. call'[p] \notin PlanCall
  BY <1>19, KindsDiffer DEF Call
<1> QED
  BY <1>1, <1>4, <1>8, <1>11, <1>13, <1>14, <1>19, <1>20, PlanFileStep

\* ---- the steps of a save -----------------------------------------------------------

LEMMA Advancing ==
  ASSUME NEW c \in SaveCall, NEW pc \in Saves
  PROVE  /\ [c EXCEPT !.pc = pc] \in SaveCall /\ [c EXCEPT !.pc = pc].pc = pc
         /\ [c EXCEPT !.pc = pc].lock = c.lock /\ [c EXCEPT !.pc = pc].migrated = c.migrated
         /\ [c EXCEPT !.pc = pc].then = c.then /\ [c EXCEPT !.pc = pc].mutator = c.mutator
         /\ [c EXCEPT !.pc = pc].draft = c.draft /\ [c EXCEPT !.pc = pc].state = c.state
BY DEF SaveCall

\* What the invariant says of a save of p that is at pc.
LEMMA InSave ==
  ASSUME SessionConstants, FilesInv, NEW p \in Proc, NEW pc \in Saves, call[p].pc = pc
  PROVE  /\ call[p] \in SaveCall /\ SaveOK(p) /\ Mutates(p) /\ MemOK(p)
         /\ call[p].draft \in SessionRow /\ call[p].draft.id \in Sid
         /\ call[p].mutator \in Mutator /\ call[p].migrated \in BOOLEAN
         /\ call[p].lock \in {"s", "w"} /\ call[p].then \in {"idle", "restore"} /\ call[p].state \in StateRow
<1>1. call[p] \in SaveCall
  <2>1. call[p] \in Call
    BY DEF FilesInv, FilesTyped
  <2> QED
    BY <2>1, Kinds
<1>2. SaveOK(p) /\ Mutates(p) /\ MemOK(p)
  BY DEF FilesInv, OwnInv
<1>3. call[p].draft.id # 0
  BY <1>1, <1>2 DEF SaveOK
<1> QED
  BY <1>1, <1>2, <1>3 DEF SaveCall, SessionRow, Sid, SessionConstants

LEMMA LockStep ==
  ASSUME SessionConstants, FilesInv, NEW p \in Proc, SaveLock(p)
  PROVE  FilesInv'
<1>0. /\ FilesTyped /\ call \in [Proc -> Call] /\ lockS \in [Sid -> Proc \cup {"free"}]
      /\ made \in [session : 0..MaxSession, snap : 0..MaxSnap, plan : 0..MaxPlan, text : Nat]
  BY DEF FilesInv, FilesTyped
<1>1. /\ UNCHANGED <<file, ws, index, snap, plan, lockP, lockW, mem, made>>
      /\ call[p].pc = "lock" /\ lockS[call[p].draft.id] = "free"
      /\ lockS' = [lockS EXCEPT ![call[p].draft.id] = p]
  BY DEF SaveLock, At, plans
<1>2. /\ call[p] \in SaveCall /\ SaveOK(p) /\ Mutates(p) /\ MemOK(p) /\ call[p].draft.id \in Sid
      /\ call[p].lock \in {"s", "w"}
  BY <1>1, InSave DEF Saves
<1>3. PICK c \in SaveCall : c = call[p]
  BY <1>2
<1> DEFINE pc == IF c.mutator.op = "none" THEN "write" ELSE "read"
<1>4. call' = [call EXCEPT ![p] = [c EXCEPT !.pc = pc]]
  BY <1>3 DEF SaveLock, Step
<1>5. pc \in {"write", "read"} /\ pc \in Saves /\ (pc = "read" <=> c.mutator.op # "none")
  BY DEF Saves
<1> HIDE DEF pc
<1>6. PICK e \in SaveCall : /\ call' = [call EXCEPT ![p] = e] /\ e.pc = pc /\ e.lock = c.lock
                            /\ e.then = c.then /\ e.mutator = c.mutator /\ e.draft = c.draft
  BY <1>4, <1>5, Advancing
<1>7. call' \in [Proc -> Call] /\ call'[p] = e /\ \A q \in Proc \ {p} : call'[q] = call[q]
  BY <1>0, <1>6 DEF Call
<1>8. /\ lockS' \in [Sid -> Proc \cup {"free"}] /\ lockS'[c.draft.id] = p
      /\ \A q \in Proc \ {p} : \A s \in Sid : lockS[s] = q => lockS'[s] = q
  BY <1>0, <1>1, <1>2, <1>3 DEF SessionConstants
<1>9. FilesTyped'
  BY <1>0, <1>1, <1>7, <1>8 DEF FilesTyped
<1>10. made.plan <= made'.plan /\ made.session <= made'.session
  BY <1>0, <1>1 DEF SessionConstants
<1>11. Grows
  BY <1>1, <1>10 DEF Grows
<1>12. MemOK(p)'
  BY <1>1, <1>11, MemStays
<1>13. SaveOK(p)'
  <2>1. c.lock = "s" /\ Sound(c.draft, snap, plan) /\ c.draft.id # 0 /\ c.draft.id <= made.session
    BY <1>1, <1>2, <1>3 DEF SaveOK
  <2> QED
    BY <1>1, <1>5, <1>6, <1>7, <1>8, <2>1 DEF SaveOK, Named
<1>14. Mutates(p)'
  <2>1. /\ c.mutator.op = "approved" =>
             plan[c.mutator.plan].progress # 0 /\ plan[c.mutator.plan].session = c.draft.id
        /\ c.mutator.op = "checkpoint" => snap[c.mutator.snap] # "none"
        /\ c.then = "restore" => c.mutator \in Guarding
    BY <1>2, <1>3 DEF Mutates
  <2> QED
    BY <1>1, <1>5, <1>6, <1>7, <2>1 DEF Mutates
<1>15. OwnInv(p)'
  BY <1>7, <1>12, <1>13, <1>14, OwnSave
<1>16. e \notin PlanCall
  BY KindsDiffer DEF Call
<1> QED
  BY <1>1, <1>3, <1>6, <1>7, <1>8, <1>9, <1>10, <1>15, <1>16, QuietStep

LEMMA MutateStep ==
  ASSUME SessionConstants, FilesInv, NEW p \in Proc, readSessionForMutation(p)
  PROVE  FilesInv'
<1>0. /\ FilesTyped /\ FilesOK /\ call \in [Proc -> Call] /\ file \in [Sid -> SessionRow]
      /\ made \in [session : 0..MaxSession, snap : 0..MaxSnap, plan : 0..MaxPlan, text : Nat]
      /\ \A s \in Sid : file[s].id \in {0, s}
  BY DEF FilesInv, FilesTyped
<1>1. /\ UNCHANGED <<file, ws, index, snap, plan, lockS, lockP, lockW, mem, made>>
      /\ call[p].pc = "read"
  BY DEF readSessionForMutation, At, plans
<1>2. /\ call[p] \in SaveCall /\ SaveOK(p) /\ Mutates(p) /\ MemOK(p) /\ call[p].draft.id \in Sid
      /\ call[p].draft \in SessionRow /\ call[p].mutator \in Mutator
      /\ call[p].lock \in {"s", "w"}
  BY <1>1, InSave DEF Saves
<1>3. PICK c \in SaveCall : c = call[p]
  BY <1>2
<1>4. PICK m \in Mutator : m = c.mutator
  BY <1>2, <1>3
<1>5. PICK i \in Sid : i = c.draft.id
  BY <1>2, <1>3
<1>6. PICK s \in SessionRow : s = IF Readable(i) THEN file[i] ELSE c.draft
  BY <1>0, <1>2, <1>3
<1>7. s.id = i /\ i # 0 /\ Sound(s, snap, plan)
  <2>1. Sound(c.draft, snap, plan) /\ i # 0
    BY <1>2, <1>3, <1>5 DEF SaveOK
  <2>2. Sound(file[i], snap, plan)
    BY <1>0 DEF FilesOK
  <2> QED
    BY <1>5, <1>6, <2>1, <2>2 DEF Readable
<1>8a. m.op # "none"
  BY <1>1, <1>2, <1>3, <1>4 DEF Mutates
<1>8b. m.op = "checkpoint" => snap[m.snap] # "none"
  BY <1>1, <1>2, <1>3, <1>4 DEF Mutates
<1>8c. m.op = "approved" => plan[m.plan].progress # 0 /\ plan[m.plan].session = i
  BY <1>1, <1>2, <1>3, <1>4, <1>5 DEF Mutates
<1>9. PICK t \in SessionRow : /\ t = mutated(m, s) /\ t.id = i /\ Sound(t, snap, plan)
                              /\ \A k \in DOMAIN s.cps : \E j \in DOMAIN t.cps : t.cps[j] = s.cps[k]
                              /\ m.op = "checkpoint" => \E k \in DOMAIN t.cps : t.cps[k].snap = m.snap
  BY <1>7, <1>8a, <1>8b, <1>8c, Mutating
<1>10. call' = [call EXCEPT ![p] = [c EXCEPT !.pc = "write", !.draft = t]]
  <2>1. Readable(c.draft.id) <=> Readable(i)
    BY <1>5
  <2> QED
    BY <1>3, <1>4, <1>5, <1>6, <1>9, <2>1 DEF readSessionForMutation, Goto
<1>11. PICK e \in SaveCall : /\ call' = [call EXCEPT ![p] = e] /\ e.pc = "write" /\ e.lock = c.lock
                             /\ e.then = c.then /\ e.mutator = m /\ e.draft = t
  <2>1. /\ [c EXCEPT !.pc = "write", !.draft = t] \in SaveCall
        /\ [c EXCEPT !.pc = "write", !.draft = t].pc = "write"
        /\ [c EXCEPT !.pc = "write", !.draft = t].lock = c.lock
        /\ [c EXCEPT !.pc = "write", !.draft = t].then = c.then
        /\ [c EXCEPT !.pc = "write", !.draft = t].mutator = c.mutator
        /\ [c EXCEPT !.pc = "write", !.draft = t].draft = t
    BY DEF SaveCall, Saves
  <2> QED
    BY <1>4, <1>10, <2>1
<1>12. call' \in [Proc -> Call] /\ call'[p] = e /\ \A q \in Proc \ {p} : call'[q] = call[q]
  BY <1>0, <1>11 DEF Call
<1>13. FilesTyped'
  BY <1>0, <1>1, <1>12 DEF FilesTyped
<1>14. made.plan <= made'.plan /\ made.session <= made'.session
  BY <1>0, <1>1 DEF SessionConstants
<1>15. Grows
  BY <1>1, <1>14 DEF Grows
<1>16. MemOK(p)'
  BY <1>1, <1>15, MemStays
<1>17. SaveOK(p)'
  <2>1. c.lock = "s" /\ i <= made.session /\ lockS[i] = p
    BY <1>1, <1>2, <1>3, <1>5 DEF SaveOK
  <2> QED
    BY <1>1, <1>7, <1>9, <1>11, <1>12, <2>1 DEF SaveOK, Named
<1>18. Mutates(p)'
  <2>1. \A k \in DOMAIN file[i].cps : \E j \in DOMAIN t.cps : t.cps[j] = file[i].cps[k]
    <3>1. CASE Readable(i)
      BY <1>6, <1>9, <3>1
    <3>2. CASE ~Readable(i)
      <4>1. file[i].id = 0 /\ Sound(file[i], snap, plan)
        BY <1>0, <1>7, <3>2 DEF Readable, FilesOK
      <4>2. file[i].cps = <<>>
        BY <4>1 DEF Sound
      <4> QED
        BY <4>2
    <3> QED
      BY <3>1, <3>2
  <2>2. c.then = "restore" => m \in Guarding
    BY <1>2, <1>3, <1>4 DEF Mutates
  <2> QED
    BY <1>1, <1>8a, <1>8b, <1>8c, <1>9, <1>11, <1>12, <2>1, <2>2 DEF Mutates
<1>19. OwnInv(p)'
  BY <1>12, <1>16, <1>17, <1>18, OwnSave
<1>20. e \notin PlanCall
  BY KindsDiffer DEF Call
<1> QED
  BY <1>1, <1>3, <1>5, <1>9, <1>11, <1>12, <1>13, <1>14, <1>19, <1>20, QuietStep

LEMMA WriteStep ==
  ASSUME SessionConstants, FilesInv, LegacyInv, NEW p \in Proc, WriteSession(p)
  PROVE  FilesInv'
<1>0. /\ FilesTyped /\ FilesOK /\ PlansOK /\ UniqueInv /\ call \in [Proc -> Call]
      /\ file \in [Sid -> SessionRow] /\ \A s \in Sid : file[s].id \in {0, s}
      /\ made \in [session : 0..MaxSession, snap : 0..MaxSnap, plan : 0..MaxPlan, text : Nat]
  BY DEF FilesInv, FilesTyped
<1>1. /\ UNCHANGED <<ws, index, snap, plan, lockS, lockP, lockW, mem, made>>
      /\ call[p].pc = "write"
  BY DEF WriteSession, At, plans
<1>2. /\ call[p] \in SaveCall /\ SaveOK(p) /\ Mutates(p) /\ MemOK(p) /\ call[p].draft.id \in Sid
      /\ call[p].draft \in SessionRow /\ call[p].lock \in {"s", "w"}
  BY <1>1, InSave DEF Saves
<1>3. PICK c \in SaveCall : c = call[p]
  BY <1>2
<1>4. PICK i \in Sid : i = c.draft.id
  BY <1>2, <1>3
<1>5. PICK d \in SessionRow : d = c.draft /\ d.id = i
  BY <1>2, <1>3, <1>4
<1>6. /\ Sound(d, snap, plan) /\ i <= made.session
      /\ c.lock = "w" => lockW = p /\ c.mutator.op = "none"
      /\ c.lock = "s" => lockS[i] = p
  BY <1>1, <1>2, <1>3, <1>4, <1>5 DEF SaveOK
<1>7. file' = [file EXCEPT ![i] = d]
  BY <1>3, <1>4, <1>5 DEF WriteSession
<1>8. /\ file' \in [Sid -> SessionRow] /\ file'[i] = d /\ \A s \in Sid \ {i} : file'[s] = file[s]
      /\ \A s \in Sid : file'[s].id \in {0, s}
  BY <1>0, <1>5, <1>7
<1> DEFINE pc == IF c.lock = "w" THEN "readState" ELSE "lockState"
<1>9. call' = [call EXCEPT ![p] = [c EXCEPT !.pc = pc]]
  BY <1>3 DEF WriteSession, Step
<1>10. pc \in {"readState", "lockState"} /\ pc \in Saves /\ (pc = "readState" <=> c.lock = "w")
  BY DEF Saves, Named
<1> HIDE DEF pc
<1>11. PICK e \in SaveCall : /\ call' = [call EXCEPT ![p] = e] /\ e.pc = pc /\ e.lock = c.lock
                             /\ e.then = c.then /\ e.mutator = c.mutator /\ e.draft = d
  BY <1>5, <1>9, <1>10, Advancing
<1>12. call' \in [Proc -> Call] /\ call'[p] = e /\ \A q \in Proc \ {p} : call'[q] = call[q]
  BY <1>0, <1>11 DEF Call
<1>13. FilesTyped'
  BY <1>0, <1>1, <1>8, <1>12 DEF FilesTyped
<1>14. Grows
  <2>1. made.plan <= made'.plan /\ made.session <= made'.session
    BY <1>0, <1>1 DEF SessionConstants
  <2> QED
    BY <1>1, <1>5, <1>8, <2>1 DEF Grows
<1>15. FilesOK'
  <2>1. ASSUME NEW s \in Sid PROVE Sound(file'[s], snap', plan') /\ (s > made'.session => file'[s].id = 0)
    <3>1. CASE s = i
      <4>1. ~(i > made.session)
        BY <1>0, <1>6 DEF Sid
      <4> QED
        BY <1>1, <1>6, <1>8, <3>1, <4>1
    <3>2. CASE s # i
      BY <1>0, <1>1, <1>8, <3>2 DEF FilesOK
    <3> QED
      BY <3>1, <3>2
  <2>2. Recent(ws, file) /\ (index # 0 => Written(index, file))
    BY <1>0 DEF FilesOK
  <2>3. Recent(ws, file') /\ (index # 0 => Written(index, file'))
    BY <1>14, <2>2, RecentStays, WrittenStays
  <2> QED
    BY <1>1, <2>1, <2>3 DEF FilesOK
<1>16. PlansOK'
  BY <1>0, <1>1 DEF PlansOK
<1>17. MemOK(p)'
  BY <1>1, <1>14, MemStays
<1>18. Written(i, file')
  BY <1>5, <1>8 DEF Written
<1>19. SaveOK(p)'
  <2>1. Sound(d, snap', plan') /\ d.id # 0 /\ d.id <= made'.session
    BY <1>1, <1>5, <1>6 DEF Sid
  <2> QED
    BY <1>1, <1>5, <1>6, <1>10, <1>11, <1>12, <1>18, <2>1 DEF SaveOK
<1>20. Mutates(p)'
  <2>1. /\ c.mutator.op = "approved" =>
             plan[c.mutator.plan].progress # 0 /\ plan[c.mutator.plan].session = d.id
        /\ c.mutator.op = "checkpoint" =>
             snap[c.mutator.snap] # "none" /\ \E k \in DOMAIN d.cps : d.cps[k].snap = c.mutator.snap
        /\ c.then = "restore" => c.mutator \in Guarding
    BY <1>1, <1>2, <1>3, <1>5 DEF Mutates
  <2> QED
    BY <1>1, <1>10, <1>11, <1>12, <2>1 DEF Mutates
<1>21. OwnInv(p)'
  BY <1>12, <1>17, <1>19, <1>20, OwnSave
<1>22. ASSUME NEW q \in Proc \ {p} PROVE Undisturbed(q)
  <2>1. ASSUME call[q] \in SaveCall, call[q].pc = "write",
               call[q].mutator.op # "none" \/ call[q].lock = "w"
        PROVE  file'[call[q].draft.id] = file[call[q].draft.id]
    <3>1. /\ SaveOK(q) /\ call[q].draft.id \in Sid /\ call[q].lock \in {"s", "w"}
      BY <2>1, InSave DEF Saves
    <3>2. call[q].lock = "s" => lockS[call[q].draft.id] = q
      BY <2>1, <3>1 DEF SaveOK
    <3>3. CASE call[q].draft.id # i
      BY <1>8, <3>1, <3>3
    <3>4. CASE call[q].draft.id = i
      <4>1. Written(i, file)
        BY <1>0, <1>2, <1>3, <1>4, <2>1, <3>4 DEF UniqueInv
      <4>2. ~(call[q].lock = "s" /\ c.lock = "s")
        BY <1>6, <3>2, <3>4
      <4>3. legacy = "own" /\ ws.active = 0 /\ i = 1
        <5>1. CASE call[q].lock = "w"
          BY <2>1, <3>1, <3>4, <4>1, <5>1, OwnCreated DEF LegacyInv, Attempts
        <5>2. CASE c.lock = "w"
          BY <1>1, <1>3, <1>4, <1>2, <4>1, <5>2, OwnCreated DEF LegacyInv, Attempts
        <5> QED
          BY <1>2, <1>3, <3>1, <4>2, <5>1, <5>2
      <4>4. file[1] = Own /\ Clear(p)
        BY <4>1, <4>3 DEF LegacyInv
      <4>5. d = Own
        BY <1>2, <1>3, <1>4, <1>5, <4>3, <4>4 DEF Clear
      <4> QED
        BY <1>8, <3>4, <4>3, <4>4, <4>5
    <3> QED
      BY <3>3, <3>4
  <2>2. call'[q] = call[q] /\ mem'[q] = mem[q]
    BY <1>1, <1>12
  <2> QED
    BY <1>1, <2>1, <2>2 DEF Undisturbed
<1>23. \A q \in Proc : OwnInv(q)'
  BY <1>13, <1>14, <1>21, <1>22, OthersStay
<1>24. e \notin PlanCall
  BY KindsDiffer DEF Call
<1>25. UniqueInv'
  BY <1>3, <1>4, <1>5, <1>11, <1>12, <1>13, <1>14, <1>22, <1>24, UniqueStays
<1> QED
  BY <1>13, <1>15, <1>16, <1>23, <1>25 DEF FilesInv

LEMMA StateStep ==
  ASSUME SessionConstants, FilesInv, NEW p \in Proc, LockState(p) \/ ReadState(p)
  PROVE  FilesInv'
<1>0. /\ FilesTyped /\ FilesOK /\ call \in [Proc -> Call] /\ ws \in StateRow
      /\ made \in [session : 0..MaxSession, snap : 0..MaxSnap, plan : 0..MaxPlan, text : Nat]
      /\ lockW \in Proc \cup {"free"}
  BY DEF FilesInv, FilesTyped
<1>1. /\ UNCHANGED <<file, ws, index, snap, plan, lockS, lockP, mem, made>>
      /\ call[p].pc \in {"lockState", "readState"}
  BY DEF LockState, ReadState, At, plans
<1>2. /\ call[p] \in SaveCall /\ SaveOK(p) /\ Mutates(p) /\ MemOK(p) /\ call[p].draft.id \in Sid
      /\ call[p].lock \in {"s", "w"} /\ call[p].migrated \in BOOLEAN
  BY <1>1, InSave DEF Saves, Named
<1>3. PICK c \in SaveCall : c = call[p]
  BY <1>2
<1>4. PICK i \in Sid : i = c.draft.id
  BY <1>2, <1>3
<1>5. /\ Sound(c.draft, snap, plan) /\ i <= made.session /\ i # 0 /\ Written(i, file)
      /\ c.lock = "w" => lockW = p /\ c.mutator.op = "none" /\ c.pc # "lockState"
      /\ c.lock = "s" => lockS[i] = p
      /\ c.pc = "readState" => lockW = p
  BY <1>1, <1>2, <1>3, <1>4 DEF SaveOK, Named
<1>6. PICK e \in SaveCall :
         /\ call' = [call EXCEPT ![p] = e] /\ e.lock = c.lock
         /\ e.then = c.then /\ e.mutator = c.mutator /\ e.draft = c.draft
         /\ \/ e.pc = "readState"
            \/ /\ e.pc = "writeState" /\ e.state.active = i
               /\ Recent(e.state, file) /\ Kept(e.state, ws)
         /\ lockW' = p /\ (lockW = "free" \/ lockW = p)
  <2>1. CASE LockState(p)
    <3>1. call' = [call EXCEPT ![p] = [c EXCEPT !.pc = "readState"]] /\ lockW' = p /\ lockW = "free"
      BY <1>3, <2>1 DEF LockState, Step
    <3>2. "readState" \in Saves
      BY DEF Saves, Named
    <3> QED
      BY <3>1, <3>2, Advancing
  <2>2. CASE ReadState(p)
    <3>1. /\ call' = [call EXCEPT ![p] = [c EXCEPT !.pc = "writeState",
                                                   !.state = recorded(ws, i, c.migrated)]]
          /\ UNCHANGED lockW /\ c.pc = "readState"
      BY <1>3, <1>4, <2>2 DEF ReadState, Goto, At
    <3>2. Recent(ws, file)
      BY <1>0 DEF FilesOK
    <3>3. PICK r \in StateRow : /\ r = recorded(ws, i, c.migrated) /\ r.active = i
                                /\ Recent(r, file) /\ Kept(r, ws)
      BY <1>0, <1>2, <1>3, <1>5, <3>2, Recording
    <3>4. /\ [c EXCEPT !.pc = "writeState", !.state = r] \in SaveCall
          /\ [c EXCEPT !.pc = "writeState", !.state = r].pc = "writeState"
          /\ [c EXCEPT !.pc = "writeState", !.state = r].state = r
          /\ [c EXCEPT !.pc = "writeState", !.state = r].lock = c.lock
          /\ [c EXCEPT !.pc = "writeState", !.state = r].then = c.then
          /\ [c EXCEPT !.pc = "writeState", !.state = r].mutator = c.mutator
          /\ [c EXCEPT !.pc = "writeState", !.state = r].draft = c.draft
      BY DEF SaveCall, Saves, Named
    <3>5. call' = [call EXCEPT ![p] = [c EXCEPT !.pc = "writeState", !.state = r]]
      BY <3>1, <3>3
    <3> QED
      BY <1>5, <3>1, <3>3, <3>4, <3>5
  <2> QED
    BY <2>1, <2>2
<1>7. call' \in [Proc -> Call] /\ call'[p] = e /\ \A q \in Proc \ {p} : call'[q] = call[q]
  BY <1>0, <1>6 DEF Call
<1>8. FilesTyped'
  BY <1>0, <1>1, <1>6, <1>7 DEF FilesTyped
<1>9. made.plan <= made'.plan /\ made.session <= made'.session
  BY <1>0, <1>1 DEF SessionConstants
<1>10. Grows
  BY <1>1, <1>9 DEF Grows
<1>11. MemOK(p)'
  BY <1>1, <1>10, MemStays
<1>12. SaveOK(p)'
  BY <1>1, <1>4, <1>5, <1>6, <1>7 DEF SaveOK, Named
<1>13. Mutates(p)'
  <2>1. /\ c.mutator.op = "approved" =>
             plan[c.mutator.plan].progress # 0 /\ plan[c.mutator.plan].session = c.draft.id
        /\ c.mutator.op = "checkpoint" =>
             snap[c.mutator.snap] # "none" /\ \E k \in DOMAIN c.draft.cps : c.draft.cps[k].snap = c.mutator.snap
        /\ c.then = "restore" => c.mutator \in Guarding
    BY <1>1, <1>2, <1>3 DEF Mutates
  <2> QED
    BY <1>1, <1>6, <1>7, <2>1 DEF Mutates
<1>14. OwnInv(p)'
  BY <1>7, <1>11, <1>12, <1>13, OwnSave
<1>15. e \notin PlanCall
  BY KindsDiffer DEF Call
<1>16. \A q \in Proc \ {p} : lockW # q
  BY <1>6 DEF SessionConstants
<1> QED
  BY <1>1, <1>3, <1>6, <1>7, <1>8, <1>9, <1>14, <1>15, <1>16, QuietStep

LEMMA WriteStateStep ==
  ASSUME SessionConstants, FilesInv, NEW p \in Proc, WriteState(p)
  PROVE  FilesInv'
<1>0. /\ FilesTyped /\ FilesOK /\ PlansOK /\ call \in [Proc -> Call]
      /\ made \in [session : 0..MaxSession, snap : 0..MaxSnap, plan : 0..MaxPlan, text : Nat]
  BY DEF FilesInv, FilesTyped
<1>1. /\ UNCHANGED <<file, index, snap, plan, lockS, lockP, lockW, mem, made>>
      /\ call[p].pc = "writeState"
  BY DEF WriteState, At, plans
<1>2. /\ call[p] \in SaveCall /\ SaveOK(p) /\ Mutates(p) /\ MemOK(p) /\ call[p].draft.id \in Sid
      /\ call[p].lock \in {"s", "w"} /\ call[p].state \in StateRow
  BY <1>1, InSave DEF Saves, Named
<1>3. PICK c \in SaveCall : c = call[p]
  BY <1>2
<1>4. PICK i \in Sid : i = c.draft.id
  BY <1>2, <1>3
<1>5. /\ Sound(c.draft, snap, plan) /\ i <= made.session /\ i # 0 /\ Written(i, file)
      /\ c.lock = "w" => lockW = p /\ c.mutator.op = "none"
      /\ c.lock = "s" => lockS[i] = p
      /\ lockW = p /\ Recent(c.state, file)
  BY <1>1, <1>2, <1>3, <1>4 DEF SaveOK, Named
<1>6. PICK e \in SaveCall :
         /\ call' = [call EXCEPT ![p] = e] /\ e.pc = "writeIndex" /\ e.lock = c.lock
         /\ e.then = c.then /\ e.mutator = c.mutator /\ e.draft = c.draft
  <2>1. call' = [call EXCEPT ![p] = [c EXCEPT !.pc = "writeIndex"]]
    BY <1>3 DEF WriteState, Step
  <2>2. "writeIndex" \in Saves
    BY DEF Saves, Named
  <2> QED
    BY <2>1, <2>2, Advancing
<1>7. call' \in [Proc -> Call] /\ call'[p] = e /\ \A q \in Proc \ {p} : call'[q] = call[q]
  BY <1>0, <1>6 DEF Call
<1>8. ws' = c.state
  BY <1>3 DEF WriteState
<1>9. FilesTyped'
  BY <1>0, <1>1, <1>2, <1>3, <1>7, <1>8 DEF FilesTyped
<1>10. Grows
  <2>1. made.plan <= made'.plan /\ made.session <= made'.session
    BY <1>0, <1>1 DEF SessionConstants
  <2> QED
    BY <1>1, <2>1 DEF Grows
<1>11. FilesOK' /\ PlansOK'
  BY <1>0, <1>1, <1>5, <1>8 DEF FilesOK, PlansOK
<1>12. MemOK(p)'
  BY <1>1, <1>10, MemStays
<1>13. SaveOK(p)'
  BY <1>1, <1>4, <1>5, <1>6, <1>7 DEF SaveOK, Named
<1>14. Mutates(p)'
  <2>1. /\ c.mutator.op = "approved" =>
             plan[c.mutator.plan].progress # 0 /\ plan[c.mutator.plan].session = c.draft.id
        /\ c.mutator.op = "checkpoint" =>
             snap[c.mutator.snap] # "none" /\ \E k \in DOMAIN c.draft.cps : c.draft.cps[k].snap = c.mutator.snap
        /\ c.then = "restore" => c.mutator \in Guarding
    BY <1>1, <1>2, <1>3 DEF Mutates
  <2> QED
    BY <1>1, <1>6, <1>7, <2>1 DEF Mutates
<1>15. OwnInv(p)'
  BY <1>7, <1>12, <1>13, <1>14, OwnSave
<1>16. ASSUME NEW q \in Proc \ {p} PROVE Undisturbed(q)
  <2>1. ~(call[q] \in SaveCall /\ call[q].pc = "writeState")
    <3>1. SaveOK(q)
      BY DEF FilesInv, OwnInv
    <3> QED
      BY <1>5, <3>1 DEF SaveOK
  <2> QED
    BY <1>1, <1>7, <2>1 DEF Undisturbed
<1>17. \A q \in Proc : OwnInv(q)'
  BY <1>9, <1>10, <1>15, <1>16, OthersStay
<1>18. e \notin PlanCall
  BY KindsDiffer DEF Call
<1>19. UniqueInv'
  BY <1>3, <1>6, <1>7, <1>9, <1>10, <1>16, <1>18, UniqueStays
<1> QED
  BY <1>9, <1>11, <1>17, <1>19 DEF FilesInv

LEMMA Leaving ==
  ASSUME FilesTyped, NEW p \in Proc, Left(p)
  PROVE  /\ lockS' \in [Sid -> Proc \cup {"free"}] /\ lockW' \in Proc \cup {"free"}
         /\ lockP' \in [Pid -> Proc \cup {"free"}]
         /\ \A q \in Proc \ {p} : (\A s \in Sid : lockS[s] = q => lockS'[s] = q) /\ (lockW = q => lockW' = q)
<1>0. /\ lockS \in [Sid -> Proc \cup {"free"}] /\ lockW \in Proc \cup {"free"}
      /\ lockP \in [Pid -> Proc \cup {"free"}]
  BY DEF FilesTyped
<1>1. lockS' = [s \in Sid |-> IF lockS[s] = p THEN "free" ELSE lockS[s]]
  BY <1>0 DEF Left
<1>2. lockP' = [i \in Pid |-> IF lockP[i] = p THEN "free" ELSE lockP[i]]
  BY <1>0 DEF Left
<1>3. lockW' = IF lockW = p THEN "free" ELSE lockW
  BY DEF Left
<1> QED
  BY <1>0, <1>1, <1>2, <1>3

\* The end of a call: the process leaves its locks.
LEMMA EndStep ==
  ASSUME SessionConstants, FilesInv, NEW p \in Proc, Left(p), NEW e \in Call, Goto(p, e),
         e \notin SaveCall, e \notin PlanCall,
         UNCHANGED <<file, ws, snap, plan, made>>, index' \in 0..MaxSession,
         index' = index \/ Written(index', file),
         mem' \in [Proc -> SessionRow], \A q \in Proc \ {p} : mem'[q] = mem[q],
         MemOK(p)', call'[p] = e => OwnInv(p)'
  PROVE  FilesInv'
<1>0. /\ FilesTyped /\ FilesOK /\ PlansOK /\ call \in [Proc -> Call]
      /\ made \in [session : 0..MaxSession, snap : 0..MaxSnap, plan : 0..MaxPlan, text : Nat]
  BY DEF FilesInv, FilesTyped
<1>1. call' \in [Proc -> Call] /\ call'[p] = e /\ \A q \in Proc \ {p} : call'[q] = call[q]
  BY <1>0 DEF Goto
<1>2. /\ lockS' \in [Sid -> Proc \cup {"free"}] /\ lockW' \in Proc \cup {"free"}
      /\ lockP' \in [Pid -> Proc \cup {"free"}]
      /\ \A q \in Proc \ {p} : (\A s \in Sid : lockS[s] = q => lockS'[s] = q) /\ (lockW = q => lockW' = q)
  BY <1>0, Leaving
<1>3. FilesTyped'
  BY <1>0, <1>1, <1>2 DEF FilesTyped
<1>4. Grows
  <2>1. made.plan <= made'.plan /\ made.session <= made'.session
    BY <1>0 DEF SessionConstants
  <2> QED
    BY <2>1 DEF Grows
<1>5. FilesOK' /\ PlansOK'
  BY <1>0 DEF FilesOK, PlansOK
<1>6. \A q \in Proc \ {p} : Undisturbed(q)
  BY <1>1, <1>2 DEF Undisturbed
<1>7. \A q \in Proc : OwnInv(q)'
  BY <1>1, <1>3, <1>4, <1>6, OthersStay
<1>8. UniqueInv'
  BY <1>1, <1>3, <1>4, <1>6, UniqueStays
<1> QED
  BY <1>3, <1>5, <1>7, <1>8 DEF FilesInv

LEMMA IndexStep ==
  ASSUME SessionConstants, FilesInv, NEW p \in Proc, WriteIndex(p)
  PROVE  FilesInv'
<1>0. /\ FilesTyped /\ call \in [Proc -> Call] /\ mem \in [Proc -> SessionRow]
  BY DEF FilesInv, FilesTyped
<1>1. /\ UNCHANGED <<file, ws, snap, plan, made>> /\ call[p].pc = "writeIndex" /\ Left(p)
  BY DEF WriteIndex, At
<1>2. /\ call[p] \in SaveCall /\ SaveOK(p) /\ Mutates(p) /\ call[p].draft.id \in Sid
      /\ call[p].draft \in SessionRow /\ call[p].then \in {"idle", "restore"}
  BY <1>1, InSave DEF Saves, Named
<1>3. PICK c \in SaveCall : c = call[p]
  BY <1>2
<1>4. PICK d \in SessionRow : d = c.draft
  BY <1>2, <1>3
<1>5. d.id \in Sid /\ Sound(d, snap, plan) /\ Written(d.id, file)
  BY <1>1, <1>2, <1>3, <1>4 DEF SaveOK, Named
<1>6. /\ index' = d.id /\ mem' = [mem EXCEPT ![p] = d]
      /\ Goto(p, CASE c.then = "idle" -> Idle
                   [] c.then = "restore" ->
                        [pc |-> "restore", of |-> c.mutator.of, safety |-> c.mutator.snap])
  BY <1>3, <1>4 DEF WriteIndex
<1>7. /\ mem' \in [Proc -> SessionRow] /\ mem'[p] = d /\ \A q \in Proc \ {p} : mem'[q] = mem[q]
      /\ index' \in 0..MaxSession
  BY <1>0, <1>5, <1>6 DEF Sid, SessionConstants
<1>8. MemOK(p)'
  BY <1>1, <1>5, <1>7 DEF MemOK
<1>9. CASE c.then = "idle"
  <2>1. Goto(p, Idle)
    BY <1>6, <1>9
  <2>2. call'[p] = Idle => OwnInv(p)'
    BY <1>8, OwnIdle
  <2> HIDE DEF Goto
  <2> QED
    BY <1>1, <1>5, <1>6, <1>7, <1>8, <2>1, <2>2, IdleIsNone, EndStep
<1>10. CASE c.then = "restore"
  <2>1. /\ c.mutator \in Guarding /\ c.mutator.op = "checkpoint"
    BY <1>2, <1>3, <1>10 DEF Mutates, Guarding
  <2>2. /\ c.mutator.of \in Wid /\ c.mutator.snap \in Wid /\ snap[c.mutator.snap] # "none"
        /\ \E k \in DOMAIN d.cps : d.cps[k].snap = c.mutator.snap
    <3>1. c.mutator.of \in Wid /\ c.mutator.snap \in Wid
      BY <2>1 DEF Guarding
    <3>2. snap[c.mutator.snap] # "none" /\ \E k \in DOMAIN d.cps : d.cps[k].snap = c.mutator.snap
      BY <1>1, <1>2, <1>3, <1>4, <2>1 DEF Mutates
    <3> QED
      BY <3>1, <3>2
  <2>3. PICK e \in RestoreCall : Goto(p, e) /\ e.safety = c.mutator.snap
    <3>1. Goto(p, [pc |-> "restore", of |-> c.mutator.of, safety |-> c.mutator.snap])
      BY <1>6, <1>10
    <3>2. /\ [pc |-> "restore", of |-> c.mutator.of, safety |-> c.mutator.snap] \in RestoreCall
          /\ [pc |-> "restore", of |-> c.mutator.of, safety |-> c.mutator.snap].safety = c.mutator.snap
      BY <2>2 DEF RestoreCall
    <3> QED
      BY <3>1, <3>2
  <2>4. e \in Call /\ e \notin SaveCall /\ e \notin PlanCall
    BY KindsDiffer DEF Call
  <2>5. ASSUME call'[p] = e PROVE OwnInv(p)'
    <3>1. RestoreOK(p)'
      BY <1>1, <1>7, <2>2, <2>3, <2>5 DEF RestoreOK
    <3> QED
      BY <1>8, <2>5, <3>1, OwnRestore
  <2> HIDE DEF Goto
  <2> QED
    BY <1>1, <1>5, <1>6, <1>7, <1>8, <2>3, <2>4, <2>5, EndStep
<1> QED
  BY <1>2, <1>3, <1>9, <1>10

LEMMA FaultStep ==
  ASSUME SessionConstants, FilesInv, NEW p \in Proc, CallFails(p) \/ Crash(p)
  PROVE  FilesInv'
<1>0. /\ FilesTyped /\ PlansOK /\ mem \in [Proc -> SessionRow] /\ index \in 0..MaxSession
      /\ made \in [session : 0..MaxSession, snap : 0..MaxSnap, plan : 0..MaxPlan, text : Nat]
  BY DEF FilesInv, FilesTyped
<1>1. /\ UNCHANGED <<file, ws, index, snap, plan, made>> /\ Left(p) /\ Goto(p, Idle)
  BY DEF CallFails, Crash
<1>2. PICK d \in SessionRow : /\ mem' = [mem EXCEPT ![p] = d]
                              /\ Sound(d, snap, plan) /\ (d.id # 0 => Written(d.id, file))
  <2>1. CASE CallFails(p)
    <3>1. MemOK(p) /\ mem[p] \in SessionRow /\ mem' = [mem EXCEPT ![p] = mem[p]]
      BY <1>0, <2>1 DEF CallFails, FilesInv, OwnInv
    <3> QED
      BY <3>1 DEF MemOK
  <2>2. CASE Crash(p)
    <3>1. mem' = [mem EXCEPT ![p] = NoSession]
      BY <2>2 DEF Crash
    <3>2. /\ 0 \in 0..MaxSession /\ 0 \in 0..MaxPlan /\ 0 \in Nat /\ <<>> \in Seq(CheckpointRow)
          /\ DOMAIN <<>> = {}
      BY DEF SessionConstants
    <3>3. /\ NoSession \in SessionRow /\ NoSession.id = 0 /\ NoSession.cps = <<>>
          /\ NoSession.approved = 0
      BY <3>2 DEF NoSession, SessionRow
    <3>4. Sound(NoSession, snap, plan)
      BY <3>2, <3>3 DEF Sound
    <3> QED
      BY <3>1, <3>3, <3>4
  <2> QED
    BY <2>1, <2>2
<1>3. /\ mem' \in [Proc -> SessionRow] /\ mem'[p] = d /\ \A q \in Proc \ {p} : mem'[q] = mem[q]
      /\ index' \in 0..MaxSession
  BY <1>0, <1>1, <1>2
<1>4. MemOK(p)'
  BY <1>1, <1>2, <1>3 DEF MemOK
<1>5. call'[p] = Idle => OwnInv(p)'
  BY <1>4, OwnIdle
<1> HIDE DEF Goto
<1> QED
  BY <1>1, <1>3, <1>4, <1>5, IdleIsNone, EndStep

\* ---- the legacy session --------------------------------------------------------------

\* A step of p keeps the invariant about the legacy session when it leaves the other
\* processes alone and its own new call is not about that session.
LEMMA LegacyKept ==
  ASSUME SessionConstants, FilesInv, FilesInv', LegacyInv, NEW p \in Proc,
         legacy' = "own" <=> legacy = "own",
         snap[1] # "none" => snap'[1] # "none",
         made.session <= made'.session,
         \A q \in Proc \ {p} : call'[q] = call[q] /\ mem'[q] = mem[q],
         UNCHANGED file \/ WriteSession(p), UNCHANGED ws \/ WriteState(p),
         legacy = "own" /\ ws.active = 0 /\ UNCHANGED ws => Clear(p)',
         Attempts(p)' => \/ ~Written(call'[p].draft.id, file')
                         \/ legacy = "own" /\ ws.active = 0 /\ UNCHANGED ws /\ call'[p].draft = Own
  PROVE  LegacyInv'
<1>0. /\ FilesTyped /\ UniqueInv /\ ws \in StateRow /\ call \in [Proc -> Call] /\ file \in [Sid -> SessionRow]
      /\ made \in [session : 0..MaxSession, snap : 0..MaxSnap, plan : 0..MaxPlan, text : Nat]
      /\ made' \in [session : 0..MaxSession, snap : 0..MaxSnap, plan : 0..MaxPlan, text : Nat]
  BY DEF FilesInv, FilesTyped
<1>1. WriteState(p) => ws'.active # 0 /\ lockW = p
  <2> SUFFICES ASSUME WriteState(p)
               PROVE  ws'.active # 0 /\ lockW = p
    OBVIOUS
  <2>1. call[p].pc = "writeState" /\ ws' = call[p].state
    BY DEF WriteState, At
  <2>2. call[p] \in SaveCall /\ SaveOK(p) /\ call[p].draft.id \in Sid
    BY <2>1, InSave DEF Saves, Named
  <2> QED
    BY <2>1, <2>2 DEF SaveOK, Sid
<1>2. WriteSession(p) => /\ call[p] \in SaveCall /\ call[p].draft.id \in Sid /\ call[p].draft \in SessionRow
                         /\ file' = [file EXCEPT ![call[p].draft.id] = call[p].draft]
                         /\ UNCHANGED ws
  <2> SUFFICES ASSUME WriteSession(p)
               PROVE  /\ call[p] \in SaveCall /\ call[p].draft.id \in Sid /\ call[p].draft \in SessionRow
                      /\ file' = [file EXCEPT ![call[p].draft.id] = call[p].draft]
                      /\ UNCHANGED ws
    OBVIOUS
  <2>1. call[p].pc = "write"
    BY DEF WriteSession, At
  <2> QED
    BY <2>1, InSave DEF Saves, WriteSession
<1>3. ASSUME NEW q \in Proc \ {p}, Attempts(q)'
      PROVE  \/ ~Written(call'[q].draft.id, file')
             \/ legacy' = "own" /\ ws'.active = 0 /\ call'[q].draft = Own
  <2>1. call'[q] = call[q] /\ Attempts(q)
    BY <1>3 DEF Attempts
  <2>2. SaveOK(q) /\ lockW = q /\ call[q].draft.id \in Sid
    BY <2>1, InSave DEF Attempts, Saves, SaveOK
  <2>3. UNCHANGED ws
    BY <1>1, <2>2
  <2>4. CASE legacy = "own" /\ ws.active = 0 /\ call[q].draft = Own
    BY <2>1, <2>3, <2>4
  <2>5. CASE ~Written(call[q].draft.id, file)
    <3>1. CASE UNCHANGED file
      BY <2>1, <2>5, <3>1
    <3>2. CASE WriteSession(p)
      <4>1. call[p].draft.id # call[q].draft.id
        BY <1>0, <1>2, <2>1, <2>5, <3>2 DEF UniqueInv, Attempts
      <4>2. file'[call[q].draft.id] = file[call[q].draft.id]
        BY <1>0, <1>2, <2>2, <3>2, <4>1
      <4> QED
        BY <2>1, <2>5, <4>2 DEF Written
    <3> QED
      BY <3>1, <3>2
  <2> QED
    BY <2>1, <2>4, <2>5 DEF LegacyInv
<1>4. ASSUME legacy' = "own"
      PROVE  1 <= made'.session /\ snap'[1] # "none"
  BY <1>0, <1>4 DEF LegacyInv
<1>5. ASSUME legacy' = "own", ws'.active = 0
      PROVE  /\ ws'.recent = <<>> /\ (Written(1, file') => file'[1] = Own)
             /\ \A q \in Proc : Clear(q)'
  <2>1. UNCHANGED ws /\ legacy = "own" /\ ws.active = 0
    BY <1>1, <1>5
  <2>2. ws.recent = <<>> /\ (Written(1, file) => file[1] = Own) /\ \A q \in Proc : Clear(q)
    BY <2>1 DEF LegacyInv
  <2>3. \A q \in Proc : Clear(q)'
    <3>1. ASSUME NEW q \in Proc \ {p} PROVE Clear(q)'
      BY <2>2 DEF Clear
    <3> QED
      BY <2>1, <3>1
  <2>4. Written(1, file') => file'[1] = Own
    <3>1. CASE UNCHANGED file
      BY <2>2, <3>1
    <3>2. CASE WriteSession(p)
      <4>1. CASE call[p].draft.id = 1
        <5>1. call[p].draft = Own
          BY <1>2, <2>2, <3>2, <4>1 DEF Clear
        <5> QED
          BY <1>0, <1>2, <3>2, <4>1, <5>1
      <4>2. CASE call[p].draft.id # 1
        <5>1. file'[1] = file[1]
          BY <1>0, <1>2, <3>2, <4>2 DEF Sid, SessionConstants
        <5> QED
          BY <2>2, <5>1 DEF Written
      <4> QED
        BY <4>1, <4>2
    <3> QED
      BY <3>1, <3>2
  <2> QED
    BY <2>1, <2>2, <2>3, <2>4
<1>6. \A q \in Proc : Attempts(q)' =>
         \/ ~Written(call'[q].draft.id, file')
         \/ legacy' = "own" /\ ws'.active = 0 /\ call'[q].draft = Own
  BY <1>3
<1> QED
  BY <1>4, <1>5, <1>6 DEF LegacyInv

\* The calls that begin to save, or change no call.
LEMMA LegacyBegins ==
  ASSUME SessionConstants, FilesInv, FilesInv', LegacyInv, NEW p \in Proc,
         \/ appendRecord(p) \/ ensureFresh(p) \/ loadSession(p)
         \/ forkSessionFromCheckpoint(p) \/ createCheckpoint(p) \/ prepareWorkspaceRestore(p)
  PROVE  LegacyInv'
<1>0. /\ FilesTyped /\ ws \in StateRow /\ call \in [Proc -> Call] /\ mem \in [Proc -> SessionRow]
      /\ made \in [session : 0..MaxSession, snap : 0..MaxSnap, plan : 0..MaxPlan, text : Nat]
      /\ snap \in [Wid -> SnapPhase] /\ 1 \in Wid
  BY DEF FilesInv, FilesTyped, SessionConstants, Wid
<1>c. legacy = "own" /\ ws.active = 0 => Clear(p) /\ 1 <= made.session /\ ws.recent = <<>>
  BY DEF LegacyInv
<1>1. ASSUME loadSession(p) PROVE LegacyInv'
  <2>1. /\ UNCHANGED <<file, ws, legacy, snap, made, call>>
        /\ \A q \in Proc \ {p} : mem'[q] = mem[q]
    BY <1>0, <1>1 DEF loadSession
  <2>2. ~(legacy = "own" /\ ws.active = 0)
    <3> SUFFICES ASSUME legacy = "own", ws.active = 0
                 PROVE  FALSE
      OBVIOUS
    <3>1. Range(ws.recent) = {}
      BY <1>c DEF Range
    <3> QED
      BY <1>1, <3>1 DEF loadSession, Readable
  <2>3. call[p].pc = "idle"
    BY <1>1 DEF loadSession, Start
  <2>4. ~Attempts(p)'
    BY <2>1, <2>3 DEF Attempts
  <2>5. made.session <= made'.session
    BY <1>0, <2>1
  <2> QED
    BY <2>1, <2>2, <2>4, <2>5, LegacyKept
<1>2. ASSUME NEW d, NEW m, NEW then, call' = [call EXCEPT ![p] = Saving(d, m, then)],
             mem'[p].id = mem[p].id, \A q \in Proc \ {p} : mem'[q] = mem[q],
             UNCHANGED <<file, ws, legacy>>, snap[1] # "none" => snap'[1] # "none",
             made.session <= made'.session, d.id = mem[p].id \/ d.id = made.session + 1
      PROVE  LegacyInv'
  <2>1. call'[p] = Saving(d, m, then) /\ \A q \in Proc \ {p} : call'[q] = call[q]
    BY <1>0, <1>2
  <2>2. call'[p].pc = "lock" /\ call'[p].draft = d
    BY <2>1 DEF Saving
  <2>3. ~Attempts(p)'
    BY <2>2 DEF Attempts
  <2>4. legacy = "own" /\ ws.active = 0 => d.id # 1
    BY <1>0, <1>2, <1>c DEF Clear
  <2>5. legacy = "own" /\ ws.active = 0 => Clear(p)'
    BY <1>2, <1>c, <2>2, <2>4 DEF Clear
  <2> QED
    BY <1>2, <2>1, <2>3, <2>5, LegacyKept
<1>3. ASSUME appendRecord(p) PROVE LegacyInv'
  <2>1. /\ mem' = [mem EXCEPT ![p].recs = @ + 1] /\ UNCHANGED <<file, ws, legacy, snap, made>>
        /\ call' = [call EXCEPT ![p] = Saving(mem'[p], [op |-> "none"], "idle")]
    BY <1>3 DEF appendRecord, Goto
  <2>2. mem'[p].id = mem[p].id /\ \A q \in Proc \ {p} : mem'[q] = mem[q]
    BY <1>0, <2>1 DEF SessionRow
  <2>3. made.session <= made'.session
    BY <1>0, <2>1
  <2> QED
    BY <1>2, <2>1, <2>2, <2>3
<1>4. ASSUME ensureFresh(p) PROVE LegacyInv'
  <2>1. /\ made' = [made EXCEPT !.session = @ + 1] /\ UNCHANGED <<file, ws, legacy, snap, mem>>
        /\ call' = [call EXCEPT ![p] = Saving(createSession(made'.session), [op |-> "none"], "idle")]
    BY <1>4 DEF ensureFresh, Goto
  <2>2. made'.session = made.session + 1 /\ made.session <= made'.session
    BY <1>0, <2>1
  <2>3. createSession(made'.session).id = made'.session
    BY DEF createSession, NoSession
  <2> QED
    BY <1>2, <2>1, <2>2, <2>3
<1>5. ASSUME forkSessionFromCheckpoint(p) PROVE LegacyInv'
  <2>1. PICK k \in DOMAIN mem[p].cps :
           /\ made' = [made EXCEPT !.session = @ + 1] /\ UNCHANGED <<file, ws, legacy, snap, mem>>
           /\ call' = [call EXCEPT ![p] = Saving(forked(mem[p], made'.session, k), [op |-> "none"], "idle")]
    BY <1>5 DEF forkSessionFromCheckpoint, Goto
  <2>2. made'.session = made.session + 1 /\ made.session <= made'.session
    BY <1>0, <2>1
  <2>3. forked(mem[p], made'.session, k).id = made'.session
    <3>1. createSession(made'.session) =
            [id |-> made'.session, recs |-> 0, cps |-> <<>>, active |-> 0, approved |-> 0]
      BY DEF createSession, NoSession
    <3> QED
      BY <3>1 DEF forked
  <2> QED
    BY <1>2, <2>1, <2>2, <2>3
<1>6. ASSUME createCheckpoint(p) PROVE LegacyInv'
  <2>1. PICK status \in ghost :
           /\ made' = [made EXCEPT !.snap = @ + 1] /\ UNCHANGED <<file, ws, legacy, mem>>
           /\ snap' = [snap EXCEPT ![made'.snap] = status]
           /\ call' = [call EXCEPT ![p] = Saving(mem[p], [op |-> "checkpoint", snap |-> made'.snap], "idle")]
    BY <1>6 DEF createCheckpoint, Goto
  <2>2. snap[1] # "none" => snap'[1] # "none"
    BY <1>0, <2>1 DEF ghost
  <2>3. made.session <= made'.session
    BY <1>0, <2>1
  <2> QED
    BY <1>2, <2>1, <2>2, <2>3
<1>7. ASSUME prepareWorkspaceRestore(p) PROVE LegacyInv'
  <2>0. UNCHANGED <<file, ws, legacy, mem>> /\ call[p].pc = "idle"
    BY <1>7 DEF prepareWorkspaceRestore, Start
  <2>1. PICK k \in DOMAIN mem[p].cps : LET w == mem[p].cps[k].snap IN
          \/ /\ made' = [made EXCEPT !.snap = @ + 1]
             /\ \E status \in ghost : snap' = [snap EXCEPT ![made'.snap] = status]
             /\ call' = [call EXCEPT ![p] =
                           Saving(mem[p], [op |-> "checkpoint", snap |-> made'.snap, of |-> w], "restore")]
          \/ resolved(w) /\ UNCHANGED <<made, call>>
    BY <1>7 DEF prepareWorkspaceRestore, Goto
  <2>2. CASE resolved(mem[p].cps[k].snap) /\ UNCHANGED <<made, call>>
    <3>1. made.session <= made'.session /\ (snap[1] # "none" => snap'[1] # "none")
      BY <1>0, <2>2 DEF resolved
    <3>2. ~Attempts(p)'
      BY <2>0, <2>2 DEF Attempts
    <3>3. Clear(p) => Clear(p)'
      BY <2>0, <2>2 DEF Clear
    <3> QED
      BY <1>c, <2>0, <2>2, <3>1, <3>2, <3>3, LegacyKept
  <2>3. ASSUME NEW status \in ghost, made' = [made EXCEPT !.snap = @ + 1],
               snap' = [snap EXCEPT ![made'.snap] = status], NEW m,
               call' = [call EXCEPT ![p] = Saving(mem[p], m, "restore")]
        PROVE  LegacyInv'
    <3>1. made.session <= made'.session /\ (snap[1] # "none" => snap'[1] # "none")
      BY <1>0, <2>3 DEF ghost
    <3> QED
      BY <1>2, <2>0, <2>3, <3>1
  <2> QED
    BY <2>1, <2>2, <2>3
<1> QED
  BY <1>1, <1>3, <1>4, <1>5, <1>6, <1>7

\* ensureSession takes the legacy session while nobody else knows it.
LEMMA LegacyTaken ==
  ASSUME SessionConstants, FilesInv, FilesInv', LegacyInv, NEW p \in Proc, ensureSession(p)
  PROVE  LegacyInv'
<1>0. /\ FilesTyped /\ FilesOK /\ ws \in StateRow /\ call \in [Proc -> Call] /\ mem \in [Proc -> SessionRow]
      /\ made \in [session : 0..MaxSession, snap : 0..MaxSnap, plan : 0..MaxPlan, text : Nat]
  BY DEF FilesInv, FilesTyped
<1>c. legacy = "own" /\ ws.active = 0 => Clear(p)
  BY DEF LegacyInv
<1>1. UNCHANGED <<file, ws, snap>> /\ call[p].pc = "idle"
  BY DEF ensureSession, Start
<1>2. CASE Readable(ws.active)
  <2>1. /\ UNCHANGED <<call, legacy, made>> /\ \A q \in Proc \ {p} : mem'[q] = mem[q]
        /\ ws.active # 0 /\ made.session <= made'.session
    BY <1>0, <1>2 DEF ensureSession, Readable
  <2>2. ~Attempts(p)'
    BY <1>1, <2>1 DEF Attempts
  <2> QED
    BY <1>1, <2>1, <2>2, LegacyKept
<1>3. CASE ~Readable(ws.active)
  <2>0. ws.active = 0
    BY <1>0, <1>3 DEF FilesOK, Recent, Written, Readable, StateRow
  <2>1. /\ made' = IF legacy = "own" THEN made ELSE [made EXCEPT !.session = @ + 1]
        /\ legacy # "own" => made.session < MaxSession
        /\ legacy' = (IF legacy = "malformed" THEN "none" ELSE legacy) /\ UNCHANGED mem
    BY <1>3 DEF ensureSession
  <2>2. made.session <= made'.session /\ (legacy # "own" => made'.session = made.session + 1)
    BY <1>0, <2>1
  <2>3. PICK c : /\ call' = [call EXCEPT ![p] = c] /\ c.pc = "write" /\ c.lock = "w"
                 /\ legacy = "own" => c.draft = Own
                 /\ legacy # "own" => c.draft.id = made'.session
    <3> DEFINE d == CASE legacy = "own"     -> Own
                      [] legacy = "session" -> migrateLegacySession(made'.session)
                      [] OTHER              -> createSession(made'.session)
               c == [pc |-> "write", lock |-> "w", migrated |-> legacy \in {"own", "session"},
                     then |-> "idle", mutator |-> [op |-> "none"], state |-> NoState, draft |-> d]
    <3>1. call' = [call EXCEPT ![p] = c]
      BY <1>3 DEF ensureSession, Goto
    <3>2. legacy # "own" => d.id = made'.session
      BY DEF migrateLegacySession, createSession, NoSession
    <3>3. legacy = "own" => d = Own
      OBVIOUS
    <3> HIDE DEF d
    <3>4. c.pc = "write" /\ c.lock = "w" /\ c.draft = d
      OBVIOUS
    <3> HIDE DEF c
    <3> QED
      BY <3>1, <3>2, <3>3, <3>4
  <2>4. call'[p] = c /\ \A q \in Proc \ {p} : call'[q] = call[q]
    BY <1>0, <2>3
  <2>5. legacy # "own" => ~Written(call'[p].draft.id, file')
    <3>1. legacy # "own" => made'.session \in Sid /\ made'.session > made.session
      <4>1. made.session \in 0..MaxSession
        BY <1>0
      <4> QED
        BY <2>1, <2>2, <4>1 DEF Sid, SessionConstants
    <3>2. legacy # "own" => file[made'.session].id = 0
      BY <1>0, <3>1 DEF FilesOK
    <3> QED
      BY <1>1, <2>3, <2>4, <3>1, <3>2 DEF Written, Sid
  <2>6. Attempts(p)' => \/ ~Written(call'[p].draft.id, file')
                        \/ legacy = "own" /\ ws.active = 0 /\ UNCHANGED ws /\ call'[p].draft = Own
    BY <1>1, <2>0, <2>3, <2>4, <2>5
  <2>7. legacy = "own" => Clear(p)'
    BY <1>c, <2>0, <2>1, <2>3, <2>4 DEF Clear
  <2>8. legacy' = "own" <=> legacy = "own"
    BY <2>1
  <2> QED
    BY <1>1, <2>1, <2>2, <2>4, <2>6, <2>7, <2>8, LegacyKept
<1> QED
  BY <1>2, <1>3

\* The steps of a save under way.
LEMMA LegacySaves ==
  ASSUME SessionConstants, FilesInv, FilesInv', LegacyInv, NEW p \in Proc,
         \/ SaveLock(p) \/ readSessionForMutation(p) \/ WriteSession(p)
         \/ LockState(p) \/ ReadState(p) \/ WriteState(p) \/ WriteIndex(p)
  PROVE  LegacyInv'
<1>0. /\ FilesTyped /\ ws \in StateRow /\ call \in [Proc -> Call] /\ mem \in [Proc -> SessionRow]
      /\ file \in [Sid -> SessionRow]
      /\ made \in [session : 0..MaxSession, snap : 0..MaxSnap, plan : 0..MaxPlan, text : Nat]
  BY DEF FilesInv, FilesTyped
<1>c. legacy = "own" /\ ws.active = 0 => Clear(p)
  BY DEF LegacyInv
<1>1. call[p].pc \in Saves
  BY DEF SaveLock, readSessionForMutation, WriteSession, LockState, ReadState, WriteState, WriteIndex,
     At, Saves, Named
<1>2. /\ call[p] \in SaveCall /\ SaveOK(p) /\ Mutates(p) /\ call[p].draft \in SessionRow
      /\ call[p].draft.id \in Sid /\ call[p].mutator \in Mutator /\ call[p].lock \in {"s", "w"}
  BY <1>1, InSave
<1>3. PICK c \in SaveCall : c = call[p]
  BY <1>2
<1>4. UNCHANGED <<legacy, snap, made>> /\ made.session <= made'.session
  <2>1. UNCHANGED <<legacy, snap, made>>
    BY DEF SaveLock, readSessionForMutation, WriteSession, LockState, ReadState, WriteState, WriteIndex
  <2> QED
    BY <1>0, <2>1
<1>5. ASSUME NEW e, call' = [call EXCEPT ![p] = e], UNCHANGED mem,
             e.pc # "writeIndex", e.lock = c.lock, e.draft = c.draft,
             e.pc = "write" => c.lock = "s",
             UNCHANGED file \/ WriteSession(p), UNCHANGED ws
      PROVE  LegacyInv'
  <2>1. call'[p] = e /\ \A q \in Proc \ {p} : call'[q] = call[q]
    BY <1>0, <1>5
  <2>2. ~Attempts(p)'
    BY <1>5, <2>1 DEF Attempts
  <2>3. Clear(p) => Clear(p)'
    BY <1>2, <1>3, <1>5, <2>1 DEF Clear
  <2> QED
    BY <1>4, <1>5, <1>c, <2>1, <2>2, <2>3, LegacyKept
<1>6. CASE SaveLock(p)
  <2>1. c.lock = "s"
    BY <1>2, <1>3, <1>6 DEF SaveOK, SaveLock, At
  <2> DEFINE pc == IF c.mutator.op = "none" THEN "write" ELSE "read"
  <2>2. call' = [call EXCEPT ![p] = [c EXCEPT !.pc = pc]] /\ UNCHANGED <<file, ws, mem>>
    BY <1>3, <1>6 DEF SaveLock, Step
  <2>3. pc \in {"write", "read"} /\ pc \in Saves
    BY DEF Saves
  <2> HIDE DEF pc
  <2> QED
    BY <1>5, <2>1, <2>2, <2>3, Advancing
<1>7. CASE readSessionForMutation(p)
  <2>1. c.lock = "s" /\ c.pc = "read"
    BY <1>2, <1>3, <1>7 DEF SaveOK, readSessionForMutation, At
  <2>2. PICK m \in Mutator : m = c.mutator
    BY <1>2, <1>3
  <2>3. PICK s \in SessionRow : s = IF Readable(c.draft.id) THEN file[c.draft.id] ELSE c.draft
    BY <1>0, <1>2, <1>3
  <2>4. s.id = c.draft.id /\ s.id # 0 /\ Sound(s, snap, plan)
    <3>1. Sound(c.draft, snap, plan) /\ c.draft.id # 0
      BY <1>2, <1>3 DEF SaveOK
    <3>2. Sound(file[c.draft.id], snap, plan)
      BY <1>2, <1>3 DEF FilesInv, FilesOK
    <3> QED
      BY <2>3, <3>1, <3>2 DEF Readable
  <2>5. mutated(m, s).id = s.id
    <3>1. /\ m.op # "none" /\ (m.op = "checkpoint" => snap[m.snap] # "none")
          /\ m.op = "approved" => plan[m.plan].progress # 0 /\ plan[m.plan].session = s.id
      BY <1>2, <1>3, <2>1, <2>2, <2>4 DEF Mutates
    <3> QED
      BY <2>4, <3>1, Mutating
  <2>6. call' = [call EXCEPT ![p] = [c EXCEPT !.pc = "write", !.draft = mutated(m, s)]]
    BY <1>3, <1>7, <2>2, <2>3 DEF readSessionForMutation, Goto
  <2> DEFINE e == [c EXCEPT !.pc = "write", !.draft = mutated(m, s)]
  <2>7. e.lock = c.lock /\ e.draft = mutated(m, s) /\ e.pc = "write"
    BY DEF SaveCall
  <2>8. call'[p] = e /\ \A q \in Proc \ {p} : call'[q] = call[q]
    BY <1>0, <2>6
  <2> HIDE DEF e
  <2>9. UNCHANGED <<file, ws, mem>>
    BY <1>7 DEF readSessionForMutation
  <2>10. ~Attempts(p)'
    BY <2>1, <2>7, <2>8 DEF Attempts
  <2>11. Clear(p) => Clear(p)'
    BY <1>2, <1>3, <2>1, <2>4, <2>5, <2>7, <2>8, <2>9 DEF Clear
  <2> QED
    BY <1>4, <1>c, <2>8, <2>9, <2>10, <2>11, LegacyKept
<1>8. CASE WriteSession(p)
  <2> DEFINE pc == IF c.lock = "w" THEN "readState" ELSE "lockState"
  <2>1. call' = [call EXCEPT ![p] = [c EXCEPT !.pc = pc]] /\ UNCHANGED <<ws, mem>>
    BY <1>3, <1>8 DEF WriteSession, Step
  <2>2. pc \in {"readState", "lockState"} /\ pc \in Saves
    BY DEF Saves, Named
  <2> HIDE DEF pc
  <2>3. PICK e \in SaveCall : e = [c EXCEPT !.pc = pc] /\ e.pc = pc /\ e.lock = c.lock /\ e.draft = c.draft
    BY <2>2, Advancing
  <2>4. call' = [call EXCEPT ![p] = e]
    BY <2>1, <2>3
  <2>5. e.pc # "writeIndex" /\ e.pc # "write"
    BY <2>2, <2>3
  <2> QED
    BY <1>5, <1>8, <2>1, <2>3, <2>4, <2>5
<1>9. CASE LockState(p)
  <2>1. call' = [call EXCEPT ![p] = [c EXCEPT !.pc = "readState"]] /\ UNCHANGED <<file, ws, mem>>
    BY <1>3, <1>9 DEF LockState, Step
  <2>2. PICK e \in SaveCall : /\ e = [c EXCEPT !.pc = "readState"] /\ e.pc = "readState"
                             /\ e.lock = c.lock /\ e.draft = c.draft
    BY Advancing DEF Saves, Named
  <2>3. call' = [call EXCEPT ![p] = e]
    BY <2>1, <2>2
  <2> QED
    BY <1>5, <2>1, <2>2, <2>3
<1>10. CASE ReadState(p)
  <2> DEFINE v == recorded(ws, c.draft.id, c.migrated)
  <2>1. call' = [call EXCEPT ![p] = [c EXCEPT !.pc = "writeState", !.state = v]]
        /\ UNCHANGED <<file, ws, mem>>
    BY <1>3, <1>10 DEF ReadState, Goto
  <2> HIDE DEF v
  <2>2. /\ [c EXCEPT !.pc = "writeState", !.state = v].pc = "writeState"
        /\ [c EXCEPT !.pc = "writeState", !.state = v].lock = c.lock
        /\ [c EXCEPT !.pc = "writeState", !.state = v].draft = c.draft
    BY DEF SaveCall
  <2> QED
    BY <1>5, <2>1, <2>2
<1>11. CASE WriteState(p)
  <2>1. call' = [call EXCEPT ![p] = [c EXCEPT !.pc = "writeIndex"]] /\ UNCHANGED <<file, mem>>
    BY <1>3, <1>11 DEF WriteState, Step
  <2>2. [c EXCEPT !.pc = "writeIndex"].pc = "writeIndex"
    BY DEF SaveCall
  <2>3. call'[p].pc = "writeIndex" /\ \A q \in Proc \ {p} : call'[q] = call[q]
    BY <1>0, <2>1, <2>2
  <2>4. ws'.active # 0
    <3>1. c.pc = "writeState" /\ ws' = c.state
      BY <1>3, <1>11 DEF WriteState, At
    <3>2. c.state.active = c.draft.id
      BY <1>2, <1>3, <3>1 DEF SaveOK
    <3> QED
      BY <1>2, <1>3, <3>1, <3>2 DEF Sid
  <2>5. ~Attempts(p)'
    BY <2>3 DEF Attempts
  <2> QED
    BY <1>4, <1>11, <2>1, <2>3, <2>4, <2>5, LegacyKept
<1>12. CASE WriteIndex(p)
  <2>1. /\ UNCHANGED <<file, ws>> /\ call[p].pc = "writeIndex"
        /\ \A q \in Proc \ {p} : mem'[q] = mem[q] /\ call'[q] = call[q]
    BY <1>0, <1>12 DEF WriteIndex, At, Goto
  <2>2. ~(legacy = "own" /\ ws.active = 0)
    BY <1>2, <1>c, <2>1 DEF Clear
  <2>3. call'[p].pc # "write"
    BY <1>0, <1>2, <1>12 DEF WriteIndex, Goto, Idle, SaveCall
  <2>4. ~Attempts(p)'
    BY <2>3 DEF Attempts
  <2> QED
    BY <1>4, <2>1, <2>2, <2>4, LegacyKept
<1> QED
  BY <1>6, <1>7, <1>8, <1>9, <1>10, <1>11, <1>12

\* The steps that leave the process with no save, and the end of writePlanArtifact.
LEMMA LegacyOther ==
  ASSUME SessionConstants, FilesInv, FilesInv', LegacyInv, NEW p \in Proc,
         \/ createDraftPlan(p) \/ updatePlan(p) \/ finalizePlan(p) \/ approvePlan(p)
         \/ markDeclined(p) \/ updatePlanProgress(p)
         \/ restoreWorkspaceCheckpoint(p) \/ Restored(p) \/ seedPlanProgress(p) \/ markApproved(p)
         \/ WritePlanJson(p) \/ WritePlanMd(p) \/ CallFails(p) \/ Crash(p)
  PROVE  LegacyInv'
<1>0. /\ FilesTyped /\ call \in [Proc -> Call] /\ mem \in [Proc -> SessionRow]
      /\ snap \in [Wid -> SnapPhase] /\ 1 \in Wid
      /\ made \in [session : 0..MaxSession, snap : 0..MaxSnap, plan : 0..MaxPlan, text : Nat]
  BY DEF FilesInv, FilesTyped, SessionConstants, Wid
<1>c. legacy = "own" /\ ws.active = 0 => Clear(p)
  BY DEF LegacyInv
<1>1. UNCHANGED <<file, ws, legacy>> /\ made.session <= made'.session
  <2>1. UNCHANGED <<file, ws, legacy>> /\ (UNCHANGED made \/ createDraftPlan(p) \/ updatePlan(p))
    BY DEF updatePlan, finalizePlan, approvePlan, markDeclined, updatePlanProgress, createDraftPlan,
       restoreWorkspaceCheckpoint, Restored, seedPlanProgress, markApproved, WritePlanJson, WritePlanMd,
       CallFails, Crash
  <2>2. createDraftPlan(p) \/ updatePlan(p) => made'.session = made.session
    BY <1>0 DEF createDraftPlan, updatePlan
  <2> QED
    BY <1>0, <2>1, <2>2
<1>2. snap[1] # "none" => snap'[1] # "none"
  <2>1. UNCHANGED snap \/ restoreWorkspaceCheckpoint(p)
    BY DEF updatePlan, finalizePlan, approvePlan, markDeclined, updatePlanProgress, createDraftPlan,
       Restored, seedPlanProgress, markApproved, WritePlanJson, WritePlanMd, CallFails, Crash
  <2>2. restoreWorkspaceCheckpoint(p) => (snap[1] # "none" => snap'[1] # "none")
    BY <1>0 DEF restoreWorkspaceCheckpoint, resolved
  <2> QED
    BY <2>1, <2>2
<1>3. \A q \in Proc \ {p} : call'[q] = call[q] /\ mem'[q] = mem[q]
  <2>1. CASE createDraftPlan(p) \/ updatePlan(p) \/ finalizePlan(p) \/ approvePlan(p)
             \/ markDeclined(p) \/ updatePlanProgress(p)
    BY <1>0, <2>1 DEF updatePlan, finalizePlan, approvePlan, markDeclined, updatePlanProgress,
       createDraftPlan, Goto
  <2>2. CASE restoreWorkspaceCheckpoint(p) \/ Restored(p) \/ seedPlanProgress(p) \/ markApproved(p)
             \/ WritePlanJson(p) \/ WritePlanMd(p)
    BY <1>0, <2>2 DEF restoreWorkspaceCheckpoint, Restored, seedPlanProgress, markApproved,
       WritePlanJson, WritePlanMd, Goto, Step
  <2>3. CASE CallFails(p) \/ Crash(p)
    BY <1>0, <2>3 DEF CallFails, Crash, Goto
  <2> QED
    BY <2>1, <2>2, <2>3
<1>4. \/ mem'[p].id = mem[p].id
      \/ mem'[p].id = 0
  <2>1. UNCHANGED mem \/ Crash(p)
    BY DEF updatePlan, finalizePlan, approvePlan, markDeclined, updatePlanProgress, createDraftPlan,
       restoreWorkspaceCheckpoint, Restored, seedPlanProgress, markApproved, WritePlanJson, WritePlanMd,
       CallFails
  <2>2. Crash(p) => mem'[p].id = 0
    BY <1>0 DEF Crash, NoSession
  <2> QED
    BY <2>1, <2>2
<1>5. ASSUME call'[p].pc \notin Saves
      PROVE  LegacyInv'
  <2>1. call'[p] \notin SaveCall
    BY <1>5 DEF SaveCall
  <2>2. Clear(p) => Clear(p)'
    BY <1>4, <2>1 DEF Clear
  <2>3. ~Attempts(p)'
    BY <2>1 DEF Attempts
  <2> QED
    BY <1>1, <1>2, <1>3, <1>c, <2>2, <2>3, LegacyKept
<1>6. CASE WritePlanMd(p)
  <2> DEFINE m == [op |-> call[p].op, plan |-> call[p].plan]
  <2>1. call'[p] = Saving(mem[p], m, "idle") /\ UNCHANGED mem
    BY <1>0, <1>6 DEF WritePlanMd, Goto
  <2> HIDE DEF m
  <2>2. call'[p].pc = "lock" /\ call'[p].draft = mem[p]
    BY <2>1 DEF Saving
  <2>3. Clear(p) => Clear(p)'
    BY <2>1, <2>2 DEF Clear
  <2>4. ~Attempts(p)'
    BY <2>2 DEF Attempts
  <2> QED
    BY <1>1, <1>2, <1>3, <1>c, <2>3, <2>4, LegacyKept
<1>7. CASE createDraftPlan(p) \/ updatePlan(p) \/ finalizePlan(p) \/ approvePlan(p)
           \/ markDeclined(p) \/ updatePlanProgress(p)
  <2>1. call'[p].pc \in {"planLock", "seed"}
    BY <1>0, <1>7 DEF createDraftPlan, updatePlan, finalizePlan, approvePlan, markDeclined,
       updatePlanProgress, Goto, Writing
  <2> QED
    BY <1>5, <2>1 DEF Saves, Named
<1>8. CASE restoreWorkspaceCheckpoint(p) \/ Restored(p)
  <2>1. call[p] \in Call /\ call[p].pc \in {"restore", "restored"}
    BY <1>0, <1>8 DEF restoreWorkspaceCheckpoint, Restored, At
  <2>2. call[p] \in RestoreCall
    BY <2>1, Kinds
  <2>3. call'[p].pc \in {"restored", "idle"}
    BY <1>0, <1>8, <2>2 DEF restoreWorkspaceCheckpoint, Restored, Goto, Idle, RestoreCall
  <2> QED
    BY <1>5, <2>3 DEF Saves, Named
<1>9. CASE seedPlanProgress(p) \/ markApproved(p) \/ WritePlanJson(p)
  <2>1. call[p] \in Call /\ call[p].pc \in {"seed", "review", "planLock"}
    BY <1>0, <1>9 DEF seedPlanProgress, markApproved, WritePlanJson, At
  <2>2. call[p] \in SeedCall \/ call[p] \in PlanCall
    BY <2>1, Kinds
  <2>3. call'[p].pc \in {"review", "idle", "planLock", "planMd"}
    BY <1>0, <1>9, <2>2 DEF seedPlanProgress, markApproved, WritePlanJson, Goto, Step, Idle, Writing,
       SeedCall, PlanCall
  <2> QED
    BY <1>5, <2>3 DEF Saves, Named
<1>10. CASE CallFails(p) \/ Crash(p)
  <2>1. call'[p].pc = "idle"
    BY <1>0, <1>10 DEF CallFails, Crash, Goto, Idle
  <2> QED
    BY <1>5, <2>1 DEF Saves, Named
<1> QED
  BY <1>6, <1>7, <1>8, <1>9, <1>10

\* ---- the theorems ------------------------------------------------------------------

LEMMA NextInv ==
  ASSUME SessionConstants, FilesInv, LegacyInv, [Next]_vars
  PROVE  FilesInv' /\ LegacyInv'
<1>1. CASE GitCollects \/ Quiet \/ UNCHANGED vars
  <2>1. FilesInv'
    BY <1>1, CollectStep DEF Quiet
  <2>2. UNCHANGED <<file, ws, legacy, mem, call, made>>
    BY <1>1 DEF GitCollects, Quiet, vars
  <2>3. snap[1] # "none" => snap'[1] # "none"
    <3>1. snap \in [Wid -> SnapPhase] /\ 1 \in Wid /\ DOMAIN snap = Wid
      BY DEF FilesInv, FilesTyped, SessionConstants, Wid
    <3>2. CASE GitCollects
      BY <3>1, <3>2 DEF GitCollects
    <3>3. CASE UNCHANGED snap
      BY <3>3
    <3> QED
      BY <1>1, <3>2, <3>3 DEF Quiet, vars
  <2>4. LegacyInv'
    BY <2>2, <2>3 DEF LegacyInv, Attempts, Clear, Written
  <2> QED
    BY <2>1, <2>4
<1>2. ASSUME NEW p \in Proc,
             \/ ensureSession(p) \/ appendRecord(p) \/ ensureFresh(p) \/ loadSession(p)
             \/ forkSessionFromCheckpoint(p) \/ createCheckpoint(p) \/ prepareWorkspaceRestore(p)
             \/ createDraftPlan(p) \/ updatePlan(p) \/ finalizePlan(p) \/ approvePlan(p)
             \/ markDeclined(p) \/ updatePlanProgress(p)
      PROVE  FilesInv' /\ LegacyInv'
  <2>1. FilesInv'
    BY <1>2, EnsureStep, AppendStep, FreshStep, LoadStep, CheckpointStep, PrepareStep,
       DraftStep, RewriteStep, ApproveStep, DeclineStep, ProgressStep
  <2> QED
    BY <1>2, <2>1, LegacyTaken, LegacyBegins, LegacyOther
<1>3. ASSUME NEW p \in Proc, Work(p)
      PROVE  FilesInv' /\ LegacyInv'
  <2>1. FilesInv'
    BY <1>3, LockStep, MutateStep, WriteStep, StateStep, WriteStateStep, IndexStep, RestoreStep,
       SeedStep, ReviewStep, JsonStep, MdStep DEF Work
  <2> QED
    BY <1>3, <2>1, LegacySaves, LegacyOther DEF Work
<1>4. ASSUME NEW p \in Proc, CallFails(p) \/ Crash(p)
      PROVE  FilesInv' /\ LegacyInv'
  <2>1. FilesInv'
    BY <1>4, FaultStep
  <2> QED
    BY <1>4, <2>1, LegacyOther
<1> QED
  BY <1>1, <1>2, <1>3, <1>4 DEF Next

LEMMA Inductive == Spec => []FilesInv
<1>1. Init => FilesInv /\ LegacyInv
  BY InitInv, InitLegacy, SessionAssumption
<1>2. FilesInv /\ LegacyInv /\ [Next]_vars => (FilesInv /\ LegacyInv)'
  BY NextInv, SessionAssumption
<1> QED
  BY <1>1, <1>2, PTL DEF Spec

\* What the invariant says of the files.
LEMMA Agreeing ==
  ASSUME SessionConstants, FilesInv
  PROVE  FilesAgree
<1>0. FilesTyped /\ FilesOK /\ PlansOK /\ ws \in StateRow
  BY DEF FilesInv, FilesTyped
<1>1. NamedIsWritten
  <2>1. ASSUME NEW s \in Range(ws.recent) PROVE file[s].id = s
    BY <1>0 DEF FilesOK, Recent, Written, Range
  <2>2. ws.active # 0 => ws.active \in Range(ws.recent) /\ ws.recent[1] = ws.active
    <3> SUFFICES ASSUME ws.active # 0
                 PROVE  ws.active \in Range(ws.recent) /\ ws.recent[1] = ws.active
      OBVIOUS
    <3>1. ws.recent # <<>> /\ ws.recent[1] = ws.active /\ ws.recent \in Seq(Sid)
      BY <1>0 DEF FilesOK, Recent, StateRow
    <3>2. 1 \in DOMAIN ws.recent
      BY <3>1, LenProperties, EmptySeq
    <3> QED
      BY <3>1, <3>2 DEF Range
  <2>3. index # 0 => file[index].id = index
    BY <1>0 DEF FilesOK, Written
  <2> QED
    BY <2>1, <2>2, <2>3 DEF NamedIsWritten
<1>2. CheckpointsResolve
  BY <1>0 DEF CheckpointsResolve, FilesOK, Sound, Sid
<1>3. ApprovedIsSeeded
  <2> SUFFICES ASSUME NEW s \in Sid, file[s].approved # 0
               PROVE  plan[file[s].approved].progress # 0 /\ plan[file[s].approved].session = s
    BY DEF ApprovedIsSeeded, Sid
  <2>1. file[s] \in SessionRow /\ file[s].id \in {0, s} /\ Sound(file[s], snap, plan)
    BY <1>0 DEF FilesOK, FilesTyped
  <2>2. file[s].approved \in Pid
    BY <2>1 DEF SessionRow, Pid, SessionConstants
  <2>3. plan[file[s].approved].progress # 0 /\ plan[file[s].approved].session = file[s].id
    BY <2>1 DEF Sound
  <2>4. plan[file[s].approved].session # 0
    BY <1>0, <2>2, <2>3 DEF PlansOK
  <2> QED
    BY <2>1, <2>3, <2>4
<1> QED
  BY <1>1, <1>2, <1>3 DEF FilesAgree

\* The only step to "restored" is that of git restore, ...
LEMMA OnlyRestores ==
  ASSUME FilesTyped, NEW p \in Proc, [Next]_vars, call'[p].pc = "restored", call[p].pc # "restored"
  PROVE  restoreWorkspaceCheckpoint(p)
<1>0. call \in [Proc -> Call]
  BY DEF FilesTyped
<1>1. CASE GitCollects \/ Quiet \/ UNCHANGED vars
  BY <1>1 DEF GitCollects, Quiet, vars
<1>2. ASSUME NEW q \in Proc,
             ensureSession(q) \/ appendRecord(q) \/ ensureFresh(q) \/ forkSessionFromCheckpoint(q)
      PROVE  FALSE
  <2>1. CASE ensureSession(q)
    BY <1>0, <2>1 DEF ensureSession, Goto
  <2>2. CASE appendRecord(q)
    BY <1>0, <2>2 DEF appendRecord, Goto, Saving
  <2>3. CASE ensureFresh(q)
    BY <1>0, <2>3 DEF ensureFresh, Goto, Saving
  <2>4. CASE forkSessionFromCheckpoint(q)
    BY <1>0, <2>4 DEF forkSessionFromCheckpoint, Goto, Saving
  <2> QED
    BY <1>2, <2>1, <2>2, <2>3, <2>4
<1>3. ASSUME NEW q \in Proc,
             loadSession(q) \/ createCheckpoint(q) \/ prepareWorkspaceRestore(q)
      PROVE  FALSE
  <2>1. CASE loadSession(q)
    BY <2>1 DEF loadSession
  <2>2. CASE createCheckpoint(q)
    BY <1>0, <2>2 DEF createCheckpoint, Goto, Saving
  <2>3. CASE prepareWorkspaceRestore(q)
    BY <1>0, <2>3 DEF prepareWorkspaceRestore, Goto, Saving
  <2> QED
    BY <1>3, <2>1, <2>2, <2>3
<1>4. ASSUME NEW q \in Proc,
             createDraftPlan(q) \/ updatePlan(q) \/ finalizePlan(q) \/ approvePlan(q)
               \/ markDeclined(q) \/ updatePlanProgress(q)
      PROVE  FALSE
  <2>1. CASE createDraftPlan(q)
    BY <1>0, <2>1 DEF createDraftPlan, Goto, Writing
  <2>2. CASE updatePlan(q)
    BY <1>0, <2>2 DEF updatePlan, Goto, Writing
  <2>3. CASE finalizePlan(q)
    BY <1>0, <2>3 DEF finalizePlan, Goto, Writing
  <2>4. CASE approvePlan(q)
    BY <1>0, <2>4 DEF approvePlan, Goto
  <2>5. CASE markDeclined(q)
    BY <1>0, <2>5 DEF markDeclined, Goto, Writing
  <2>6. CASE updatePlanProgress(q)
    BY <1>0, <2>6 DEF updatePlanProgress, Goto
  <2> QED
    BY <1>4, <2>1, <2>2, <2>3, <2>4, <2>5, <2>6
<1>5. ASSUME NEW q \in Proc, NEW pc, Step(q, pc), pc # "restored"
      PROVE  FALSE
  <2>1. CASE q = p
    <3>1. call[p] = Idle \/ call[p] \in SaveCall \/ call[p] \in PlanCall \/ call[p] \in SeedCall
            \/ call[p] \in RestoreCall
      BY <1>0 DEF Call
    <3>2. call'[p] = [call[p] EXCEPT !.pc = pc]
      BY <1>0, <1>5, <2>1 DEF Step
    <3>3. call'[p].pc = pc
      BY <3>1, <3>2 DEF Idle, SaveCall, PlanCall, SeedCall, RestoreCall
    <3> QED
      BY <1>5, <3>3
  <2>2. CASE q # p
    BY <1>0, <1>5, <2>2 DEF Step
  <2> QED
    BY <2>1, <2>2
<1>6. ASSUME NEW q \in Proc,
             SaveLock(q) \/ WriteSession(q) \/ LockState(q) \/ WriteState(q) \/ WritePlanJson(q)
      PROVE  FALSE
  <2>1. \E pc \in {"write", "read", "readState", "lockState", "writeIndex", "planMd"} : Step(q, pc)
    BY <1>6 DEF SaveLock, WriteSession, LockState, WriteState, WritePlanJson
  <2> QED
    BY <1>5, <2>1
<1>7. ASSUME NEW q \in Proc, readSessionForMutation(q) \/ ReadState(q)
      PROVE  FALSE
  <2>1. call[q] \in SaveCall
    <3>1. call[q].pc \in {"read", "readState"} /\ call[q] \in Call
      BY <1>0, <1>7 DEF readSessionForMutation, ReadState, At
    <3> QED
      BY <3>1, Kinds DEF Saves, Named
  <2>2. CASE readSessionForMutation(q)
    <3>1. PICK t : call' = [call EXCEPT ![q] = [call[q] EXCEPT !.pc = "write", !.draft = t]]
      BY <2>2 DEF readSessionForMutation, Goto
    <3>2. [call[q] EXCEPT !.pc = "write", !.draft = t].pc = "write"
      BY <2>1 DEF SaveCall
    <3> QED
      BY <1>0, <3>1, <3>2
  <2>3. CASE ReadState(q)
    <3>1. PICK t : call' = [call EXCEPT ![q] = [call[q] EXCEPT !.pc = "writeState", !.state = t]]
      BY <2>3 DEF ReadState, Goto
    <3>2. [call[q] EXCEPT !.pc = "writeState", !.state = t].pc = "writeState"
      BY <2>1 DEF SaveCall
    <3> QED
      BY <1>0, <3>1, <3>2
  <2> QED
    BY <1>7, <2>2, <2>3
<1>8. ASSUME NEW q \in Proc, WriteIndex(q) \/ Restored(q) \/ CallFails(q) \/ Crash(q)
      PROVE  FALSE
  <2>1. CASE WriteIndex(q)
    <3>1. call[q].then \in {"idle", "restore"}
      <4>1. call[q].pc = "writeIndex" /\ call[q] \in Call
        BY <1>0, <2>1 DEF WriteIndex, At
      <4>2. call[q] \in SaveCall
        BY <4>1, Kinds DEF Saves, Named
      <4> QED
        BY <4>2 DEF SaveCall
    <3>2. PICK e : call' = [call EXCEPT ![q] = e] /\ (e = Idle \/ e.pc = "restore")
      <4>1. CASE call[q].then = "idle"
        BY <2>1, <4>1 DEF WriteIndex, Goto
      <4>2. CASE call[q].then = "restore"
        <5>1. call' = [call EXCEPT ![q] = [pc |-> "restore", of |-> call[q].mutator.of,
                                           safety |-> call[q].mutator.snap]]
          BY <2>1, <4>2 DEF WriteIndex, Goto
        <5> QED
          BY <5>1
      <4> QED
        BY <3>1, <4>1, <4>2
    <3> QED
      BY <1>0, <3>2 DEF Idle
  <2>2. CASE Restored(q) \/ CallFails(q) \/ Crash(q)
    <3>1. call' = [call EXCEPT ![q] = Idle]
      BY <2>2 DEF Restored, CallFails, Crash, Goto
    <3> QED
      BY <1>0, <3>1 DEF Idle
  <2> QED
    BY <1>8, <2>1, <2>2
<1>9. ASSUME NEW q \in Proc, seedPlanProgress(q) \/ markApproved(q) \/ WritePlanMd(q)
      PROVE  FALSE
  <2>1. CASE seedPlanProgress(q)
    <3>1. Step(q, "review") \/ call' = [call EXCEPT ![q] = Idle]
      BY <2>1 DEF seedPlanProgress, Goto
    <3> QED
      BY <1>0, <1>5, <3>1 DEF Idle
  <2>2. CASE markApproved(q)
    BY <1>0, <2>2 DEF markApproved, Goto, Writing, Idle
  <2>3. CASE WritePlanMd(q)
    BY <1>0, <2>3 DEF WritePlanMd, Goto, Saving
  <2> QED
    BY <1>9, <2>1, <2>2, <2>3
<1>10. ASSUME NEW q \in Proc, restoreWorkspaceCheckpoint(q)
       PROVE  q = p
  BY <1>0, <1>10 DEF restoreWorkspaceCheckpoint, Goto
<1>11. ASSUME NEW q \in Proc,
             \/ ensureSession(q) \/ appendRecord(q) \/ ensureFresh(q) \/ loadSession(q)
             \/ forkSessionFromCheckpoint(q) \/ createCheckpoint(q) \/ prepareWorkspaceRestore(q)
             \/ createDraftPlan(q) \/ updatePlan(q) \/ finalizePlan(q) \/ approvePlan(q)
             \/ markDeclined(q) \/ updatePlanProgress(q)
             \/ Work(q) \/ CallFails(q) \/ Crash(q)
       PROVE  restoreWorkspaceCheckpoint(p)
  <2>1. restoreWorkspaceCheckpoint(q)
    BY <1>2, <1>3, <1>4, <1>6, <1>7, <1>8, <1>9, <1>11 DEF Work
  <2> QED
    BY <1>10, <2>1
<1> QED
  BY <1>1, <1>11 DEF Next

\* ... to a new state.json that of WriteState, and to a new session file that of
\* WriteSession.
LEMMA OnlyWrites ==
  ASSUME [Next]_vars
  PROVE  /\ UNCHANGED ws \/ \E q \in Proc : WriteState(q)
         /\ UNCHANGED file \/ \E q \in Proc : WriteSession(q)
<1>1. CASE GitCollects \/ Quiet \/ UNCHANGED vars
  BY <1>1 DEF GitCollects, Quiet, vars
<1>2. ASSUME NEW p \in Proc,
             \/ ensureSession(p) \/ appendRecord(p) \/ ensureFresh(p) \/ loadSession(p)
             \/ forkSessionFromCheckpoint(p) \/ createCheckpoint(p) \/ prepareWorkspaceRestore(p)
      PROVE  UNCHANGED <<file, ws>>
  BY <1>2 DEF ensureSession, appendRecord, ensureFresh, loadSession, forkSessionFromCheckpoint,
     createCheckpoint, prepareWorkspaceRestore
<1>3. ASSUME NEW p \in Proc,
             \/ createDraftPlan(p) \/ updatePlan(p) \/ finalizePlan(p) \/ approvePlan(p)
             \/ markDeclined(p) \/ updatePlanProgress(p) \/ CallFails(p) \/ Crash(p)
      PROVE  UNCHANGED <<file, ws>>
  BY <1>3 DEF createDraftPlan, updatePlan, finalizePlan, approvePlan, markDeclined,
     updatePlanProgress, CallFails, Crash
<1>4. ASSUME NEW p \in Proc, Work(p)
      PROVE  /\ UNCHANGED ws \/ WriteState(p)
             /\ UNCHANGED file \/ WriteSession(p)
  <2>1. ASSUME \/ SaveLock(p) \/ readSessionForMutation(p) \/ LockState(p) \/ ReadState(p)
               \/ WriteIndex(p) \/ restoreWorkspaceCheckpoint(p) \/ Restored(p)
               \/ seedPlanProgress(p) \/ markApproved(p) \/ WritePlanJson(p) \/ WritePlanMd(p)
        PROVE  UNCHANGED <<file, ws>>
    BY <2>1 DEF SaveLock, readSessionForMutation, LockState, ReadState, WriteIndex,
       restoreWorkspaceCheckpoint, Restored, seedPlanProgress, markApproved, WritePlanJson, WritePlanMd
  <2>2. CASE WriteSession(p)
    BY <2>2 DEF WriteSession
  <2>3. CASE WriteState(p)
    BY <2>3 DEF WriteState
  <2> QED
    BY <1>4, <2>1, <2>2, <2>3 DEF Work
<1> QED
  BY <1>1, <1>2, <1>3, <1>4 DEF Next

LEMMA StepsKeep ==
  ASSUME SessionConstants, FilesInv, [Next]_vars
  PROVE  FilesAreKept
<1>0. /\ FilesTyped /\ FilesOK /\ call \in [Proc -> Call] /\ file \in [Sid -> SessionRow]
      /\ \A p \in Proc : OwnInv(p)
  BY DEF FilesInv, FilesTyped
<1>1. SessionsAreKept
  <2>1. CASE UNCHANGED ws
    BY <2>1 DEF SessionsAreKept
  <2>2. ASSUME NEW p \in Proc, WriteState(p)
        PROVE  SessionsAreKept
    <3>1. call[p].pc = "writeState" /\ ws' = call[p].state
      BY <2>2 DEF WriteState, At
    <3>2. call[p] \in SaveCall /\ SaveOK(p)
      BY <3>1, InSave DEF Saves, Named
    <3>3. Kept(ws', ws)
      BY <3>1, <3>2 DEF SaveOK
    <3> QED
      BY <3>3 DEF Kept, SessionsAreKept, Range
  <2> QED
    BY <2>1, <2>2, OnlyWrites
<1>2. MutationKeeps
  <2> SUFFICES ASSUME NEW p \in Proc, NEW s \in Sid, file'[s] # file[s], call[p].pc = "write",
                      call'[p].pc # "write", call[p].mutator.op # "none", NEW k \in DOMAIN file[s].cps
               PROVE  file[s].cps[k] \in Range(file'[s].cps)
    BY DEF MutationKeeps, At, Sid
  <2>1. PICK q \in Proc : WriteSession(q)
    BY OnlyWrites
  <2>2. q = p
    BY <1>0, <2>1 DEF WriteSession, Step
  <2>3. /\ call[p] \in SaveCall /\ Mutates(p) /\ call[p].draft.id \in Sid
    BY InSave DEF Saves
  <2>4. s = call[p].draft.id /\ file'[s] = call[p].draft
    BY <1>0, <2>1, <2>2, <2>3 DEF WriteSession
  <2>5. \E j \in DOMAIN call[p].draft.cps : call[p].draft.cps[j] = file[s].cps[k]
    BY <2>3, <2>4 DEF Mutates
  <2> QED
    BY <2>4, <2>5 DEF Range
<1>3. RestoreIsGuarded
  <2> SUFFICES ASSUME NEW p \in Proc, call'[p].pc = "restored", call[p].pc # "restored"
               PROVE  /\ snap[call[p].safety] # "none"
                      /\ \E k \in DOMAIN mem[p].cps : mem[p].cps[k].snap = call[p].safety
    BY DEF RestoreIsGuarded, At
  <2>1. restoreWorkspaceCheckpoint(p)
    BY <1>0, OnlyRestores
  <2>2. call[p].pc = "restore" /\ call[p] \in Call
    BY <1>0, <2>1 DEF restoreWorkspaceCheckpoint, At
  <2>3. call[p] \in RestoreCall /\ RestoreOK(p)
    BY <1>0, <2>2, Kinds DEF OwnInv
  <2> QED
    BY <2>3 DEF RestoreOK
<1> QED
  BY <1>1, <1>2, <1>3 DEF FilesAreKept

\* Whatever any number of processes do to the files, and whichever call of theirs
\* fails or process is killed: what state.json and the index name is a session file
\* (saveSession writes it first), every checkpoint of a session has its workspace
\* checkpoint and its records (createCheckpoint, forkSessionFromCheckpoint), and an
\* approved plan has its progress (approvePlan).
THEOREM FilesAlwaysAgree == Spec => []FilesAgree
<1>1. FilesInv => FilesAgree
  BY Agreeing, SessionAssumption
<1> QED
  BY <1>1, Inductive, PTL

\* No step of theirs drops a recent session that another process has recorded
\* (recordWorkspaceSession under the workspace-state lock) or a checkpoint that
\* another has added (mutateSession under the session lock), and git restore runs
\* only when its safety checkpoint is in the session (prepareWorkspaceRestore).
THEOREM NothingIsEverDropped == Spec => NothingIsDropped
<1>1. FilesInv /\ [Next]_vars => [FilesAreKept]_vars
  BY StepsKeep, SessionAssumption
<1> QED
  BY <1>1, Inductive, PTL DEF Spec, NothingIsDropped
=============================================================================
