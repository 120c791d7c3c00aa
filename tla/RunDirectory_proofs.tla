------------------------ MODULE RunDirectory_proofs ------------------------
(***************************************************************************)
(* Proofs about RunDirectory: for any processes, identifiers and bounds, a  *)
(* run that was published, or that a resume finds, is complete, whatever    *)
(* kills and power losses come between the steps that made it.              *)
(***************************************************************************)
EXTENDS RunDirectory, TLAPS

Alloc == {"layout", "manifest", "syncroot", "syncbase", "rollback"}
Publishing == {"publish", "fill", "rename", "pubsync"}
Later == Opening \cup {"save", "load", "work"} \cup Publishing

Dirs == [Files -> Cell \cup {None}]
Whole(c) == c = Synced("whole")
Ready(c) == c # None /\ c.value \in {"running", "succeeded"}

\* What is on the way to a complete run: the allocated root, the store's
\* manifest, its database; d is what a root shows, k what of it survives.
Laid(d, k) == \A f \in {"layout", "manifest"} : Whole(d[f]) /\ Whole(k[f])
Stored(d, k) == Laid(d, k) /\ Whole(d["checkpoint-manifest"]) /\ Whole(k["checkpoint-manifest"])
Usable(b) == b # None /\ b.meta /\ b.row > 0 /\ b.named
Complete(d, k, b) == Stored(d, k) /\ Usable(b)

\* What the steps of a process have made of its root when it is at label l,
\* in mode m and about to publish s.
AllocOK(l, m, d, k, b) ==
    /\ l \in Alloc => /\ m = "start" /\ b = None
                      /\ \A f \in Files \ {"layout", "manifest"} : d[f] = None /\ k[f] = None
    /\ l \in {"manifest", "syncroot", "syncbase"} => Whole(d["layout"])
    /\ l \in {"syncroot", "syncbase"} => Whole(d["manifest"])
    /\ l = "syncbase" \/ l \in Later => Laid(d, k)
OpenOK(l, m, d, k, b) ==
    /\ l \in {"check", "tmp", "write"} /\ m = "start" => d["checkpoint-manifest"] = None
    /\ l \in {"check", "tmp", "write", "mansync", "db"} /\ m = "start" => b = None
    /\ l \in {"tmp", "write", "mansync", "save"} => m = "start"
    /\ l = "mansync" => Whole(d["checkpoint-manifest"])
    /\ l \in {"db", "meta", "dbsync", "save"} => Stored(d, k)
    /\ l \in {"meta", "dbsync", "save"} => b # None
    /\ l \in {"dbsync", "save"} => b.meta
    /\ l = "save" => b.named
PublishOK(l, s, d, k, b) ==
    /\ l = "work" => Complete(d, k, b)
    /\ l \in Publishing => /\ s \in Statuses
                           /\ s \in {"running", "succeeded"} => Complete(d, k, b)
    /\ l = "rename" => d["run-tmp"] = Synced(s)
    /\ l = "pubsync" => d["run-manifest"] = Synced(s)
PhaseOK(l, m, s, d, k, b) ==
    /\ AllocOK(l, m, d, k, b) /\ OpenOK(l, m, d, k, b) /\ PublishOK(l, s, d, k, b)
    /\ m \in {"start", "resume"}
    /\ m = "resume" \/ l = "load" => m = "resume" /\ Complete(d, k, b)

\* A process between two commands, or drawing an identifier, has no root;
\* at any other label it has one, whose name survives once the base is synced.
Sound(p) ==
    /\ pc[p] \in {"idle", "draw"} <=> at[p] = None
    /\ pc[p] = "draw" => mode[p] = "start"
    /\ at[p] # None =>
          /\ at[p] \in roots
          /\ pc[p] \in Later => at[p] \in rootsDisk
          /\ PhaseOK(pc[p], mode[p], status[p], dir[at[p]], disk[at[p]], db[at[p]])
ProcsSound == \A p \in Procs : Sound(p)

\* A root has one process at a time.
OnePerRoot == \A p, q \in Procs : at[p] # None /\ at[p] = at[q] => p = q

\* A root whose run can be found, now or after a power loss, is complete in
\* what it shows and in what survives; a promised one says so itself.  No data
\* waits for a sync.
Durable(id) == id \in roots /\ id \in rootsDisk /\ Complete(dir[id], disk[id], db[id])
Published(c) == c # None /\ c.value \in Statuses
ReadyOK(id) == Ready(dir[id]["run-manifest"]) \/ Ready(disk[id]["run-manifest"]) => Durable(id)
PromiseOK(id) ==
    id \in promised => /\ Durable(id) /\ Published(dir[id]["run-manifest"])
                       /\ Published(disk[id]["run-manifest"])
SyncedOK(id) ==
    \A f \in Files : Lossy(dir[id][f]) = dir[id][f] /\ Lossy(disk[id][f]) = disk[id][f]
RootOK(id) == ReadyOK(id) /\ PromiseOK(id) /\ SyncedOK(id)
RootsSound == \A id \in Ids : RootOK(id)

\* Nothing is left of a root that is gone.
GoneIsEmpty == \A id \in Ids \ roots : dir[id] = Empty /\ db[id] = None

\* A start binds a database it has created itself, and so will sync its name.
Fresh == \A p \in Procs : pc[p] = "meta" /\ mode[p] = "start" => created[p]

IInv == TypeOK /\ ProcsSound /\ OnePerRoot /\ RootsSound /\ GoneIsEmpty

-----------------------------------------------------------------------------
(* Lemmas about the helpers.                                                *)

LEMMA CellFacts ==
    /\ \A v \in {"whole", "torn"} \cup Statuses :
          Synced(v) \in Cell /\ Synced(v) # None /\ Synced(v).value = v /\ Lossy(Synced(v)) = Synced(v)
    /\ Torn \in Cell /\ Torn # None /\ Lossy(Torn) = Torn /\ Lossy(None) = None
    /\ ~Ready(Synced("whole")) /\ ~Ready(Synced("failed")) /\ ~Ready(None)
    /\ Empty \in Dirs
<1>1. ASSUME NEW v \in {"whole", "torn"} \cup Statuses
      PROVE  Synced(v) \in Cell /\ Synced(v).value = v /\ Synced(v).flushed
  BY DEF Synced, Cell
<1>2. Torn \in Cell /\ Torn.flushed
  BY DEF Torn, Cell
<1>3. \A c \in Cell : c # None
  BY NoneAssumption
<1>4. \A c \in Cell : c.flushed => Lossy(c) = c
  BY <1>3 DEF Lossy
<1>5. Lossy(None) = None /\ ~Ready(None)
  BY DEF Lossy, Ready
<1>6. ~Ready(Synced("whole")) /\ ~Ready(Synced("failed"))
  BY DEF Ready, Synced
<1>7. Empty \in Dirs
  BY DEF Empty, Dirs
<1>8. QED
  BY <1>1, <1>2, <1>3, <1>4, <1>5, <1>6, <1>7

\* A sync of the root names its database and leaves the rest of it alone.
LEMMA NamedFacts ==
    ASSUME NEW b \in Store \cup {None}
    PROVE  /\ Named(b) \in Store \cup {None}
           /\ b = None <=> Named(b) = None
           /\ b # None => Named(b).meta = b.meta /\ Named(b).row = b.row /\ Named(b).named
           /\ Usable(b) => Usable(Named(b))
<1>1. CASE b = None
  BY <1>1 DEF Named, Usable
<1>2. CASE b \in Store
  <2>1. b # None /\ Named(b) = [b EXCEPT !.named = TRUE]
    BY <1>2, NoneAssumption DEF Named
  <2>2. Named(b) \in Store /\ Named(b).meta = b.meta /\ Named(b).row = b.row /\ Named(b).named
    BY <1>2, <2>1 DEF Store
  <2>3. QED
    BY <2>1, <2>2, NoneAssumption DEF Usable
<1>3. QED
  BY <1>1, <1>2

\* An operation on one entry of one root.
LEMMA PutFacts ==
    ASSUME TypeOK, NEW id \in Ids, NEW f \in Files, NEW c \in Cell \cup {None}, Put(id, f, c)
    PROVE  /\ dir' \in [Ids -> Dirs]
           /\ \A x \in Ids \ {id} : dir'[x] = dir[x]
           /\ dir'[id][f] = c
           /\ \A g \in Files \ {f} : dir'[id][g] = dir[id][g]
BY DEF TypeOK, Put, Dirs

\* A sync of a root without data in flight makes what it shows survive.
LEMMA SyncFacts ==
    ASSUME TypeOK, NEW id \in Ids, SyncedOK(id), SyncDir(id)
    PROVE  /\ disk' \in [Ids -> Dirs]
           /\ \A x \in Ids \ {id} : disk'[x] = disk[x]
           /\ disk'[id] = dir[id]
           /\ db' \in [Ids -> Store \cup {None}] /\ db'[id] = Named(db[id])
           /\ \A x \in Ids \ {id} : db'[x] = db[x]
           /\ Usable(db[id]) => Usable(db'[id])
<1>1. dir[id] \in Dirs /\ dir[id] = [f \in Files |-> dir[id][f]]
  BY DEF TypeOK, Dirs
<1>2. [f \in Files |-> Lossy(dir[id][f])] = dir[id]
  BY <1>1 DEF SyncedOK
<1>3. disk' = [disk EXCEPT ![id] = dir[id]]
  BY <1>2 DEF SyncDir
<1>4. /\ disk' \in [Ids -> Dirs] /\ \A x \in Ids \ {id} : disk'[x] = disk[x]
      /\ disk'[id] = dir[id]
  BY <1>1, <1>3 DEF TypeOK, Dirs
<1>5. db[id] \in Store \cup {None}
  BY DEF TypeOK
<1>6. Named(db[id]) \in Store \cup {None} /\ (Usable(db[id]) => Usable(Named(db[id])))
  BY <1>5, NamedFacts
<1>7. db' = [db EXCEPT ![id] = Named(db[id])]
  BY DEF SyncDir
<1>8. /\ db' \in [Ids -> Store \cup {None}] /\ db'[id] = Named(db[id])
      /\ \A x \in Ids \ {id} : db'[x] = db[x]
  BY <1>6, <1>7 DEF TypeOK
<1>9. QED
  BY <1>4, <1>6, <1>8

\* What a process other than the one that takes the step sees.
OthersStay(p) ==
    \A q \in Procs \ {p} : /\ pc'[q] = pc[q] /\ at'[q] = at[q]
                           /\ mode'[q] = mode[q] /\ status'[q] = status[q]
OtherRoots(id) ==
    \A x \in Ids \ {id} : dir'[x] = dir[x] /\ disk'[x] = disk[x] /\ db'[x] = db[x]

ProcTypes == /\ pc \in [Procs -> Labels]
             /\ at \in [Procs -> Ids \cup {None}]
             /\ mode \in [Procs -> {"start", "resume", None}]
             /\ tries \in [Procs -> Nat] /\ created \in [Procs -> BOOLEAN]
             /\ status \in [Procs -> Statuses \cup {None}]

\* The command of a process ends.
LEMMA LeaveFacts ==
    ASSUME TypeOK, NEW p \in Procs, Leave(p)
    PROVE  /\ ProcTypes' /\ OthersStay(p)
           /\ pc'[p] = "idle" /\ at'[p] = None
<1>1. "idle" \in Labels
  BY DEF Labels
<1>2. QED
  BY <1>1 DEF Leave, Go, TypeOK, ProcTypes, OthersStay

\* A process goes on to label l.
LEMMA GoFacts ==
    ASSUME TypeOK, NEW p \in Procs, NEW l \in Labels, Go(p, l)
    PROVE  /\ pc' \in [Procs -> Labels] /\ pc'[p] = l
           /\ \A q \in Procs \ {p} : pc'[q] = pc[q]
BY DEF Go, TypeOK

LEMMA SpendFacts ==
    ASSUME TypeOK, NEW w \in Budgets, Spend(w)
    PROVE  budget' \in [Budgets -> Nat]
BY DEF Spend, TypeOK

\* What is known of a process that has a root.
LEMMA Own ==
    ASSUME IInv, NEW p \in Procs, pc[p] \notin {"idle", "draw"}
    PROVE  /\ at[p] \in Ids /\ at[p] # None /\ at[p] \in roots
           /\ pc[p] \in Later => at[p] \in rootsDisk
           /\ PhaseOK(pc[p], mode[p], status[p], dir[at[p]], disk[at[p]], db[at[p]])
           /\ RootOK(at[p])
           /\ dir[at[p]] \in Dirs /\ disk[at[p]] \in Dirs /\ db[at[p]] \in Store \cup {None}
BY DEF IInv, TypeOK, ProcsSound, Sound, RootsSound, Dirs

\* A step of a process on its own root disturbs no one else.
LEMMA OwnStep ==
    ASSUME IInv, TypeOK', NEW p \in Procs, NEW r \in Ids, at[p] = r,
           OthersStay(p), OtherRoots(r),
           roots' = roots, rootsDisk' \in {rootsDisk, roots},
           promised' \in {promised, promised \cup {r}},
           at'[p] \in {r, None}, Sound(p)', RootOK(r)'
    PROVE  IInv'
<1>1. r \in roots /\ r # None
  BY NoneAssumption DEF IInv, TypeOK, ProcsSound, Sound
<1>2. \A q \in Procs \ {p} : at[q] # None => at[q] \in Ids \ {r}
  BY <1>1 DEF IInv, TypeOK, OnePerRoot
<1>3. OnePerRoot'
  BY <1>1, <1>2 DEF IInv, OnePerRoot, OthersStay
<1>4. ASSUME NEW q \in Procs \ {p} PROVE Sound(q)'
  <2>1. /\ pc'[q] = pc[q] /\ at'[q] = at[q] /\ mode'[q] = mode[q] /\ status'[q] = status[q]
    BY DEF OthersStay
  <2>2. CASE at[q] = None
    BY <2>1, <2>2 DEF IInv, ProcsSound, Sound
  <2>3. CASE at[q] # None
    <3>1. dir'[at[q]] = dir[at[q]] /\ disk'[at[q]] = disk[at[q]] /\ db'[at[q]] = db[at[q]]
      BY <1>2, <2>3 DEF OtherRoots
    <3>2. QED
      BY <2>1, <3>1 DEF IInv, ProcsSound, Sound
  <2>4. QED
    BY <2>2, <2>3
<1>5. ASSUME NEW id \in Ids \ {r} PROVE RootOK(id)'
  <2>1. dir'[id] = dir[id] /\ disk'[id] = disk[id] /\ db'[id] = db[id]
    BY DEF OtherRoots
  <2>2. Durable(id) => Durable(id)'
    BY <2>1 DEF Durable
  <2>3. RootOK(id)
    BY DEF IInv, RootsSound
  <2>4. QED
    BY <2>1, <2>2, <2>3 DEF RootOK, ReadyOK, PromiseOK, SyncedOK
<1>6. GoneIsEmpty'
  BY <1>1 DEF IInv, GoneIsEmpty, OtherRoots
<1>7. QED
  BY <1>3, <1>4, <1>5, <1>6 DEF IInv, ProcsSound, RootsSound

\* A step of a process that leaves the files alone.
LEMMA FilesStay ==
    ASSUME IInv, NEW p \in Procs, ProcTypes', OthersStay(p), budget' \in [Budgets -> Nat],
           UNCHANGED <<roots, rootsDisk, dir, disk, db, promised>>, Sound(p)',
           at'[p] \in {at[p], None}
    PROVE  IInv'
<1>1. TypeOK'
  BY DEF IInv, TypeOK, ProcTypes
<1>2. \A id \in Ids : RootOK(id)'
  BY DEF IInv, RootsSound, RootOK, ReadyOK, PromiseOK, SyncedOK, Durable
<1>3. OnePerRoot'
  BY DEF IInv, OnePerRoot, OthersStay
<1>4. ASSUME NEW q \in Procs \ {p} PROVE Sound(q)'
  <2>1. /\ pc'[q] = pc[q] /\ at'[q] = at[q] /\ mode'[q] = mode[q] /\ status'[q] = status[q]
    BY DEF OthersStay
  <2>2. Sound(q)
    BY DEF IInv, ProcsSound
  <2>3. QED
    BY <2>1, <2>2 DEF Sound
<1>5. GoneIsEmpty'
  BY DEF IInv, GoneIsEmpty
<1>6. QED
  BY <1>1, <1>2, <1>3, <1>4, <1>5 DEF IInv, ProcsSound, RootsSound

\* A process goes on, with nothing else of it changed.
LEMMA GoesOn ==
    ASSUME TypeOK, NEW p \in Procs, NEW l \in Labels, Go(p, l), UNCHANGED procVars
    PROVE  /\ ProcTypes' /\ OthersStay(p) /\ pc'[p] = l
           /\ at'[p] = at[p] /\ mode'[p] = mode[p] /\ status'[p] = status[p]
BY GoFacts DEF TypeOK, ProcTypes, OthersStay, procVars

\* A root whose run manifest is not replaced, and that stays complete if it was.
LEMMA KeepRoot ==
    ASSUME NEW r \in Ids, RootOK(r), SyncedOK(r)',
           roots' = roots, rootsDisk' \in {rootsDisk, roots}, promised' = promised,
           dir'[r]["run-manifest"] = dir[r]["run-manifest"],
           disk'[r]["run-manifest"] \in {dir[r]["run-manifest"], disk[r]["run-manifest"]},
           Complete(dir[r], disk[r], db[r]) => Complete(dir'[r], disk'[r], db'[r])
    PROVE  RootOK(r)'
<1>1. Durable(r) => Durable(r)'
  BY DEF Durable
<1>2. QED
  BY <1>1 DEF RootOK, ReadyOK, PromiseOK

\* A step of a process on its root, other than the publication of its run.
LEMMA WorkOnRoot ==
    ASSUME IInv, NEW p \in Procs, NEW r \in Ids, at[p] = r, at'[p] = r,
           ProcTypes', OthersStay(p), OtherRoots(r),
           dir' \in [Ids -> Dirs], disk' \in [Ids -> Dirs], db' \in [Ids -> Store \cup {None}],
           roots' = roots, rootsDisk' \in {rootsDisk, roots}, promised' = promised, budget' = budget,
           dir'[r]["run-manifest"] = dir[r]["run-manifest"],
           disk'[r]["run-manifest"] \in {dir[r]["run-manifest"], disk[r]["run-manifest"]},
           SyncedOK(r)',
           Complete(dir[r], disk[r], db[r]) => Complete(dir'[r], disk'[r], db'[r]),
           pc'[p] \notin {"idle", "draw"},
           pc'[p] \in Later => r \in rootsDisk',
           PhaseOK(pc'[p], mode'[p], status'[p], dir'[r], disk'[r], db'[r])
    PROVE  IInv'
<1>1. TypeOK'
  BY DEF IInv, TypeOK, ProcTypes, Dirs
<1>2. r # None /\ r \in roots /\ RootOK(r)
  BY NoneAssumption DEF IInv, ProcsSound, Sound, RootsSound
<1>3. Sound(p)'
  BY <1>2 DEF Sound
<1>4. RootOK(r)'
  BY <1>2, KeepRoot
<1>5. QED
  BY <1>1, <1>3, <1>4, OwnStep

\* The step writes one entry, not the run manifest.
LEMMA PutStep ==
    ASSUME IInv, NEW p \in Procs, NEW r \in Ids, at[p] = r,
           NEW f \in Files \ {"run-manifest"}, NEW c \in Cell \cup {None}, Lossy(c) = c,
           NEW l \in Labels \ {"idle", "draw"}, Put(r, f, c), Go(p, l),
           UNCHANGED <<roots, rootsDisk, disk, db, procVars, promised, budget>>,
           l \in Later => r \in rootsDisk,
           f \in {"layout", "manifest", "checkpoint-manifest"} => ~Whole(dir[r]["checkpoint-manifest"]),
           \A d \in Dirs : /\ d[f] = c
                           /\ \A g \in Files \ {f} : d[g] = dir[r][g]
                           => PhaseOK(l, mode[p], status[p], d, disk[r], db[r])
    PROVE  IInv'
<1>1. /\ dir' \in [Ids -> Dirs] /\ dir'[r] \in Dirs
      /\ \A x \in Ids \ {r} : dir'[x] = dir[x]
      /\ dir'[r][f] = c /\ \A g \in Files \ {f} : dir'[r][g] = dir[r][g]
  BY PutFacts DEF IInv
<1>2. /\ ProcTypes' /\ OthersStay(p) /\ pc'[p] = l
      /\ at'[p] = at[p] /\ mode'[p] = mode[p] /\ status'[p] = status[p]
  BY GoesOn DEF IInv
<1>3. SyncedOK(r) /\ SyncedOK(r)'
  BY <1>1 DEF IInv, RootsSound, RootOK, SyncedOK
<1>4. Complete(dir[r], disk[r], db[r]) => Complete(dir'[r], disk'[r], db'[r])
  BY <1>1 DEF Complete, Stored, Laid, Files
<1>5. dir'[r]["run-manifest"] = dir[r]["run-manifest"]
  BY <1>1 DEF Files
<1>6. disk' \in [Ids -> Dirs] /\ db' \in [Ids -> Store \cup {None}] /\ OtherRoots(r)
  BY <1>1 DEF IInv, TypeOK, Dirs, OtherRoots
<1>7. PhaseOK(l, mode[p], status[p], dir'[r], disk[r], db[r])
  BY <1>1
<1>8. QED
  BY <1>1, <1>2, <1>3, <1>4, <1>5, <1>6, <1>7, WorkOnRoot

\* The step syncs the root.
LEMMA SyncStep ==
    ASSUME IInv, NEW p \in Procs, NEW r \in Ids, at[p] = r,
           NEW l \in Labels \ {"idle", "draw"}, SyncDir(r), Go(p, l),
           UNCHANGED <<roots, rootsDisk, dir, procVars, promised, budget>>,
           l \in Later => r \in rootsDisk,
           PhaseOK(l, mode[p], status[p], dir[r], dir[r], Named(db[r]))
    PROVE  IInv'
<1>1. SyncedOK(r)
  BY DEF IInv, RootsSound, RootOK
<1>2. /\ disk' \in [Ids -> Dirs] /\ \A x \in Ids \ {r} : disk'[x] = disk[x]
      /\ disk'[r] = dir[r]
      /\ db' \in [Ids -> Store \cup {None}] /\ db'[r] = Named(db[r])
      /\ \A x \in Ids \ {r} : db'[x] = db[x]
      /\ Usable(db[r]) => Usable(db'[r])
  BY <1>1, SyncFacts DEF IInv
<1>3. /\ ProcTypes' /\ OthersStay(p) /\ pc'[p] = l
      /\ at'[p] = at[p] /\ mode'[p] = mode[p] /\ status'[p] = status[p]
  BY GoesOn DEF IInv
<1>4. SyncedOK(r)'
  BY <1>1, <1>2 DEF SyncedOK
<1>5. Complete(dir[r], disk[r], db[r]) => Complete(dir'[r], disk'[r], db'[r])
  BY <1>2 DEF Complete, Stored, Laid
<1>6. dir' \in [Ids -> Dirs] /\ db' \in [Ids -> Store \cup {None}] /\ OtherRoots(r)
  BY <1>2 DEF IInv, TypeOK, Dirs, OtherRoots
<1>7. QED
  BY <1>2, <1>3, <1>4, <1>5, <1>6, WorkOnRoot

\* The step is a transaction of the root's database.
LEMMA DbStep ==
    ASSUME IInv, NEW p \in Procs, NEW r \in Ids, at[p] = r, at'[p] = r,
           ProcTypes', OthersStay(p), pc'[p] \notin {"idle", "draw"},
           NEW b \in Store, db' = [db EXCEPT ![r] = b],
           UNCHANGED <<roots, rootsDisk, dir, disk, promised, budget>>,
           pc'[p] \in Later => r \in rootsDisk,
           Usable(db[r]) => Usable(b),
           PhaseOK(pc'[p], mode'[p], status'[p], dir[r], disk[r], b)
    PROVE  IInv'
<1>1. /\ db' \in [Ids -> Store \cup {None}] /\ db'[r] = b
      /\ \A x \in Ids \ {r} : db'[x] = db[x]
  BY DEF IInv, TypeOK
<1>2. SyncedOK(r)'
  BY DEF IInv, RootsSound, RootOK, SyncedOK
<1>3. Complete(dir[r], disk[r], db[r]) => Complete(dir'[r], disk'[r], db'[r])
  BY <1>1 DEF Complete
<1>4. dir' \in [Ids -> Dirs] /\ disk' \in [Ids -> Dirs] /\ OtherRoots(r)
  BY <1>1 DEF IInv, TypeOK, Dirs, OtherRoots
<1>5. QED
  BY <1>1, <1>2, <1>3, <1>4, WorkOnRoot

-----------------------------------------------------------------------------
(* Allocation.                                                              *)

LEMMA StartIInv == ASSUME IInv, NEW p \in Procs, Start(p) PROVE IInv'
<1>1. at[p] = None
  BY DEF IInv, ProcsSound, Sound, Start
<1>2. "draw" \in Labels /\ "starts" \in Budgets
  BY DEF Labels, Budgets
<1>3. /\ pc' \in [Procs -> Labels] /\ pc'[p] = "draw"
      /\ \A q \in Procs \ {p} : pc'[q] = pc[q]
  BY <1>2, GoFacts DEF Start, IInv
<1>4. budget' \in [Budgets -> Nat]
  BY <1>2, SpendFacts DEF Start, IInv
<1>5. ProcTypes' /\ OthersStay(p) /\ mode'[p] = "start"
  BY <1>3 DEF Start, IInv, TypeOK, ProcTypes, OthersStay
<1>6. UNCHANGED <<roots, rootsDisk, dir, disk, db, promised, at>>
  BY DEF Start, fsVars
<1>7. Sound(p)'
  BY <1>1, <1>3, <1>5, <1>6 DEF Sound
<1>8. QED
  BY <1>4, <1>5, <1>6, <1>7, FilesStay

LEMMA LeaveIInv ==
    ASSUME IInv, NEW p \in Procs, Leave(p), budget' \in [Budgets -> Nat],
           UNCHANGED <<fsVars, db, promised>>
    PROVE  IInv'
<1>1. ProcTypes' /\ OthersStay(p) /\ pc'[p] = "idle" /\ at'[p] = None
  BY LeaveFacts DEF IInv
<1>2. Sound(p)'
  BY <1>1 DEF Sound
<1>3. QED
  BY <1>1, <1>2, FilesStay DEF fsVars

LEMMA CollideIInv == ASSUME IInv, NEW p \in Procs, NEW id \in Ids, Collide(p, id) PROVE IInv'
<1>1. budget' \in [Budgets -> Nat] /\ UNCHANGED <<fsVars, db, promised>>
  BY DEF Collide, IInv, TypeOK
<1>2. CASE Leave(p)
  BY <1>1, <1>2, LeaveIInv
<1>3. CASE tries' = [tries EXCEPT ![p] = @ + 1] /\ UNCHANGED <<pc, at, mode, created, status>>
  <2>1. ProcTypes' /\ OthersStay(p)
    BY <1>3 DEF IInv, TypeOK, ProcTypes, OthersStay
  <2>2. Sound(p)'
    BY <1>1, <1>3 DEF IInv, ProcsSound, Sound, fsVars
  <2>3. QED
    BY <1>1, <1>3, <2>1, <2>2, FilesStay DEF fsVars
<1>4. QED
  BY <1>2, <1>3 DEF Collide

\* A name that is not taken is the name of an empty root.
LEMMA CreateRootIInv == ASSUME IInv, NEW p \in Procs, NEW id \in Ids, CreateRoot(p, id) PROVE IInv'
<1>1. /\ at[p] = None /\ mode[p] = "start" /\ id # None
      /\ dir[id] = Empty /\ db[id] = None /\ id \notin roots
  BY NoneAssumption DEF CreateRoot, IInv, ProcsSound, Sound, GoneIsEmpty
<1>2. "layout" \in Labels
  BY DEF Labels
<1>3. /\ pc' \in [Procs -> Labels] /\ pc'[p] = "layout"
      /\ \A q \in Procs \ {p} : pc'[q] = pc[q]
  BY <1>2, GoFacts DEF CreateRoot, IInv
<1>4. /\ roots' = roots \cup {id} /\ UNCHANGED <<rootsDisk, dir, db, mode, status, promised, budget>>
      /\ disk' = [disk EXCEPT ![id] = Empty] /\ at' = [at EXCEPT ![p] = id]
      /\ UNCHANGED <<tries, created>>
  BY DEF CreateRoot
<1>5. /\ disk' \in [Ids -> Dirs] /\ disk'[id] = Empty /\ \A x \in Ids \ {id} : disk'[x] = disk[x]
  BY <1>4, CellFacts DEF IInv, TypeOK, Dirs
<1>6. /\ at' \in [Procs -> Ids \cup {None}] /\ at'[p] = id
      /\ \A q \in Procs \ {p} : at'[q] = at[q] /\ at[q] # id
  BY <1>1, <1>4 DEF IInv, TypeOK, ProcsSound, Sound
<1>7. TypeOK'
  BY <1>3, <1>4, <1>5, <1>6 DEF IInv, TypeOK, Dirs
<1>8. Sound(p)'
  <2>1. PhaseOK("layout", "start", status[p], Empty, Empty, None)
    BY DEF PhaseOK, AllocOK, OpenOK, PublishOK, Later, Opening, Publishing, Alloc, Empty
  <2>2. "layout" \notin Later
    BY DEF Later, Opening, Publishing
  <2>3. QED
    BY <1>1, <1>3, <1>4, <1>5, <1>6, <2>1, <2>2 DEF Sound
<1>9. ASSUME NEW q \in Procs \ {p} PROVE Sound(q)'
  <2>1. pc'[q] = pc[q] /\ at'[q] = at[q] /\ mode'[q] = mode[q] /\ status'[q] = status[q]
    BY <1>3, <1>4, <1>6
  <2>2. Sound(q) /\ at[q] # id /\ at[q] \in Ids \cup {None}
    BY <1>6 DEF IInv, ProcsSound, TypeOK
  <2>3. QED
    BY <1>4, <1>5, <2>1, <2>2 DEF Sound
<1>10. OnePerRoot'
  BY <1>6 DEF IInv, OnePerRoot
<1>11. RootsSound'
  <2>1. RootOK(id)'
    <3>1. ReadyOK(id)' /\ SyncedOK(id)'
      BY <1>1, <1>4, <1>5, CellFacts DEF ReadyOK, SyncedOK, Empty, Files
    <3>2. id \notin promised
      BY <1>1 DEF IInv, RootsSound, RootOK, PromiseOK, Durable
    <3>3. QED
      BY <1>4, <3>1, <3>2 DEF RootOK, PromiseOK
  <2>2. ASSUME NEW x \in Ids \ {id} PROVE RootOK(x)'
    <3>1. RootOK(x) /\ (Durable(x) => Durable(x)')
      BY <1>4, <1>5 DEF IInv, RootsSound, Durable
    <3>2. QED
      BY <1>4, <1>5, <3>1 DEF RootOK, ReadyOK, PromiseOK, SyncedOK
  <2>3. QED
    BY <2>1, <2>2 DEF RootsSound
<1>12. GoneIsEmpty'
  BY <1>4 DEF IInv, GoneIsEmpty
<1>13. QED
  BY <1>7, <1>8, <1>9, <1>10, <1>11, <1>12 DEF IInv, ProcsSound

LEMMA InitializeLayoutIInv == ASSUME IInv, NEW p \in Procs, InitializeLayout(p) PROVE IInv'
<1> DEFINE r == at[p]
<1>1. /\ pc[p] = "layout" /\ r \in Ids
      /\ PhaseOK("layout", mode[p], status[p], dir[r], disk[r], db[r])
  BY Own DEF InitializeLayout
<1>2. /\ Materialized = Synced("whole") /\ Synced("whole") \in Cell
      /\ Synced("whole") # None /\ Lossy(Synced("whole")) = Synced("whole")
  BY CellFacts DEF Materialized
<1>3. "manifest" \in Labels \ {"idle", "draw"} /\ "manifest" \notin Later
      /\ "layout" \in Files \ {"run-manifest"}
  BY DEF Labels, Later, Opening, Publishing, Files
<1>4. ~Whole(dir[r]["checkpoint-manifest"])
  BY <1>1, <1>2 DEF PhaseOK, AllocOK, Alloc, Files, Whole
<1>5. ASSUME NEW d \in Dirs, d["layout"] = Synced("whole"),
             \A g \in Files \ {"layout"} : d[g] = dir[r][g]
      PROVE  PhaseOK("manifest", mode[p], status[p], d, disk[r], db[r])
  BY <1>1, <1>5 DEF PhaseOK, AllocOK, OpenOK, PublishOK, Alloc, Later, Opening, Publishing, Files, Whole
<1> HIDE DEF r
<1>6. /\ Put(r, "layout", Synced("whole")) /\ Go(p, "manifest")
      /\ UNCHANGED <<roots, rootsDisk, disk, db, procVars, promised, budget>>
  BY <1>2 DEF InitializeLayout, r
<1>7. QED
  BY <1>1, <1>2, <1>3, <1>4, <1>5, <1>6, PutStep DEF r

LEMMA PublishManifestIInv == ASSUME IInv, NEW p \in Procs, PublishManifest(p) PROVE IInv'
<1> DEFINE r == at[p]
<1>1. /\ pc[p] = "manifest" /\ r \in Ids /\ ("manifest" \in Later => r \in rootsDisk)
      /\ PhaseOK("manifest", mode[p], status[p], dir[r], disk[r], db[r])
  BY Own DEF PublishManifest
<1>2. Synced("whole") \in Cell \cup {None} /\ Lossy(Synced("whole")) = Synced("whole")
  BY CellFacts
<1>3. /\ "syncroot" \in Labels \ {"idle", "draw"} /\ "manifest" \in Files \ {"run-manifest"}
      /\ "syncroot" \notin Later
  BY DEF Labels, Later, Opening, Publishing, Files
<1>4. ~Whole(dir[r]["checkpoint-manifest"])
  BY <1>1, CellFacts DEF PhaseOK, AllocOK, OpenOK, Alloc, Files, Whole
<1>5. ASSUME NEW d \in Dirs, d["manifest"] = Synced("whole"),
             \A g \in Files \ {"manifest"} : d[g] = dir[r][g]
      PROVE  PhaseOK("syncroot", mode[p], status[p], d, disk[r], db[r])
  BY <1>1, <1>5 DEF PhaseOK, AllocOK, OpenOK, PublishOK, Alloc, Later, Opening, Publishing, Files, Whole,
                    Laid, Stored, Complete
<1> HIDE DEF r
<1>6. /\ Put(r, "manifest", Synced("whole")) /\ Go(p, "syncroot")
      /\ UNCHANGED <<roots, rootsDisk, disk, db, procVars, promised, budget>>
  BY DEF PublishManifest, r
<1>7. QED
  BY <1>1, <1>2, <1>3, <1>4, <1>5, <1>6, PutStep DEF r

LEMMA SyncRootIInv == ASSUME IInv, NEW p \in Procs, SyncRoot(p) PROVE IInv'
<1> DEFINE r == at[p]
<1>1. /\ pc[p] = "syncroot" /\ r \in Ids /\ ("syncroot" \in Later => r \in rootsDisk)
      /\ PhaseOK("syncroot", mode[p], status[p], dir[r], disk[r], db[r])
  BY Own DEF SyncRoot
<1>2. /\ "syncbase" \in Labels \ {"idle", "draw"}
      /\ "syncbase" \in Later => "syncroot" \in Later
  BY DEF Labels, Later, Opening, Publishing
<1>3. PhaseOK("syncbase", mode[p], status[p], dir[r], dir[r], Named(db[r]))
  BY <1>1, NamedFacts DEF PhaseOK, AllocOK, OpenOK, PublishOK, Alloc, Later, Opening, Publishing, Files, Whole,
              Laid, Stored, Complete
<1> HIDE DEF r
<1>4. /\ SyncDir(r) /\ Go(p, "syncbase")
      /\ UNCHANGED <<roots, rootsDisk, dir, procVars, promised, budget>>
  BY DEF SyncRoot, r
<1>5. QED
  BY <1>1, <1>2, <1>3, <1>4, SyncStep DEF r

\* The base is synced: the name of every root survives.
LEMMA SyncBaseIInv == ASSUME IInv, NEW p \in Procs, SyncBase(p) PROVE IInv'
<1> DEFINE r == at[p]
<1>1. /\ pc[p] = "syncbase" /\ r \in Ids /\ r \in roots
      /\ PhaseOK("syncbase", mode[p], status[p], dir[r], disk[r], db[r])
  BY Own DEF SyncBase
<1>2. "check" \in Labels
  BY DEF Labels
<1>3. /\ ProcTypes' /\ OthersStay(p) /\ pc'[p] = "check"
      /\ at'[p] = at[p] /\ mode'[p] = mode[p] /\ status'[p] = status[p]
  BY <1>2, GoesOn DEF SyncBase, IInv
<1>4. PhaseOK("check", mode[p], status[p], dir[r], disk[r], db[r])
  BY <1>1 DEF PhaseOK, AllocOK, OpenOK, PublishOK, Alloc, Later, Opening, Publishing, Files
<1>5. SyncedOK(r)
  BY <1>1 DEF IInv, RootsSound, RootOK
<1> HIDE DEF r
<1>6. /\ rootsDisk' = roots /\ UNCHANGED <<roots, dir, disk, db, promised, budget>>
  BY DEF SyncBase
<1>7. SyncedOK(r)' <=> SyncedOK(r)
  BY <1>6, <1>3 DEF SyncedOK, r
<1>8. QED
  BY <1>1, <1>3, <1>4, <1>5, <1>6, <1>7, WorkOnRoot DEF r, IInv, TypeOK, Dirs, OtherRoots

LEMMA InitializeFailsIInv == ASSUME IInv, NEW p \in Procs, InitializeFails(p) PROVE IInv'
<1> DEFINE r == at[p]
<1>1. /\ pc[p] \in {"layout", "manifest", "syncroot", "syncbase"} /\ r \in Ids /\ r \in roots
      /\ PhaseOK(pc[p], mode[p], status[p], dir[r], disk[r], db[r])
  BY Own DEF InitializeFails
<1>2. "rollback" \in Labels /\ "rollback" \notin Later
  BY DEF Labels, Later, Opening, Publishing
<1>3. /\ ProcTypes' /\ OthersStay(p) /\ pc'[p] = "rollback"
      /\ at'[p] = at[p] /\ mode'[p] = mode[p] /\ status'[p] = status[p]
  BY <1>2, GoesOn DEF InitializeFails, IInv
<1>4. PhaseOK("rollback", mode[p], status[p], dir[r], disk[r], db[r])
  BY <1>1 DEF PhaseOK, AllocOK, OpenOK, PublishOK, Alloc, Later, Opening, Publishing, Files
<1>5. UNCHANGED <<roots, rootsDisk, dir, disk, db, promised, budget>>
  BY DEF InitializeFails, fsVars
<1>6. Sound(p)'
  BY <1>1, <1>2, <1>3, <1>4, <1>5, NoneAssumption DEF Sound
<1>7. QED
  BY <1>3, <1>5, <1>6, FilesStay DEF IInv, TypeOK

\* remove_owned_root: nobody can have found the root that goes.
LEMMA RollbackIInv == ASSUME IInv, NEW p \in Procs, Rollback(p) PROVE IInv'
<1>1. /\ pc[p] = "rollback" /\ at[p] \in Ids /\ at[p] # None /\ RootOK(at[p])
      /\ PhaseOK("rollback", mode[p], status[p], dir[at[p]], disk[at[p]], db[at[p]])
  BY Own DEF Rollback
<1>2. /\ UNCHANGED <<rootsDisk, disk, db, promised, budget>> /\ Leave(p)
  BY DEF Rollback
<1>3. CASE UNCHANGED <<roots, dir>>
  BY <1>2, <1>3, LeaveIInv DEF IInv, TypeOK, fsVars
<1>4. CASE roots' = roots \ {at[p]} /\ dir' = [dir EXCEPT ![at[p]] = Empty]
  <2>1. PICK r \in Ids : r = at[p]
    BY <1>1
  <2>2. ProcTypes' /\ OthersStay(p) /\ pc'[p] = "idle" /\ at'[p] = None
    BY <1>2, LeaveFacts DEF IInv
  <2>3. /\ dir' \in [Ids -> Dirs] /\ dir'[r] = Empty
        /\ \A x \in Ids \ {r} : dir'[x] = dir[x]
    BY <1>4, <2>1, CellFacts DEF IInv, TypeOK, Dirs
  <2>4. TypeOK'
    BY <1>2, <1>4, <2>2, <2>3 DEF IInv, TypeOK, ProcTypes, Dirs
  <2>5. /\ disk[r]["run-manifest"] = None /\ db[r] = None
    BY <1>1, <2>1 DEF PhaseOK, AllocOK, Alloc, Files
  <2>6. \A q \in Procs \ {p} : at[q] # None => at[q] \in Ids \ {r}
    BY <1>1, <2>1 DEF IInv, TypeOK, OnePerRoot
  <2>7. Sound(p)'
    BY <2>2 DEF Sound
  <2>8. ASSUME NEW q \in Procs \ {p} PROVE Sound(q)'
    <3>1. /\ pc'[q] = pc[q] /\ at'[q] = at[q] /\ mode'[q] = mode[q] /\ status'[q] = status[q]
      BY <2>2 DEF OthersStay
    <3>2. Sound(q)
      BY DEF IInv, ProcsSound
    <3>3. QED
      BY <1>2, <1>4, <2>1, <2>3, <2>6, <3>1, <3>2 DEF Sound
  <2>9. OnePerRoot'
    BY <2>2 DEF IInv, OnePerRoot, OthersStay
  <2>10. RootOK(r)'
    <3>1. r \notin promised
      BY <1>1, <2>1, <2>5 DEF RootOK, PromiseOK, Published
    <3>2. ReadyOK(r)'
      BY <1>2, <2>3, <2>5, CellFacts DEF ReadyOK, Empty, Files
    <3>3. SyncedOK(r)'
      BY <1>1, <1>2, <2>1, <2>3, CellFacts DEF RootOK, SyncedOK, Empty
    <3>4. QED
      BY <1>2, <3>1, <3>2, <3>3 DEF RootOK, PromiseOK
  <2>11. ASSUME NEW x \in Ids \ {r} PROVE RootOK(x)'
    <3>1. RootOK(x) /\ (Durable(x) => Durable(x)')
      BY <1>2, <1>4, <2>1, <2>3 DEF IInv, RootsSound, Durable
    <3>2. QED
      BY <1>2, <2>3, <3>1 DEF RootOK, ReadyOK, PromiseOK, SyncedOK
  <2>12. GoneIsEmpty'
    BY <1>2, <1>4, <2>1, <2>3, <2>5 DEF IInv, GoneIsEmpty
  <2>13. QED
    BY <2>4, <2>7, <2>8, <2>9, <2>10, <2>11, <2>12 DEF IInv, ProcsSound, RootsSound
<1>5. QED
  BY <1>3, <1>4 DEF Rollback

-----------------------------------------------------------------------------
(* The checkpoint store.                                                    *)

\* A process moves on to label l, about to publish s; no file changes.
LEMMA MoveStep ==
    ASSUME IInv, NEW p \in Procs, pc[p] \in Later, NEW l \in Later,
           NEW s \in Statuses \cup {None}, Go(p, l),
           status' = [status EXCEPT ![p] = s] \/ (s = status[p] /\ UNCHANGED status),
           UNCHANGED <<at, mode, tries, created, fsVars, db, promised, budget>>,
           PhaseOK(l, mode[p], s, dir[at[p]], disk[at[p]], db[at[p]])
    PROVE  IInv'
<1>1. pc[p] \notin {"idle", "draw"} /\ l \notin {"idle", "draw"} /\ l \in Labels
  BY DEF Later, Opening, Publishing, Labels
<1>2. at[p] # None /\ at[p] \in roots /\ at[p] \in rootsDisk
  BY <1>1, Own
<1>3. /\ pc' \in [Procs -> Labels] /\ pc'[p] = l
      /\ \A q \in Procs \ {p} : pc'[q] = pc[q]
  BY <1>1, GoFacts DEF IInv
<1>4. ProcTypes' /\ OthersStay(p) /\ status'[p] = s
  BY <1>3 DEF IInv, TypeOK, ProcTypes, OthersStay
<1>5. Sound(p)'
  BY <1>1, <1>2, <1>3, <1>4 DEF Sound, fsVars
<1>6. QED
  BY <1>4, <1>5, FilesStay DEF IInv, TypeOK, fsVars

\* A start whose store fails publishes a failed run, a resume ends.
LEMMA StoreFailsIInv ==
    ASSUME IInv, NEW p \in Procs, pc[p] \in Later, StoreFails(p),
           UNCHANGED <<fsVars, db, promised, budget>>
    PROVE  IInv'
<1>1. CASE Leave(p)
  BY <1>1, LeaveIInv DEF IInv, TypeOK
<1>2. CASE /\ mode[p] = "start" /\ Go(p, "publish") /\ status' = [status EXCEPT ![p] = "failed"]
           /\ UNCHANGED <<at, mode, tries, created>>
  <2>1. pc[p] \notin {"idle", "draw"} /\ "publish" \in Later
    BY DEF Later, Opening, Publishing
  <2>2. PhaseOK(pc[p], mode[p], status[p], dir[at[p]], disk[at[p]], db[at[p]])
    BY <2>1, Own
  <2>3. PhaseOK("publish", mode[p], "failed", dir[at[p]], disk[at[p]], db[at[p]])
    BY <1>2, <2>2 DEF PhaseOK, AllocOK, OpenOK, PublishOK, Alloc, Later, Opening, Publishing, Statuses
  <2>4. QED
    BY <1>2, <2>1, <2>3, MoveStep DEF Statuses
<1>3. QED
  BY <1>1, <1>2 DEF StoreFails

LEMMA CheckManifestIInv == ASSUME IInv, NEW p \in Procs, CheckManifest(p) PROVE IInv'
<1>1. /\ pc[p] = "check" /\ "check" \in Later /\ at[p] \in Ids
      /\ PhaseOK("check", mode[p], status[p], dir[at[p]], disk[at[p]], db[at[p]])
  BY Own DEF CheckManifest, Later, Opening
<1>2. UNCHANGED <<fsVars, db, promised, budget>> /\ status[p] \in Statuses \cup {None}
  BY DEF CheckManifest, IInv, TypeOK
<1>3. CASE StoreFails(p)
  BY <1>1, <1>2, <1>3, StoreFailsIInv
<1>4. CASE Entry(at[p], "checkpoint-manifest") = None /\ Go(p, "tmp") /\ UNCHANGED procVars
  <2>1. mode[p] = "start"
    BY <1>1, <1>4, CellFacts DEF PhaseOK, Complete, Stored, Whole, Entry
  <2>2. PhaseOK("tmp", mode[p], status[p], dir[at[p]], disk[at[p]], db[at[p]])
    BY <1>1, <1>4, <2>1 DEF PhaseOK, AllocOK, OpenOK, PublishOK, Alloc, Later, Opening, Publishing, Entry
  <2>3. QED
    BY <1>1, <1>2, <1>4, <2>2, MoveStep DEF Later, Opening, procVars
<1>5. CASE Entry(at[p], "checkpoint-manifest") # None /\ Go(p, "db") /\ UNCHANGED procVars
  <2>1. mode[p] = "resume"
    BY <1>1, <1>5 DEF PhaseOK, OpenOK, Entry
  <2>2. PhaseOK("db", mode[p], status[p], dir[at[p]], disk[at[p]], db[at[p]])
    BY <1>1, <2>1 DEF PhaseOK, AllocOK, OpenOK, PublishOK, Alloc, Later, Opening, Publishing, Complete
  <2>3. QED
    BY <1>1, <1>2, <1>5, <2>2, MoveStep DEF Later, Opening, procVars
<1>6. QED
  BY <1>3, <1>4, <1>5 DEF CheckManifest

LEMMA CreateTmpIInv == ASSUME IInv, NEW p \in Procs, CreateTmp(p) PROVE IInv'
<1> DEFINE r == at[p]
<1>1. /\ pc[p] = "tmp" /\ r \in Ids /\ ("tmp" \in Later => r \in rootsDisk)
      /\ PhaseOK("tmp", mode[p], status[p], dir[r], disk[r], db[r])
  BY Own DEF CreateTmp
<1>2. Torn \in Cell \cup {None} /\ Lossy(Torn) = Torn
  BY CellFacts
<1>3. /\ "write" \in Labels \ {"idle", "draw"} /\ "checkpoint-tmp" \in Files \ {"run-manifest"}
      /\ "write" \in Later => "tmp" \in Later
  BY DEF Labels, Later, Opening, Publishing, Files
<1>4. "checkpoint-tmp" \notin {"layout", "manifest", "checkpoint-manifest"}
  OBVIOUS
<1>5. ASSUME NEW d \in Dirs, d["checkpoint-tmp"] = Torn,
             \A g \in Files \ {"checkpoint-tmp"} : d[g] = dir[r][g]
      PROVE  PhaseOK("write", mode[p], status[p], d, disk[r], db[r])
  BY <1>1, <1>5 DEF PhaseOK, AllocOK, OpenOK, PublishOK, Alloc, Later, Opening, Publishing, Files, Whole,
                    Laid, Stored, Complete
<1> HIDE DEF r
<1>6. /\ Put(r, "checkpoint-tmp", Torn) /\ Go(p, "write")
      /\ UNCHANGED <<roots, rootsDisk, disk, db, procVars, promised, budget>>
  BY DEF CreateTmp, r
<1>7. QED
  BY <1>1, <1>2, <1>3, <1>4, <1>5, <1>6, PutStep DEF r

LEMMA SyncManifestIInv == ASSUME IInv, NEW p \in Procs, SyncManifest(p) PROVE IInv'
<1> DEFINE r == at[p]
<1>1. /\ pc[p] = "mansync" /\ r \in Ids /\ ("mansync" \in Later => r \in rootsDisk)
      /\ PhaseOK("mansync", mode[p], status[p], dir[r], disk[r], db[r])
  BY Own DEF SyncManifest
<1>2. /\ "db" \in Labels \ {"idle", "draw"}
      /\ "db" \in Later => "mansync" \in Later
  BY DEF Labels, Later, Opening, Publishing
<1>3. PhaseOK("db", mode[p], status[p], dir[r], dir[r], Named(db[r]))
  BY <1>1, NamedFacts DEF PhaseOK, AllocOK, OpenOK, PublishOK, Alloc, Later, Opening, Publishing, Files, Whole,
              Laid, Stored, Complete
<1> HIDE DEF r
<1>4. /\ SyncDir(r) /\ Go(p, "db")
      /\ UNCHANGED <<roots, rootsDisk, dir, procVars, promised, budget>>
  BY DEF SyncManifest, r
<1>5. QED
  BY <1>1, <1>2, <1>3, <1>4, SyncStep DEF r

LEMMA SyncDatabaseIInv == ASSUME IInv, NEW p \in Procs, SyncDatabase(p) PROVE IInv'
<1> DEFINE r == at[p]
<1>1. /\ pc[p] = "dbsync" /\ r \in Ids /\ ("dbsync" \in Later => r \in rootsDisk)
      /\ PhaseOK("dbsync", mode[p], status[p], dir[r], disk[r], db[r])
  BY Own DEF SyncDatabase
<1>2. /\ Opened(p) \in Labels \ {"idle", "draw"}
      /\ Opened(p) \in Later => "dbsync" \in Later
  BY DEF Labels, Later, Opening, Publishing, Opened
<1>3. PhaseOK(Opened(p), mode[p], status[p], dir[r], dir[r], Named(db[r]))
  <2>1. db[r] \in Store \cup {None} /\ db[r] # None
    BY <1>1 DEF IInv, TypeOK, PhaseOK, OpenOK
  <2>2. /\ Named(db[r]) # None /\ Named(db[r]).meta = db[r].meta /\ Named(db[r]).named
        /\ Usable(db[r]) => Usable(Named(db[r]))
    BY <2>1, NamedFacts
  <2>3. CASE mode[p] = "start" /\ Opened(p) = "save"
    BY <1>1, <2>2, <2>3 DEF PhaseOK, AllocOK, OpenOK, PublishOK, Alloc, Later, Opening, Publishing,
                            Laid, Stored, Complete
  <2>4. CASE mode[p] = "resume" /\ Opened(p) = "load"
    BY <1>1, <2>2, <2>4 DEF PhaseOK, AllocOK, OpenOK, PublishOK, Alloc, Later, Opening, Publishing,
                            Laid, Stored, Complete
  <2>5. QED
    BY <1>1, <2>3, <2>4 DEF PhaseOK, Opened
<1> HIDE DEF r
<1>4. /\ SyncDir(r) /\ Go(p, Opened(p))
      /\ UNCHANGED <<roots, rootsDisk, dir, procVars, promised, budget>>
  BY DEF SyncDatabase, r
<1>5. QED
  BY <1>1, <1>2, <1>3, <1>4, SyncStep DEF r

\* write_all, sync_all and rename: the manifest comes whole, its temporary goes.
LEMMA WriteManifestIInv == ASSUME IInv, NEW p \in Procs, WriteManifest(p) PROVE IInv'
<1>1. PICK r \in Ids : r = at[p]
  BY Own DEF WriteManifest
<1>2. /\ pc[p] = "write" /\ r \in rootsDisk /\ RootOK(r) /\ dir[r] \in Dirs
      /\ PhaseOK("write", mode[p], status[p], dir[r], disk[r], db[r])
  BY <1>1, Own DEF WriteManifest, Later, Opening
<1>3. "mansync" \in Labels \ {"idle", "draw"}
  BY DEF Labels
<1>4. /\ ProcTypes' /\ OthersStay(p) /\ pc'[p] = "mansync"
      /\ at'[p] = at[p] /\ mode'[p] = mode[p] /\ status'[p] = status[p]
  BY <1>3, GoesOn DEF WriteManifest, IInv
<1>5. /\ dir' = [dir EXCEPT ![r]["checkpoint-manifest"] = Synced("whole"), ![r]["checkpoint-tmp"] = None]
      /\ UNCHANGED <<roots, rootsDisk, disk, db, promised, budget>>
  BY <1>1 DEF WriteManifest
<1>6. /\ dir' \in [Ids -> Dirs] /\ dir'[r]["checkpoint-manifest"] = Synced("whole")
      /\ dir'[r]["checkpoint-tmp"] = None
      /\ \A g \in Files \ {"checkpoint-manifest", "checkpoint-tmp"} : dir'[r][g] = dir[r][g]
      /\ \A x \in Ids \ {r} : dir'[x] = dir[x]
  BY <1>5, CellFacts DEF IInv, TypeOK, Dirs, Files
<1>7. SyncedOK(r)'
  <2>1. \A g \in Files : Lossy(dir[r][g]) = dir[r][g] /\ Lossy(disk[r][g]) = disk[r][g]
    BY <1>2 DEF RootOK, SyncedOK
  <2>2. \A g \in Files : Lossy(dir'[r][g]) = dir'[r][g]
    BY <1>6, <2>1, CellFacts
  <2>3. QED
    BY <1>5, <2>1, <2>2 DEF SyncedOK
<1>8. ~Complete(dir[r], disk[r], db[r])
  BY <1>2, CellFacts DEF PhaseOK, OpenOK, Complete, Stored, Whole
<1>9. PhaseOK("mansync", mode[p], status[p], dir'[r], disk[r], db[r])
  BY <1>2, <1>6, <1>8 DEF PhaseOK, AllocOK, OpenOK, PublishOK, Alloc, Later, Opening, Publishing, Files, Whole,
                          Laid, Stored, Complete
<1>10. /\ disk' \in [Ids -> Dirs] /\ db' \in [Ids -> Store \cup {None}] /\ OtherRoots(r)
       /\ dir'[r]["run-manifest"] = dir[r]["run-manifest"]
  BY <1>5, <1>6 DEF IInv, TypeOK, Dirs, OtherRoots, Files
<1>11. QED
  BY <1>1, <1>2, <1>3, <1>4, <1>5, <1>6, <1>7, <1>8, <1>9, <1>10, WorkOnRoot

LEMMA OpenDatabaseIInv == ASSUME IInv, NEW p \in Procs, OpenDatabase(p) PROVE IInv'
<1>1. PICK r \in Ids : r = at[p]
  BY Own DEF OpenDatabase
<1>2. /\ pc[p] = "db" /\ r \in rootsDisk /\ db[r] \in Store \cup {None}
      /\ PhaseOK("db", mode[p], status[p], dir[r], disk[r], db[r])
  BY <1>1, Own DEF OpenDatabase, Later, Opening
<1>3. "meta" \in Labels \ {"idle", "draw"}
  BY DEF Labels
<1>4. /\ pc' \in [Procs -> Labels] /\ pc'[p] = "meta"
      /\ \A q \in Procs \ {p} : pc'[q] = pc[q]
  BY <1>3, GoFacts DEF OpenDatabase, IInv
<1>5. ProcTypes' /\ OthersStay(p) /\ UNCHANGED <<at, mode, status>>
  <2>1. PICK fresh \in BOOLEAN : created' = [created EXCEPT ![p] = fresh]
    BY DEF OpenDatabase
  <2>2. created' \in [Procs -> BOOLEAN]
    BY <2>1 DEF IInv, TypeOK
  <2>3. QED
    BY <1>4, <2>2 DEF OpenDatabase, IInv, TypeOK, ProcTypes, OthersStay
<1> DEFINE b == IF db[r] = None THEN [meta |-> FALSE, row |-> 0, named |-> FALSE] ELSE db[r]
<1>6. /\ db' = [db EXCEPT ![r] = b]
      /\ UNCHANGED <<roots, rootsDisk, dir, disk, promised, budget>>
  BY <1>1 DEF OpenDatabase, fsVars
<1>7. b \in Store /\ b # None /\ (Usable(db[r]) => b = db[r])
  <2>1. [meta |-> FALSE, row |-> 0, named |-> FALSE] \in Store
    BY DEF Store
  <2>2. QED
    BY <1>2, <2>1, NoneAssumption DEF Usable
<1> HIDE DEF b
<1>8. PhaseOK("meta", mode[p], status[p], dir[r], disk[r], b)
  BY <1>2, <1>7 DEF PhaseOK, AllocOK, OpenOK, PublishOK, Alloc, Later, Opening, Publishing, Complete
<1>9. QED
  BY <1>1, <1>2, <1>3, <1>4, <1>5, <1>6, <1>7, <1>8, DbStep

LEMMA BindMetaIInv == ASSUME IInv, Fresh, NEW p \in Procs, BindMeta(p) PROVE IInv'
<1>1. PICK r \in Ids : r = at[p]
  BY Own DEF BindMeta
<1>2. /\ pc[p] = "meta" /\ r \in rootsDisk /\ db[r] \in Store \cup {None}
      /\ PhaseOK("meta", mode[p], status[p], dir[r], disk[r], db[r])
  BY <1>1, Own DEF BindMeta, Later, Opening
<1>3. db[r] \in Store /\ mode[p] \in {"start", "resume"}
  BY <1>2 DEF PhaseOK, OpenOK
<1> DEFINE l == IF created[p] THEN "dbsync" ELSE Opened(p)
           b == [db[r] EXCEPT !.meta = TRUE]
<1>4. l \in Labels \ {"idle", "draw"}
  BY DEF Labels, Opened
<1>5. b \in Store /\ b # None /\ b.meta /\ b.row = db[r].row /\ b.named = db[r].named
  BY <1>3, NoneAssumption DEF Store
<1>6. Usable(db[r]) => Usable(b)
  BY <1>5 DEF Usable
<1>7. /\ db' = [db EXCEPT ![r] = b] /\ Go(p, l)
      /\ UNCHANGED <<roots, rootsDisk, dir, disk, promised, budget, procVars>>
  BY <1>1 DEF BindMeta, fsVars
<1> HIDE DEF b
<1>8. PhaseOK(l, mode[p], status[p], dir[r], disk[r], b)
  <2>1. CASE l = "dbsync"
    BY <1>2, <1>5, <1>6, <2>1 DEF PhaseOK, AllocOK, OpenOK, PublishOK, Alloc, Later, Opening, Publishing, Complete
  <2>2. ~(l = "save" /\ mode[p] = "start")
    BY <1>2 DEF Fresh
  <2>3. CASE l = "load" /\ mode[p] = "resume"
    BY <1>2, <1>5, <1>6, <2>3 DEF PhaseOK, AllocOK, OpenOK, PublishOK, Alloc, Later, Opening, Publishing, Complete
  <2>4. QED
    BY <1>3, <2>1, <2>2, <2>3 DEF Opened
<1> HIDE DEF l
<1>9. /\ ProcTypes' /\ OthersStay(p) /\ pc'[p] = l
      /\ at'[p] = at[p] /\ mode'[p] = mode[p] /\ status'[p] = status[p]
  BY <1>4, <1>7, GoesOn DEF IInv
<1>10. QED
  BY <1>1, <1>2, <1>4, <1>5, <1>6, <1>7, <1>8, <1>9, DbStep

\* A failed open, whose write_manifest removes its temporary.
LEMMA OpenFailsIInv == ASSUME IInv, NEW p \in Procs, OpenFails(p) PROVE IInv'
<1>1. PICK r \in Ids : r = at[p]
  BY Own DEF OpenFails, Opening
<1>2. /\ pc[p] \in Opening /\ pc[p] \in Later /\ r \in rootsDisk /\ RootOK(r) /\ dir[r] \in Dirs
      /\ PhaseOK(pc[p], mode[p], status[p], dir[r], disk[r], db[r]) /\ r # None /\ r \in roots
  BY <1>1, Own DEF OpenFails, Later, Opening
<1>3. UNCHANGED <<roots, rootsDisk, disk, db, promised, budget>> /\ StoreFails(p)
  BY DEF OpenFails
<1>4. CASE UNCHANGED dir
  BY <1>2, <1>3, <1>4, StoreFailsIInv DEF fsVars
<1>5. CASE pc[p] = "write" /\ Put(r, "checkpoint-tmp", None)
  <2>1. /\ dir' \in [Ids -> Dirs] /\ \A x \in Ids \ {r} : dir'[x] = dir[x]
        /\ dir'[r]["checkpoint-tmp"] = None
        /\ \A g \in Files \ {"checkpoint-tmp"} : dir'[r][g] = dir[r][g]
    BY <1>5, PutFacts DEF IInv, Files
  <2>2. mode[p] = "start"
    BY <1>2, <1>5 DEF PhaseOK, OpenOK
  <2>3. /\ Go(p, "publish") /\ status' = [status EXCEPT ![p] = "failed"]
        /\ UNCHANGED <<at, mode, tries, created>>
    BY <1>3, <2>2 DEF StoreFails
  <2>4. "publish" \in Labels \ {"idle", "draw"}
    BY DEF Labels
  <2>5. /\ pc' \in [Procs -> Labels] /\ pc'[p] = "publish"
        /\ \A q \in Procs \ {p} : pc'[q] = pc[q]
    BY <2>3, <2>4, GoFacts DEF IInv
  <2>6. ProcTypes' /\ OthersStay(p) /\ status'[p] = "failed"
    BY <2>3, <2>5 DEF IInv, TypeOK, ProcTypes, OthersStay, Statuses
  <2>7. SyncedOK(r)'
    BY <1>2, <1>3, <2>1, CellFacts DEF RootOK, SyncedOK
  <2>8. PhaseOK("publish", mode[p], "failed", dir'[r], disk[r], db[r])
    BY <1>2, <1>5, <2>1, <2>2 DEF PhaseOK, AllocOK, OpenOK, PublishOK, Alloc, Later, Opening, Publishing, Files, Laid, Statuses
  <2>9. /\ disk' \in [Ids -> Dirs] /\ db' \in [Ids -> Store \cup {None}] /\ OtherRoots(r)
        /\ dir'[r]["run-manifest"] = dir[r]["run-manifest"]
        /\ Complete(dir[r], disk[r], db[r]) => Complete(dir'[r], disk'[r], db'[r])
    BY <1>3, <2>1 DEF IInv, TypeOK, Dirs, OtherRoots, Files, Complete, Stored, Laid
  <2>10. QED
    BY <1>1, <1>2, <1>3, <2>1, <2>3, <2>4, <2>5, <2>6, <2>7, <2>8, <2>9, WorkOnRoot
<1>6. QED
  BY <1>1, <1>4, <1>5 DEF OpenFails

\* The upsert of the run's row leaves a store that has a checkpoint.
LEMMA UpsertFacts ==
    ASSUME NEW r \in Ids, db[r] \in Store
    PROVE  \E b \in Store : /\ [db EXCEPT ![r].row = @ + 1] = [db EXCEPT ![r] = b]
                            /\ b # None /\ b.row > 0 /\ b.meta = db[r].meta /\ b.named = db[r].named
<1> DEFINE b == [db[r] EXCEPT !.row = db[r].row + 1]
<1>1. b \in Store /\ b # None /\ b.row > 0 /\ b.meta = db[r].meta /\ b.named = db[r].named
  BY NoneAssumption DEF Store
<1>2. QED
  BY <1>1

\* A start's first checkpoint makes its run complete, before it is published.
LEMMA SaveInitialIInv == ASSUME IInv, NEW p \in Procs, SaveInitial(p) PROVE IInv'
<1>1. PICK r \in Ids : r = at[p]
  BY Own DEF SaveInitial
<1>2. /\ pc[p] = "save" /\ pc[p] \in Later /\ r \in rootsDisk /\ db[r] \in Store \cup {None}
      /\ PhaseOK("save", mode[p], status[p], dir[r], disk[r], db[r])
  BY <1>1, Own DEF SaveInitial, Later
<1>3. UNCHANGED <<fsVars, promised, budget>>
  BY DEF SaveInitial
<1>4. CASE StoreFails(p) /\ UNCHANGED db
  BY <1>2, <1>3, <1>4, StoreFailsIInv
<1>5. CASE /\ Upsert(p) /\ Go(p, "publish") /\ status' = [status EXCEPT ![p] = "running"]
           /\ UNCHANGED <<at, mode, tries, created>>
  <2>1. db[r] \in Store /\ db[r].meta /\ db[r].named /\ Stored(dir[r], disk[r])
    BY <1>2 DEF PhaseOK, OpenOK
  <2>2. PICK b \in Store : /\ db' = [db EXCEPT ![r] = b]
                           /\ b # None /\ b.row > 0 /\ b.meta = db[r].meta /\ b.named = db[r].named
    BY <1>1, <1>5, <2>1, UpsertFacts DEF Upsert
  <2>3. Usable(b) /\ Complete(dir[r], disk[r], b)
    BY <2>1, <2>2 DEF Usable, Complete
  <2>4. PhaseOK("publish", mode[p], "running", dir[r], disk[r], b)
    BY <1>2, <2>3 DEF PhaseOK, AllocOK, OpenOK, PublishOK, Alloc, Later, Opening, Publishing, Statuses
  <2>5. "publish" \in Labels \ {"idle", "draw"}
    BY DEF Labels
  <2>6. /\ pc' \in [Procs -> Labels] /\ pc'[p] = "publish"
        /\ \A q \in Procs \ {p} : pc'[q] = pc[q]
    BY <1>5, <2>5, GoFacts DEF IInv
  <2>7. ProcTypes' /\ OthersStay(p) /\ status'[p] = "running"
    BY <1>5, <2>6 DEF IInv, TypeOK, ProcTypes, OthersStay, Statuses
  <2>8. QED
    BY <1>1, <1>2, <1>3, <1>5, <2>2, <2>3, <2>4, <2>5, <2>6, <2>7, DbStep DEF fsVars
<1>6. QED
  BY <1>4, <1>5 DEF SaveInitial

LEMMA LoadLatestIInv == ASSUME IInv, NEW p \in Procs, LoadLatest(p) PROVE IInv'
<1>1. /\ pc[p] = "load" /\ pc[p] \in Later
      /\ PhaseOK("load", mode[p], status[p], dir[at[p]], disk[at[p]], db[at[p]])
  BY Own DEF LoadLatest, Later
<1>2. UNCHANGED <<fsVars, db, promised, budget>> /\ status[p] \in Statuses \cup {None}
  BY DEF LoadLatest, IInv, TypeOK
<1>3. CASE Leave(p)
  BY <1>2, <1>3, LeaveIInv DEF IInv, TypeOK
<1>4. CASE Go(p, "work") /\ UNCHANGED procVars
  <2>1. PhaseOK("work", mode[p], status[p], dir[at[p]], disk[at[p]], db[at[p]])
    BY <1>1 DEF PhaseOK, AllocOK, OpenOK, PublishOK, Alloc, Later, Opening, Publishing, Complete, Stored
  <2>2. QED
    BY <1>1, <1>2, <1>4, <2>1, MoveStep DEF Later, procVars
<1>5. QED
  BY <1>3, <1>4 DEF LoadLatest

LEMMA SaveIInv == ASSUME IInv, NEW p \in Procs, Save(p) PROVE IInv'
<1>1. PICK r \in Ids : r = at[p]
  BY Own DEF Save
<1>2. /\ pc[p] = "work" /\ pc[p] \in Later /\ r \in rootsDisk /\ db[r] \in Store \cup {None}
      /\ PhaseOK("work", mode[p], status[p], dir[r], disk[r], db[r])
  BY <1>1, Own DEF Save, Later
<1>3. Complete(dir[r], disk[r], db[r]) /\ db[r] \in Store /\ db[r].meta /\ db[r].named
  BY <1>2 DEF PhaseOK, PublishOK, Complete, Usable
<1>4. PICK b \in Store : /\ db' = [db EXCEPT ![r] = b]
                         /\ b # None /\ b.row > 0 /\ b.meta = db[r].meta /\ b.named = db[r].named
  BY <1>1, <1>3, UpsertFacts DEF Save, Upsert
<1>5. Usable(b) /\ Complete(dir[r], disk[r], b)
  BY <1>3, <1>4 DEF Usable, Complete
<1>6. PhaseOK("work", mode[p], status[p], dir[r], disk[r], b)
  BY <1>2, <1>5 DEF PhaseOK, AllocOK, OpenOK, PublishOK, Alloc, Later, Opening, Publishing
<1>7. UNCHANGED <<fsVars, pc, procVars, promised, budget>>
  BY DEF Save
<1>8. ProcTypes' /\ OthersStay(p)
  BY <1>7 DEF IInv, TypeOK, ProcTypes, OthersStay, procVars
<1>9. QED
  BY <1>1, <1>2, <1>4, <1>5, <1>6, <1>7, <1>8, DbStep DEF fsVars, procVars

LEMMA FinishIInv == ASSUME IInv, NEW p \in Procs, Finish(p) PROVE IInv'
<1>1. /\ pc[p] = "work" /\ pc[p] \in Later
      /\ PhaseOK("work", mode[p], status[p], dir[at[p]], disk[at[p]], db[at[p]])
  BY Own DEF Finish, Later
<1>2. PICK s \in {"succeeded", "failed"} : status' = [status EXCEPT ![p] = s]
  BY DEF Finish
<1>3. /\ Go(p, "publish")
      /\ UNCHANGED <<fsVars, db, at, mode, tries, created, promised, budget>>
  BY DEF Finish
<1>4. PhaseOK("publish", mode[p], s, dir[at[p]], disk[at[p]], db[at[p]])
  BY <1>1 DEF PhaseOK, AllocOK, OpenOK, PublishOK, Alloc, Later, Opening, Publishing, Statuses
<1>5. QED
  BY <1>1, <1>2, <1>3, <1>4, MoveStep DEF Later, Publishing, Statuses

-----------------------------------------------------------------------------
(* Publication of the run.                                                  *)

LEMMA TruncateTmpIInv == ASSUME IInv, NEW p \in Procs, TruncateTmp(p) PROVE IInv'
<1> DEFINE r == at[p]
<1>1. /\ pc[p] = "publish" /\ r \in Ids /\ ("publish" \in Later => r \in rootsDisk)
      /\ PhaseOK("publish", mode[p], status[p], dir[r], disk[r], db[r])
  BY Own DEF TruncateTmp
<1>2. Torn \in Cell \cup {None} /\ Lossy(Torn) = Torn
  BY CellFacts
<1>3. /\ "fill" \in Labels \ {"idle", "draw"} /\ "run-tmp" \in Files \ {"run-manifest"}
      /\ "fill" \in Later => "publish" \in Later
  BY DEF Labels, Later, Opening, Publishing, Files
<1>4. "run-tmp" \notin {"layout", "manifest", "checkpoint-manifest"}
  OBVIOUS
<1>5. ASSUME NEW d \in Dirs, d["run-tmp"] = Torn,
             \A g \in Files \ {"run-tmp"} : d[g] = dir[r][g]
      PROVE  PhaseOK("fill", mode[p], status[p], d, disk[r], db[r])
  BY <1>1, <1>5 DEF PhaseOK, AllocOK, OpenOK, PublishOK, Alloc, Later, Opening, Publishing, Files, Whole,
                    Laid, Stored, Complete
<1> HIDE DEF r
<1>6. /\ Put(r, "run-tmp", Torn) /\ Go(p, "fill")
      /\ UNCHANGED <<roots, rootsDisk, disk, db, procVars, promised, budget>>
  BY DEF TruncateTmp, r
<1>7. QED
  BY <1>1, <1>2, <1>3, <1>4, <1>5, <1>6, PutStep DEF r

LEMMA FillTmpIInv == ASSUME IInv, NEW p \in Procs, FillTmp(p) PROVE IInv'
<1> DEFINE r == at[p]
<1>1. /\ pc[p] = "fill" /\ r \in Ids /\ ("fill" \in Later => r \in rootsDisk)
      /\ PhaseOK("fill", mode[p], status[p], dir[r], disk[r], db[r])
  BY Own DEF FillTmp
<1>2. Synced(status[p]) \in Cell \cup {None} /\ Lossy(Synced(status[p])) = Synced(status[p])
  BY <1>1, CellFacts DEF PhaseOK, PublishOK, Publishing
<1>3. /\ "rename" \in Labels \ {"idle", "draw"} /\ "run-tmp" \in Files \ {"run-manifest"}
      /\ "rename" \in Later => "fill" \in Later
  BY DEF Labels, Later, Opening, Publishing, Files
<1>4. "run-tmp" \notin {"layout", "manifest", "checkpoint-manifest"}
  OBVIOUS
<1>5. ASSUME NEW d \in Dirs, d["run-tmp"] = Synced(status[p]),
             \A g \in Files \ {"run-tmp"} : d[g] = dir[r][g]
      PROVE  PhaseOK("rename", mode[p], status[p], d, disk[r], db[r])
  BY <1>1, <1>5 DEF PhaseOK, AllocOK, OpenOK, PublishOK, Alloc, Later, Opening, Publishing, Files, Whole,
                    Laid, Stored, Complete
<1> HIDE DEF r
<1>6. /\ Put(r, "run-tmp", Synced(status[p])) /\ Go(p, "rename")
      /\ UNCHANGED <<roots, rootsDisk, disk, db, procVars, promised, budget>>
  BY DEF FillTmp, r
<1>7. QED
  BY <1>1, <1>2, <1>3, <1>4, <1>5, <1>6, PutStep DEF r

\* What a rename or the sync after it may make of the run manifest of a root.
LEMMA PublishStep ==
    ASSUME IInv, NEW p \in Procs, NEW r \in Ids, at[p] = r, pc[p] \in Publishing,
           NEW s \in Statuses, status[p] = s,
           ProcTypes', OthersStay(p), OtherRoots(r), at'[p] \in {r, None}, Sound(p)',
           dir' \in [Ids -> Dirs], disk' \in [Ids -> Dirs],
           UNCHANGED <<roots, rootsDisk, budget>>,
           db' \in [Ids -> Store \cup {None}], Usable(db[r]) => Usable(db'[r]),
           promised' = promised \/ (promised' = promised \cup {r} /\ s = "running"),
           \A g \in {"layout", "manifest", "checkpoint-manifest"} : dir'[r][g] = dir[r][g],
           \/ UNCHANGED disk
           \/ disk'[r] = dir'[r],
           dir'[r]["run-manifest"] = Synced(s),
           r \in promised' \ promised => disk'[r] = dir'[r],
           SyncedOK(r)'
    PROVE  IInv'
<1>1. /\ r \in rootsDisk /\ r \in roots /\ RootOK(r)
      /\ PhaseOK(pc[p], mode[p], s, dir[r], disk[r], db[r])
  BY Own DEF Later, Publishing
<1>2. TypeOK'
  BY DEF IInv, TypeOK, ProcTypes, Dirs
<1>3. Complete(dir[r], disk[r], db[r]) => Complete(dir'[r], disk'[r], db'[r])
  BY DEF Complete, Stored, Laid
<1>4. s \in {"running", "succeeded"} => Complete(dir[r], disk[r], db[r])
  BY <1>1 DEF PhaseOK, PublishOK
<1>5. Durable(r) => Durable(r)'
  BY <1>3 DEF Durable
<1>6. s \in {"running", "succeeded"} => Durable(r)'
  BY <1>1, <1>3, <1>4 DEF Durable
<1>7. /\ Ready(dir'[r]["run-manifest"]) => s \in {"running", "succeeded"}
      /\ Published(dir'[r]["run-manifest"])
  BY CellFacts DEF Statuses, Published, Ready
<1>8. ReadyOK(r)'
  BY <1>1, <1>5, <1>6, <1>7 DEF RootOK, ReadyOK
<1>9. PromiseOK(r)'
  BY <1>1, <1>5, <1>6, <1>7 DEF RootOK, PromiseOK
<1>10. RootOK(r)'
  BY <1>8, <1>9 DEF RootOK
<1>11. QED
  BY <1>2, <1>10, OwnStep

\* The temporary is renamed over the run manifest.
LEMMA RenameTmpIInv == ASSUME IInv, NEW p \in Procs, RenameTmp(p) PROVE IInv'
<1>1. PICK r \in Ids : r = at[p]
  BY Own DEF RenameTmp
<1>2. /\ pc[p] = "rename" /\ pc[p] \in Publishing /\ r \in rootsDisk /\ r \in roots /\ r # None
      /\ RootOK(r) /\ dir[r] \in Dirs
      /\ PhaseOK("rename", mode[p], status[p], dir[r], disk[r], db[r])
  BY <1>1, Own DEF RenameTmp, Later, Publishing
<1>3. PICK s \in Statuses : status[p] = s
  BY <1>2 DEF PhaseOK, PublishOK, Publishing
<1>4. dir[r]["run-tmp"] = Synced(s) /\ Synced(s) \in Cell
  BY <1>2, <1>3, CellFacts DEF PhaseOK, PublishOK
<1>5. "pubsync" \in Labels \ {"idle", "draw"}
  BY DEF Labels
<1>6. /\ ProcTypes' /\ OthersStay(p) /\ pc'[p] = "pubsync"
      /\ at'[p] = at[p] /\ mode'[p] = mode[p] /\ status'[p] = status[p]
  BY <1>5, GoesOn DEF RenameTmp, IInv
<1>7. /\ dir' = [dir EXCEPT ![r]["run-manifest"] = dir[r]["run-tmp"], ![r]["run-tmp"] = None]
      /\ UNCHANGED <<roots, rootsDisk, disk, db, promised, budget>>
  BY <1>1 DEF RenameTmp, Entry
<1>8. /\ dir' \in [Ids -> Dirs] /\ dir'[r]["run-manifest"] = Synced(s)
      /\ dir'[r]["run-tmp"] = None
      /\ \A g \in Files \ {"run-manifest", "run-tmp"} : dir'[r][g] = dir[r][g]
      /\ \A x \in Ids \ {r} : dir'[x] = dir[x]
  <2> DEFINE renamed == [dir[r] EXCEPT !["run-manifest"] = Synced(s)]
             d == [renamed EXCEPT !["run-tmp"] = None]
  <2>1. /\ d \in Dirs /\ d["run-manifest"] = Synced(s) /\ d["run-tmp"] = None
        /\ \A g \in Files \ {"run-manifest", "run-tmp"} : d[g] = dir[r][g]
    BY <1>2, <1>4 DEF Dirs, Files
  <2>2. dir' = [dir EXCEPT ![r] = d]
    BY <1>4, <1>7
  <2> HIDE DEF d
  <2>3. QED
    BY <2>1, <2>2 DEF IInv, TypeOK, Dirs
<1>9. SyncedOK(r)'
  <2>1. \A g \in Files : Lossy(dir[r][g]) = dir[r][g] /\ Lossy(disk[r][g]) = disk[r][g]
    BY <1>2 DEF RootOK, SyncedOK
  <2>2. Lossy(Synced(s)) = Synced(s) /\ Lossy(None) = None
    BY CellFacts
  <2>3. \A g \in Files : Lossy(dir'[r][g]) = dir'[r][g]
    BY <1>8, <2>1, <2>2
  <2>4. QED
    BY <1>7, <2>1, <2>3 DEF SyncedOK
<1>10. \A g \in {"layout", "manifest", "checkpoint-manifest"} : dir'[r][g] = dir[r][g]
  BY <1>8 DEF Files
<1>11. PhaseOK("pubsync", mode[p], s, dir'[r], disk[r], db[r])
  BY <1>2, <1>3, <1>8, <1>10 DEF PhaseOK, AllocOK, OpenOK, PublishOK, Alloc, Later, Opening, Publishing,
                                 Laid, Stored, Complete
<1>12. Sound(p)'
  BY <1>1, <1>2, <1>3, <1>5, <1>6, <1>7, <1>11 DEF Sound
<1>13. OtherRoots(r) /\ disk' \in [Ids -> Dirs]
  <2>1. disk' \in [Ids -> Dirs]
    BY <1>7 DEF IInv, TypeOK, Dirs
  <2>2. OtherRoots(r)
    BY <1>7, <1>8 DEF OtherRoots
  <2>3. QED
    BY <2>1, <2>2
<1>14. at[p] = r /\ pc[p] \in Publishing /\ at'[p] \in {r, None}
  BY <1>1, <1>2, <1>6
<1>15. ProcTypes' /\ OthersStay(p) /\ dir' \in [Ids -> Dirs] /\ dir'[r]["run-manifest"] = Synced(s)
  BY <1>6, <1>8
<1>16. /\ UNCHANGED <<roots, rootsDisk, disk, db, promised, budget>>
       /\ db' \in [Ids -> Store \cup {None}] /\ (Usable(db[r]) => Usable(db'[r]))
  BY <1>7 DEF IInv, TypeOK
<1>17. QED
  BY <1>3, <1>9, <1>10, <1>12, <1>13, <1>14, <1>15, <1>16, PublishStep

\* The sync after the rename: a run published as running is promised.
LEMMA SyncRunIInv == ASSUME IInv, NEW p \in Procs, SyncRun(p) PROVE IInv'
<1>1. PICK r \in Ids : r = at[p]
  BY Own DEF SyncRun
<1>2. /\ pc[p] = "pubsync" /\ pc[p] \in Publishing /\ r \in rootsDisk /\ r \in roots /\ r # None
      /\ RootOK(r) /\ dir[r] \in Dirs
      /\ PhaseOK("pubsync", mode[p], status[p], dir[r], disk[r], db[r])
  BY <1>1, Own DEF SyncRun, Later, Publishing
<1>3. PICK s \in Statuses : status[p] = s
  BY <1>2 DEF PhaseOK, PublishOK, Publishing
<1>4. dir[r]["run-manifest"] = Synced(s)
  BY <1>2, <1>3 DEF PhaseOK, PublishOK
<1>5. SyncDir(r) /\ UNCHANGED <<roots, rootsDisk, dir, budget>> /\ SyncedOK(r)
  BY <1>1, <1>2 DEF SyncRun, RootOK
<1>6. /\ disk' \in [Ids -> Dirs] /\ \A x \in Ids \ {r} : disk'[x] = disk[x]
      /\ disk'[r] = dir[r]
      /\ db' \in [Ids -> Store \cup {None}] /\ db'[r] = Named(db[r])
      /\ \A x \in Ids \ {r} : db'[x] = db[x]
      /\ Usable(db[r]) => Usable(db'[r])
  BY <1>5, SyncFacts DEF IInv
<1>7. OtherRoots(r) /\ dir' \in [Ids -> Dirs] /\ SyncedOK(r)'
  BY <1>5, <1>6 DEF OtherRoots, IInv, TypeOK, Dirs, SyncedOK
<1>8. CASE status[p] = "running"
  <2>1. Go(p, "work") /\ promised' = promised \cup {r} /\ UNCHANGED procVars
    BY <1>1, <1>8 DEF SyncRun
  <2>2. "work" \in Labels \ {"idle", "draw"}
    BY DEF Labels
  <2>3. /\ ProcTypes' /\ OthersStay(p) /\ pc'[p] = "work"
        /\ at'[p] = at[p] /\ mode'[p] = mode[p] /\ status'[p] = status[p]
    BY <2>1, <2>2, GoesOn DEF IInv
  <2>4. PhaseOK("work", mode[p], s, dir[r], dir[r], db'[r])
    BY <1>2, <1>3, <1>6, <1>8 DEF PhaseOK, AllocOK, OpenOK, PublishOK, Alloc, Later, Opening, Publishing,
                            Laid, Stored, Complete
  <2>5. Sound(p)'
    BY <1>1, <1>2, <1>3, <1>5, <1>6, <2>2, <2>3, <2>4 DEF Sound
  <2>6. QED
    BY <1>1, <1>2, <1>3, <1>4, <1>5, <1>6, <1>7, <1>8, <2>1, <2>3, <2>5, PublishStep
<1>9. CASE status[p] # "running"
  <2>1. Leave(p) /\ promised' = promised
    BY <1>9 DEF SyncRun
  <2>2. ProcTypes' /\ OthersStay(p) /\ pc'[p] = "idle" /\ at'[p] = None
    BY <2>1, LeaveFacts DEF IInv
  <2>3. Sound(p)'
    BY <2>2 DEF Sound
  <2>4. QED
    BY <1>1, <1>2, <1>3, <1>4, <1>5, <1>6, <1>7, <2>1, <2>2, <2>3, PublishStep
<1>10. QED
  BY <1>8, <1>9

LEMMA PublishFailsIInv == ASSUME IInv, NEW p \in Procs, PublishFails(p) PROVE IInv'
<1>1. /\ pc[p] \in Publishing /\ pc[p] \in Later
      /\ PhaseOK(pc[p], mode[p], status[p], dir[at[p]], disk[at[p]], db[at[p]])
  BY Own DEF PublishFails, Publishing, Later
<1>2. UNCHANGED <<fsVars, db, promised, budget>>
  BY DEF PublishFails
<1>3. CASE Leave(p)
  BY <1>2, <1>3, LeaveIInv DEF IInv, TypeOK
<1>4. CASE /\ Go(p, "publish") /\ status' = [status EXCEPT ![p] = "failed"]
           /\ UNCHANGED <<at, mode, tries, created>>
  <2>1. PhaseOK("publish", mode[p], "failed", dir[at[p]], disk[at[p]], db[at[p]])
    BY <1>1 DEF PhaseOK, AllocOK, OpenOK, PublishOK, Alloc, Later, Opening, Publishing, Statuses
  <2>2. QED
    BY <1>1, <1>2, <1>4, <2>1, MoveStep DEF Later, Publishing, Statuses
<1>5. QED
  BY <1>3, <1>4 DEF PublishFails

\* Who finds a run finds a complete one, with no other process in it.
LEMMA ResumeIInv == ASSUME IInv, NEW p \in Procs, NEW id \in Ids, Resume(p, id) PROVE IInv'
<1>1. "check" \in Labels /\ "resumes" \in Budgets /\ id # None
  BY NoneAssumption DEF Labels, Budgets
<1>2. /\ pc' \in [Procs -> Labels] /\ pc'[p] = "check"
      /\ \A q \in Procs \ {p} : pc'[q] = pc[q]
  BY <1>1, GoFacts DEF Resume, IInv
<1>3. budget' \in [Budgets -> Nat]
  BY <1>1, SpendFacts DEF Resume, IInv
<1>4. /\ UNCHANGED <<roots, rootsDisk, dir, disk, db, tries, created, status, promised>>
      /\ at' = [at EXCEPT ![p] = id] /\ mode' = [mode EXCEPT ![p] = "resume"]
      /\ \A q \in Procs : at[q] # id
  BY DEF Resume, fsVars
<1>5. /\ at' \in [Procs -> Ids \cup {None}] /\ at'[p] = id /\ mode'[p] = "resume"
      /\ \A q \in Procs \ {p} : at'[q] = at[q] /\ mode'[q] = mode[q]
  BY <1>4 DEF IInv, TypeOK
<1>6. TypeOK'
  BY <1>2, <1>3, <1>4, <1>5 DEF IInv, TypeOK
<1>7. Durable(id)
  BY DEF Resume, Found, Has, Entry, Ready, IInv, RootsSound, RootOK, ReadyOK
<1>8. Sound(p)'
  <2>1. PhaseOK("check", "resume", status[p], dir[id], disk[id], db[id])
    BY <1>7 DEF Durable, PhaseOK, AllocOK, OpenOK, PublishOK, Alloc, Later, Opening, Publishing,
                Complete, Stored
  <2>2. QED
    BY <1>1, <1>2, <1>4, <1>5, <1>7, <2>1 DEF Sound, Durable
<1>9. ASSUME NEW q \in Procs \ {p} PROVE Sound(q)'
  <2>1. pc'[q] = pc[q] /\ at'[q] = at[q] /\ mode'[q] = mode[q] /\ status'[q] = status[q]
    BY <1>2, <1>4, <1>5
  <2>2. Sound(q)
    BY DEF IInv, ProcsSound
  <2>3. QED
    BY <1>4, <2>1, <2>2 DEF Sound
<1>10. OnePerRoot'
  BY <1>4, <1>5 DEF IInv, OnePerRoot
<1>11. \A x \in Ids : RootOK(x)'
  BY <1>4 DEF IInv, RootsSound, RootOK, ReadyOK, PromiseOK, SyncedOK, Durable
<1>12. GoneIsEmpty'
  BY <1>4 DEF IInv, GoneIsEmpty
<1>13. QED
  BY <1>6, <1>8, <1>9, <1>10, <1>11, <1>12 DEF IInv, ProcsSound, RootsSound

LEMMA KillIInv == ASSUME IInv, NEW p \in Procs, Kill(p) PROVE IInv'
<1>1. budget' \in [Budgets -> Nat]
  BY SpendFacts DEF Kill, IInv, Budgets
<1>2. QED
  BY <1>1, LeaveIInv DEF Kill

-----------------------------------------------------------------------------
(* The invariant is inductive.                                              *)

\* A power loss: every entry of a root that is kept is one it showed or one
\* that had survived, and no process is left.
LEMMA PowerLossIInv == ASSUME IInv, PowerLoss PROVE IInv'
<1>1. PICK kept \in SUBSET (roots \cup rootsDisk) :
          /\ roots \cap rootsDisk \subseteq kept
          /\ roots' = kept /\ rootsDisk' = kept
          /\ \E new \in SUBSET {e \in kept \X Files : disk[e[1]][e[2]] # Lossy(dir[e[1]][e[2]])} :
                dir' = [id \in Ids |-> [f \in Files |->
                           IF id \notin kept THEN None
                           ELSE IF <<id, f>> \in new THEN Lossy(dir[id][f]) ELSE disk[id][f]]]
          /\ disk' = dir'
          /\ \E named \in SUBSET kept :
                /\ \A id \in kept \ named : db[id] # None /\ ~db[id].named
                /\ db' = [id \in Ids |-> IF id \in named THEN Named(db[id]) ELSE None]
  BY DEF PowerLoss
<1>2. PICK new :
          dir' = [id \in Ids |-> [f \in Files |->
                     IF id \notin kept THEN None
                     ELSE IF <<id, f>> \in new THEN Lossy(dir[id][f]) ELSE disk[id][f]]]
  BY <1>1
<1>3. \A id \in Ids : \A f \in Files :
          dir'[id][f] = IF id \notin kept THEN None
                        ELSE IF <<id, f>> \in new THEN Lossy(dir[id][f]) ELSE disk[id][f]
  BY <1>2
<1>4. \A id \in Ids \cap kept : \A f \in Files : dir'[id][f] \in {dir[id][f], disk[id][f]}
  BY <1>3 DEF IInv, RootsSound, RootOK, SyncedOK
<1>5. \A id \in Ids \ kept : dir'[id] = Empty
  BY <1>2 DEF Empty
<1>6. dir' \in [Ids -> Dirs] /\ disk' = dir'
  <2>1. ASSUME NEW id \in Ids, NEW f \in Files PROVE dir'[id][f] \in Cell \cup {None}
    <3>1. dir[id][f] \in Cell \cup {None} /\ disk[id][f] \in Cell \cup {None}
      BY DEF IInv, TypeOK
    <3>2. CASE id \in kept
      BY <1>4, <3>1, <3>2
    <3>3. CASE id \notin kept
      BY <1>3, <3>3
    <3>4. QED
      BY <3>2, <3>3
  <2>2. QED
    BY <1>1, <1>2, <2>1 DEF Dirs
<1>7. /\ db' \in [Ids -> Store \cup {None}]
      /\ \A id \in Ids \cap kept : Usable(db[id]) => Usable(db'[id])
      /\ \A id \in Ids \ kept : db'[id] = None
  <2>1. PICK named \in SUBSET kept :
                /\ \A id \in kept \ named : db[id] # None /\ ~db[id].named
                /\ db' = [id \in Ids |-> IF id \in named THEN Named(db[id]) ELSE None]
    BY <1>1
  <2>2. \A id \in Ids : db'[id] = IF id \in named THEN Named(db[id]) ELSE None
    BY <2>1
  <2>3. ASSUME NEW id \in Ids
        PROVE  /\ Named(db[id]) \in Store \cup {None}
               /\ Usable(db[id]) => Usable(Named(db[id]))
    <3>1. db[id] \in Store \cup {None}
      BY DEF IInv, TypeOK
    <3>2. QED
      BY <3>1, NamedFacts
  <2>4. db' \in [Ids -> Store \cup {None}]
    BY <2>1, <2>3
  <2>5. \A id \in Ids \cap kept : Usable(db[id]) => id \in named
    BY <2>1 DEF Usable
  <2>6. QED
    BY <2>2, <2>3, <2>4, <2>5
<1>8. /\ pc' = [p \in Procs |-> "idle"] /\ at' = [p \in Procs |-> None]
      /\ mode' = at' /\ status' = at'
      /\ tries' = [p \in Procs |-> 0] /\ created' = [p \in Procs |-> FALSE]
      /\ promised' = promised
  BY DEF PowerLoss
<1>9. ProcTypes'
  BY <1>8 DEF ProcTypes, Labels
<1>10. budget' \in [Budgets -> Nat]
  BY SpendFacts DEF PowerLoss, IInv, Budgets
<1>11. TypeOK'
  BY <1>1, <1>6, <1>7, <1>8, <1>9, <1>10 DEF IInv, TypeOK, ProcTypes, Dirs
<1>12. ProcsSound' /\ OnePerRoot'
  BY <1>8 DEF ProcsSound, Sound, OnePerRoot
<1>13. ASSUME NEW id \in Ids PROVE RootOK(id)'
  <2>1. RootOK(id)
    BY DEF IInv, RootsSound
  <2>2. Durable(id) => id \in kept
    BY <1>1 DEF Durable
  <2>3. CASE id \in kept
    <3>1. /\ \A f \in Files : dir'[id][f] \in {dir[id][f], disk[id][f]}
          /\ disk'[id] = dir'[id] /\ (Usable(db[id]) => Usable(db'[id]))
          /\ id \in roots' /\ id \in rootsDisk'
      BY <1>1, <1>4, <1>6, <1>7, <2>3
    <3>2. Durable(id) => Durable(id)'
      BY <3>1 DEF Durable, Complete, Stored, Laid, Whole, Files
    <3>3. ReadyOK(id)' /\ PromiseOK(id)'
      BY <1>8, <2>1, <3>1, <3>2 DEF RootOK, ReadyOK, PromiseOK, Files
    <3>4. SyncedOK(id)'
      BY <2>1, <3>1 DEF RootOK, SyncedOK
    <3>5. QED
      BY <3>3, <3>4 DEF RootOK
  <2>4. CASE id \notin kept
    <3>1. dir'[id] = Empty /\ disk'[id] = Empty
      BY <1>5, <1>6, <2>4
    <3>2. id \notin promised'
      BY <1>8, <2>1, <2>2, <2>4 DEF RootOK, PromiseOK
    <3>3. QED
      BY <3>1, <3>2, CellFacts DEF RootOK, ReadyOK, PromiseOK, SyncedOK, Empty, Files
  <2>5. QED
    BY <2>3, <2>4
<1>14. GoneIsEmpty'
  BY <1>1, <1>5, <1>7 DEF GoneIsEmpty
<1>15. QED
  BY <1>11, <1>12, <1>13, <1>14 DEF IInv, RootsSound

LEMMA InitIInv == Init => IInv /\ Fresh
<1> SUFFICES ASSUME Init PROVE IInv /\ Fresh
  OBVIOUS
<1>1. budget \in [Budgets -> Nat]
  BY RunDirectoryAssumption DEF Init, Budgets
<1>2. TypeOK
  BY <1>1, CellFacts DEF Init, TypeOK, Dirs, Labels
<1>3. ProcsSound /\ OnePerRoot
  BY DEF Init, ProcsSound, Sound, OnePerRoot
<1>4. RootsSound
  BY CellFacts DEF Init, RootsSound, RootOK, ReadyOK, PromiseOK, SyncedOK, Empty, Files
<1>5. GoneIsEmpty
  BY DEF Init, GoneIsEmpty
<1>6. Fresh
  BY DEF Init, Fresh
<1>7. QED
  BY <1>2, <1>3, <1>4, <1>5, <1>6 DEF IInv

\* One process's step.
Step(p) ==
    \/ Start(p) \/ InitializeLayout(p) \/ PublishManifest(p) \/ SyncRoot(p) \/ SyncBase(p)
    \/ InitializeFails(p) \/ Rollback(p)
    \/ CheckManifest(p) \/ CreateTmp(p) \/ WriteManifest(p) \/ SyncManifest(p)
    \/ OpenDatabase(p) \/ BindMeta(p) \/ SyncDatabase(p) \/ OpenFails(p)
    \/ SaveInitial(p) \/ LoadLatest(p) \/ Save(p) \/ Finish(p)
    \/ TruncateTmp(p) \/ FillTmp(p) \/ RenameTmp(p) \/ SyncRun(p) \/ PublishFails(p)
    \/ Kill(p)
    \/ \E id \in Ids : CreateRoot(p, id) \/ Collide(p, id) \/ Resume(p, id)

LEMMA NextIInv == IInv /\ Fresh /\ [Next]_vars => IInv'
<1> SUFFICES ASSUME IInv, Fresh, [Next]_vars PROVE IInv'
  OBVIOUS
<1>1. ASSUME NEW p \in Procs, Step(p) PROVE IInv'
  <2>1. CASE \/ Start(p) \/ InitializeLayout(p) \/ PublishManifest(p) \/ SyncRoot(p) \/ SyncBase(p)
             \/ InitializeFails(p) \/ Rollback(p)
    BY <2>1, StartIInv, InitializeLayoutIInv, PublishManifestIInv, SyncRootIInv, SyncBaseIInv,
       InitializeFailsIInv, RollbackIInv
  <2>2. CASE \/ CheckManifest(p) \/ CreateTmp(p) \/ WriteManifest(p) \/ SyncManifest(p)
             \/ OpenDatabase(p) \/ BindMeta(p) \/ SyncDatabase(p) \/ OpenFails(p)
    BY <2>2, CheckManifestIInv, CreateTmpIInv, WriteManifestIInv, SyncManifestIInv,
       OpenDatabaseIInv, BindMetaIInv, SyncDatabaseIInv, OpenFailsIInv
  <2>3. CASE SaveInitial(p) \/ LoadLatest(p) \/ Save(p) \/ Finish(p)
    BY <2>3, SaveInitialIInv, LoadLatestIInv, SaveIInv, FinishIInv
  <2>4. CASE \/ TruncateTmp(p) \/ FillTmp(p) \/ RenameTmp(p) \/ SyncRun(p) \/ PublishFails(p)
             \/ Kill(p)
    BY <2>4, TruncateTmpIInv, FillTmpIInv, RenameTmpIInv, SyncRunIInv, PublishFailsIInv, KillIInv
  <2>5. ASSUME NEW id \in Ids, CreateRoot(p, id) \/ Collide(p, id) \/ Resume(p, id) PROVE IInv'
    BY <2>5, CreateRootIInv, CollideIInv, ResumeIInv
  <2>6. QED
    BY <1>1, <2>1, <2>2, <2>3, <2>4, <2>5 DEF Step
<1>2. CASE PowerLoss
  BY <1>2, PowerLossIInv
<1>3. CASE UNCHANGED vars
  BY <1>3 DEF vars, fsVars, procVars, IInv, TypeOK, ProcsSound, Sound, OnePerRoot, RootsSound, RootOK,
              ReadyOK, PromiseOK, SyncedOK, Durable, GoneIsEmpty
<1>4. QED
  BY <1>1, <1>2, <1>3 DEF Next, Step, Done

\* Only OpenDatabase leads to the binding, and a start finds no database then.
LEMMA NextFresh == IInv /\ Fresh /\ [Next]_vars => Fresh'
<1> SUFFICES ASSUME IInv, Fresh, [Next]_vars, NEW q \in Procs, pc'[q] = "meta", mode'[q] = "start"
             PROVE  created'[q]
  BY DEF Fresh
<1>1. ASSUME NEW p \in Procs, Leave(p) PROVE created'[q]
  BY <1>1 DEF Leave, Go, Fresh, IInv, TypeOK
<1>2. ASSUME NEW p \in Procs, NEW l \in Labels \ {"meta"}, Go(p, l), UNCHANGED <<mode, created>>
      PROVE  created'[q]
  BY <1>2 DEF Go, Fresh, IInv, TypeOK
<1>3. CASE UNCHANGED <<pc, mode, created>>
  BY <1>3 DEF Fresh
<1>4. ASSUME NEW p \in Procs, NEW l \in Labels \ {"meta"}, NEW m, Go(p, l),
             mode' = [mode EXCEPT ![p] = m], UNCHANGED created
      PROVE  created'[q]
  BY <1>4 DEF Go, Fresh, IInv, TypeOK
<1>5. ASSUME NEW p \in Procs, OpenDatabase(p) PROVE created'[q]
  <2>1. CASE q = p
    <3>1. mode[p] = "start" /\ pc[p] = "db"
      BY <1>5, <2>1 DEF OpenDatabase
    <3>2. db[at[p]] = None
      BY <3>1, Own DEF PhaseOK, OpenOK
    <3>3. QED
      BY <1>5, <2>1, <3>2 DEF OpenDatabase, IInv, TypeOK
  <2>2. CASE q # p
    BY <1>5, <2>2 DEF OpenDatabase, Go, Fresh, IInv, TypeOK
  <2>3. QED
    BY <2>1, <2>2
<1>6. ASSUME NEW p \in Procs, StoreFails(p) PROVE created'[q]
  BY <1>1, <1>2, <1>6 DEF StoreFails, Labels
<1>7. ASSUME NEW p \in Procs, Step(p) PROVE created'[q]
  <2>1. CASE Start(p) \/ \E id \in Ids : Resume(p, id)
    BY <2>1, <1>4 DEF Start, Resume, Labels
  <2>2. CASE \/ InitializeLayout(p) \/ PublishManifest(p) \/ SyncRoot(p) \/ SyncBase(p)
             \/ InitializeFails(p) \/ (\E id \in Ids : CreateRoot(p, id))
    BY <2>2, <1>2 DEF InitializeLayout, PublishManifest, SyncRoot, SyncBase, InitializeFails, CreateRoot,
                      procVars, Labels
  <2>3. CASE Rollback(p) \/ Kill(p) \/ \E id \in Ids : Collide(p, id)
    BY <2>3, <1>1, <1>3 DEF Rollback, Kill, Collide
  <2>4. CASE \/ CheckManifest(p) \/ CreateTmp(p) \/ WriteManifest(p) \/ SyncManifest(p)
             \/ SyncDatabase(p) \/ OpenFails(p)
    BY <2>4, <1>2, <1>6 DEF CheckManifest, CreateTmp, WriteManifest, SyncManifest, SyncDatabase, OpenFails,
                            Opened, procVars, Labels
  <2>5. CASE BindMeta(p)
    BY <2>5, <1>2 DEF BindMeta, Opened, procVars, Labels
  <2>6. CASE SaveInitial(p) \/ LoadLatest(p) \/ Save(p) \/ Finish(p)
    BY <2>6, <1>1, <1>2, <1>3, <1>6 DEF SaveInitial, LoadLatest, Save, Finish, procVars, Labels
  <2>7. CASE TruncateTmp(p) \/ FillTmp(p) \/ RenameTmp(p) \/ SyncRun(p) \/ PublishFails(p)
    BY <2>7, <1>1, <1>2 DEF TruncateTmp, FillTmp, RenameTmp, SyncRun, PublishFails, procVars, Labels
  <2>8. QED
    BY <1>5, <1>7, <2>1, <2>2, <2>3, <2>4, <2>5, <2>6, <2>7 DEF Step
<1>8. CASE PowerLoss
  BY <1>8 DEF PowerLoss
<1>9. CASE UNCHANGED vars
  BY <1>3, <1>9 DEF vars, procVars
<1>10. QED
  BY <1>7, <1>8, <1>9 DEF Next, Step, Done

-----------------------------------------------------------------------------
(* Theorems.                                                                *)

\* The inductive invariant holds of every use of the base directory.
THEOREM Invariance == Spec => [](IInv /\ Fresh)
BY InitIInv, NextIInv, NextFresh, PTL DEF Spec

\* Type correctness of the directories, the databases and the processes.
THEOREM TypeCorrect == Spec => []TypeOK
<1>1. IInv => TypeOK
  BY DEF IInv
<1>2. QED
  BY Invariance, <1>1, PTL

\* A run whose start was told it is running is found again, whole and with a
\* checkpoint, after any kills and power losses.
THEOREM PromiseIsKept == Spec => []PublishedIsResumable
<1>1. ASSUME IInv PROVE PublishedIsResumable
  <2>1. \A id \in promised : id \in Ids /\ PromiseOK(id)
    BY <1>1 DEF IInv, TypeOK, RootsSound, RootOK
  <2>2. QED
    BY <2>1, CellFacts DEF PublishedIsResumable, PromiseOK, Durable, Complete, Stored, Laid, Whole,
                Usable, Allocated, StoreIsUsable, Has, Entry, Published, Statuses
<1>2. QED
  BY Invariance, <1>1, PTL

\* Whoever finds a run can resume it, also when its start was killed.
THEOREM FoundIsComplete == Spec => []VisibleMeansComplete
<1>1. ASSUME IInv PROVE VisibleMeansComplete
  <2>1. \A id \in Ids : Found(id) => Durable(id)
    BY <1>1 DEF IInv, RootsSound, RootOK, ReadyOK, Found, Has, Entry, Ready
  <2>2. QED
    BY <2>1, CellFacts DEF VisibleMeansComplete, Durable, Complete, Stored, Laid, Whole,
                Usable, Allocated, StoreIsUsable, Has, Entry
<1>2. QED
  BY Invariance, <1>1, PTL

=============================================================================
