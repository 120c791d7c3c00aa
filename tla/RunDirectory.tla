----------------------------- MODULE RunDirectory -----------------------------
(***************************************************************************)
(* The directories of runs on disk: how a start allocates one under the    *)
(* shared base (workdir.rs), creates the checkpoint store in it            *)
(* (checkpoint.rs) and publishes the run (execution.rs), and how a resume  *)
(* finds it again.  Several processes share the base; a process may be     *)
(* killed, and the machine may lose power, between any two steps.          *)
(*                                                                         *)
(* A directory operation is visible at once and certain to survive a power *)
(* loss only once its directory was synced; until then it may or may not.  *)
(* A file whose data was not synced may come back torn.                    *)
(*                                                                         *)
(* A run has at most one process at a time.  Nothing in the code enforces  *)
(* it: two resumes of one run would share the temporary file of            *)
(* write_atomic and overwrite each other's checkpoints.                    *)
(***************************************************************************)
EXTENDS Naturals, FiniteSets

CONSTANTS
    Procs,        \* processes using the base
    Ids,          \* workdir identifiers the entropy source may draw
    Attempts,     \* draws before AllocationExhausted (8 in the code)
    MaxStarts,    \* bound on the runs started
    MaxResumes,   \* bound on the resumes
    MaxSaves,     \* bound on the checkpoints of a run
    MaxKills,     \* bound on the processes killed
    MaxLosses,    \* bound on the power losses
    None

ASSUME RunDirectoryAssumption ==
    /\ {Attempts, MaxStarts, MaxResumes, MaxSaves, MaxKills, MaxLosses} \subseteq Nat
    /\ Attempts > 0

\* The entries of a run's root; "layout" stands for its seven directories.
Files == {"layout", "manifest", "checkpoint-manifest", "checkpoint-tmp", "run-manifest", "run-tmp"}

\* An entry: what is in the file, and whether its data was synced.
Statuses == {"running", "succeeded", "failed"}
Cell == [value : {"whole", "torn"} \cup Statuses, flushed : BOOLEAN]
Store == [meta : BOOLEAN, row : Nat, named : BOOLEAN]
Budgets == {"starts", "resumes", "kills", "losses"}

Labels == {"idle", "draw", "layout", "manifest", "syncroot", "syncbase", "rollback",
           "check", "tmp", "write", "mansync", "db", "meta", "dbsync", "save", "load", "work",
           "publish", "fill", "rename", "pubsync"}

ASSUME NoneAssumption ==
    None \notin Ids \cup Cell \cup Store \cup Statuses \cup {"start", "resume"}

VARIABLES
    roots,      \* roots visible under the base
    rootsDisk,  \* roots certain to survive a power loss
    dir,        \* the visible entries of each root
    disk,       \* the entries of each root certain to survive
    db,         \* checkpoint.sqlite: None, or its meta row, its latest sequence, and
                \* whether its name is certain to survive
    pc,         \* where each process is
    at,         \* the root a process works in
    mode,       \* start or resume
    tries,      \* identifiers a process has drawn
    created,    \* created_database
    status,     \* the run status a process is about to publish
    promised,   \* roots whose run was published as running
    budget      \* what is left of the bounds

fsVars == <<roots, rootsDisk, dir, disk>>
procVars == <<at, mode, tries, created, status>>
vars == <<fsVars, db, pc, procVars, promised, budget>>

TypeOK ==
    /\ roots \subseteq Ids /\ rootsDisk \subseteq Ids /\ promised \subseteq Ids
    /\ dir \in [Ids -> [Files -> Cell \cup {None}]]
    /\ disk \in [Ids -> [Files -> Cell \cup {None}]]
    /\ db \in [Ids -> Store \cup {None}]
    /\ pc \in [Procs -> Labels]
    /\ at \in [Procs -> Ids \cup {None}]
    /\ mode \in [Procs -> {"start", "resume", None}]
    /\ tries \in [Procs -> Nat] /\ created \in [Procs -> BOOLEAN]
    /\ status \in [Procs -> Statuses \cup {None}]
    /\ budget \in [Budgets -> Nat]

Torn == [value |-> "torn", flushed |-> TRUE]

\* write_all and sync_all: the data is on disk before the name is.
Synced(v) == [value |-> v, flushed |-> TRUE]

Entry(id, f) == dir[id][f]
Has(id, f, values) == Entry(id, f) # None /\ Entry(id, f).value \in values
Empty == [f \in Files |-> None]

\* What a power loss leaves of an entry whose name survives.
Lossy(c) == IF c = None THEN None ELSE IF c.flushed THEN c ELSE Torn

Spend(what) == budget[what] > 0 /\ budget' = [budget EXCEPT ![what] = @ - 1]
Go(p, l) == pc' = [pc EXCEPT ![p] = l]
Put(id, f, c) == dir' = [dir EXCEPT ![id][f] = c]

Named(b) == IF b = None THEN None ELSE [b EXCEPT !.named = TRUE]

\* File::open(directory).sync_all() of a root: its entries, the database's too.
SyncDir(id) ==
    /\ disk' = [disk EXCEPT ![id] = [f \in Files |-> Lossy(dir[id][f])]]
    /\ db' = [db EXCEPT ![id] = Named(@)]

\* The process forgets the run: its command has returned, or it was killed.
Leave(p) ==
    /\ Go(p, "idle")
    /\ at' = [at EXCEPT ![p] = None] /\ tries' = [tries EXCEPT ![p] = 0]
    /\ status' = [status EXCEPT ![p] = None] /\ created' = [created EXCEPT ![p] = FALSE]
    /\ mode' = [mode EXCEPT ![p] = None]

Init ==
    /\ roots = {} /\ rootsDisk = {}
    /\ dir = [id \in Ids |-> Empty] /\ disk = dir /\ db = [id \in Ids |-> None]
    /\ pc = [p \in Procs |-> "idle"]
    /\ at = [p \in Procs |-> None] /\ mode = at /\ status = at
    /\ tries = [p \in Procs |-> 0] /\ created = [p \in Procs |-> FALSE]
    /\ promised = {}
    /\ budget = [starts |-> MaxStarts, resumes |-> MaxResumes, kills |-> MaxKills, losses |-> MaxLosses]

-----------------------------------------------------------------------------
(* WorkdirManager::allocate_with and initialize_layout.                    *)

Start(p) ==
    /\ pc[p] = "idle" /\ Spend("starts")
    /\ Go(p, "draw") /\ mode' = [mode EXCEPT ![p] = "start"]
    /\ UNCHANGED <<fsVars, db, at, tries, created, status, promised>>

\* DirBuilder::create makes the root, or finds the name taken.  The new root
\* is empty also where an earlier one of the same name was rolled back.
CreateRoot(p, id) ==
    /\ pc[p] = "draw" /\ id \notin roots
    /\ roots' = roots \cup {id} /\ disk' = [disk EXCEPT ![id] = Empty]
    /\ Go(p, "layout") /\ at' = [at EXCEPT ![p] = id]
    /\ UNCHANGED <<rootsDisk, dir, db, mode, tries, created, status, promised, budget>>

Collide(p, id) ==
    /\ pc[p] = "draw" /\ id \in roots
    /\ IF tries[p] + 1 < Attempts
       THEN tries' = [tries EXCEPT ![p] = @ + 1] /\ UNCHANGED <<pc, at, mode, created, status>>
       ELSE Leave(p)
    /\ UNCHANGED <<fsVars, db, promised, budget>>

\* materialize_immutable_dir: blobs and directories are synced, not their names.
Materialized == Synced("whole")

\* The directories, then manifest.json by rename, then the root is synced.
InitializeLayout(p) ==
    /\ pc[p] = "layout" /\ Entry(at[p], "layout") = None
    /\ Put(at[p], "layout", Materialized) /\ Go(p, "manifest")
    /\ UNCHANGED <<roots, rootsDisk, disk, db, procVars, promised, budget>>

PublishManifest(p) ==
    /\ pc[p] = "manifest"
    /\ Put(at[p], "manifest", Synced("whole")) /\ Go(p, "syncroot")
    /\ UNCHANGED <<roots, rootsDisk, disk, db, procVars, promised, budget>>

SyncRoot(p) ==
    /\ pc[p] = "syncroot"
    /\ SyncDir(at[p]) /\ Go(p, "syncbase")
    /\ UNCHANGED <<roots, rootsDisk, dir, procVars, promised, budget>>

\* The base is synced: this root's name, and every other, survives.
SyncBase(p) ==
    /\ pc[p] = "syncbase"
    /\ rootsDisk' = roots
    /\ Go(p, "check")
    /\ UNCHANGED <<roots, dir, disk, db, procVars, promised, budget>>

\* Any step of the initialisation may fail.  (The inspection of the new root
\* may too, without a rollback, and leaves what a rollback that fails leaves.)
InitializeFails(p) ==
    /\ pc[p] \in {"layout", "manifest", "syncroot", "syncbase"}
    /\ Go(p, "rollback")
    /\ UNCHANGED <<fsVars, db, procVars, promised, budget>>

\* remove_owned_root; when the removal fails too, the root stays behind.
Rollback(p) ==
    /\ pc[p] = "rollback"
    /\ \/ roots' = roots \ {at[p]} /\ dir' = [dir EXCEPT ![at[p]] = Empty]
       \/ UNCHANGED <<roots, dir>>
    /\ Leave(p)
    /\ UNCHANGED <<rootsDisk, disk, db, promised, budget>>

-----------------------------------------------------------------------------
(* SqliteCheckpointStore::open, save_checkpoint and load_latest.           *)

Opening == {"check", "tmp", "write", "mansync", "db", "meta", "dbsync"}

\* A failed open, or save, ends a resume; a start publishes a failed run.
StoreFails(p) ==
    IF mode[p] = "start"
    THEN Go(p, "publish") /\ status' = [status EXCEPT ![p] = "failed"] /\ UNCHANGED <<at, mode, tries, created>>
    ELSE Leave(p)

\* validate_manifest of a published manifest; write_manifest when there is none.
CheckManifest(p) ==
    /\ pc[p] = "check"
    /\ IF Entry(at[p], "checkpoint-manifest") = None
       THEN Go(p, "tmp") /\ UNCHANGED procVars
       ELSE IF Has(at[p], "checkpoint-manifest", {"whole"})
            THEN Go(p, "db") /\ UNCHANGED procVars
            ELSE StoreFails(p)
    /\ UNCHANGED <<fsVars, db, promised, budget>>

\* create_new: a leftover temporary of a killed start refuses every open.
CreateTmp(p) ==
    /\ pc[p] = "tmp" /\ Entry(at[p], "checkpoint-tmp") = None
    /\ Put(at[p], "checkpoint-tmp", Torn) /\ Go(p, "write")
    /\ UNCHANGED <<roots, rootsDisk, disk, db, procVars, promised, budget>>

\* write_all, sync_all, rename.
WriteManifest(p) ==
    /\ pc[p] = "write"
    /\ dir' = [dir EXCEPT ![at[p]]["checkpoint-manifest"] = Synced("whole"),
                          ![at[p]]["checkpoint-tmp"] = None]
    /\ Go(p, "mansync")
    /\ UNCHANGED <<roots, rootsDisk, disk, db, procVars, promised, budget>>

SyncManifest(p) ==
    /\ pc[p] = "mansync"
    /\ SyncDir(at[p]) /\ Go(p, "db")
    /\ UNCHANGED <<roots, rootsDisk, dir, procVars, promised, budget>>

\* Connection::open and the schema; SQLite commits survive a power loss if the
\* file's name does.
OpenDatabase(p) ==
    /\ pc[p] = "db" /\ Go(p, "meta")
    /\ created' = [created EXCEPT ![p] = db[at[p]] = None]
    /\ db' = [db EXCEPT ![at[p]] = IF @ = None THEN [meta |-> FALSE, row |-> 0, named |-> FALSE] ELSE @]
    /\ UNCHANGED <<fsVars, at, mode, tries, status, promised, budget>>

\* What an opened store is used for first.
Opened(p) == IF mode[p] = "start" THEN "save" ELSE "load"

\* The meta row is inserted unless it is there.
BindMeta(p) ==
    /\ pc[p] = "meta"
    /\ db' = [db EXCEPT ![at[p]].meta = TRUE]
    /\ Go(p, IF created[p] THEN "dbsync" ELSE Opened(p))
    /\ UNCHANGED <<fsVars, procVars, promised, budget>>

SyncDatabase(p) ==
    /\ pc[p] = "dbsync"
    /\ SyncDir(at[p]) /\ Go(p, Opened(p))
    /\ UNCHANGED <<roots, rootsDisk, dir, procVars, promised, budget>>

\* Any step may fail; a failed write_manifest removes its temporary.
OpenFails(p) ==
    /\ pc[p] \in Opening /\ StoreFails(p)
    /\ IF pc[p] = "write" THEN Put(at[p], "checkpoint-tmp", None) ELSE UNCHANGED dir
    /\ UNCHANGED <<roots, rootsDisk, disk, db, promised, budget>>

\* save_checkpoint: the upsert of the run's single row.
Upsert(p) == db' = [db EXCEPT ![at[p]].row = @ + 1]

\* Slip: the run is published before its first checkpoint is saved.
SaveInitialLate(p) ==
    /\ pc[p] = "save" /\ Go(p, "publish") /\ status' = [status EXCEPT ![p] = "running"]
    /\ UNCHANGED <<fsVars, db, at, mode, tries, created, promised, budget>>

\* A start's initial checkpoint; then the run is published as running.
SaveInitial(p) ==
    /\ pc[p] = "save"
    /\ \/ /\ Upsert(p) /\ Go(p, "publish") /\ status' = [status EXCEPT ![p] = "running"]
          /\ UNCHANGED <<at, mode, tries, created>>
       \/ StoreFails(p) /\ UNCHANGED db
    /\ UNCHANGED <<fsVars, promised, budget>>

\* load_latest: a run without a checkpoint is refused.
LoadLatest(p) ==
    /\ pc[p] = "load"
    /\ \/ db[at[p]].row > 0 /\ Go(p, "work") /\ UNCHANGED procVars
       \/ Leave(p)
    /\ UNCHANGED <<fsVars, db, promised, budget>>

Save(p) ==
    /\ pc[p] = "work" /\ db[at[p]].row < MaxSaves
    /\ Upsert(p)
    /\ UNCHANGED <<fsVars, pc, procVars, promised, budget>>

Finish(p) ==
    /\ pc[p] = "work"
    /\ \E s \in {"succeeded", "failed"} : status' = [status EXCEPT ![p] = s]
    /\ Go(p, "publish")
    /\ UNCHANGED <<fsVars, db, at, mode, tries, created, promised, budget>>

-----------------------------------------------------------------------------
(* write_atomic of run-manifest.json.                                      *)

\* The temporary is created, or truncated when a killed process left one.
TruncateTmp(p) ==
    /\ pc[p] = "publish"
    /\ Put(at[p], "run-tmp", Torn) /\ Go(p, "fill")
    /\ UNCHANGED <<roots, rootsDisk, disk, db, procVars, promised, budget>>

\* Slip: the temporary is renamed without sync_all.
FillTmpUnsynced(p) ==
    /\ pc[p] = "fill" /\ Go(p, "rename")
    /\ Put(at[p], "run-tmp", [value |-> status[p], flushed |-> FALSE])
    /\ UNCHANGED <<roots, rootsDisk, disk, db, procVars, promised, budget>>

FillTmp(p) ==
    /\ pc[p] = "fill"
    /\ Put(at[p], "run-tmp", Synced(status[p])) /\ Go(p, "rename")
    /\ UNCHANGED <<roots, rootsDisk, disk, db, procVars, promised, budget>>

RenameTmp(p) ==
    /\ pc[p] = "rename"
    /\ dir' = [dir EXCEPT ![at[p]]["run-manifest"] = Entry(at[p], "run-tmp"), ![at[p]]["run-tmp"] = None]
    /\ Go(p, "pubsync")
    /\ UNCHANGED <<roots, rootsDisk, disk, db, procVars, promised, budget>>

\* The provisional manifest lets the graph run; a final one ends the command.
SyncRun(p) ==
    /\ pc[p] = "pubsync" /\ SyncDir(at[p])
    /\ IF status[p] = "running"
       THEN Go(p, "work") /\ promised' = promised \cup {at[p]} /\ UNCHANGED procVars
       ELSE Leave(p) /\ UNCHANGED promised
    /\ UNCHANGED <<roots, rootsDisk, dir, budget>>

\* A start that cannot publish its run tries once more, to say that it failed.
PublishFails(p) ==
    /\ pc[p] \in {"publish", "fill", "rename", "pubsync"}
    /\ IF status[p] = "running"
       THEN Go(p, "publish") /\ status' = [status EXCEPT ![p] = "failed"] /\ UNCHANGED <<at, mode, tries, created>>
       ELSE Leave(p)
    /\ UNCHANGED <<fsVars, db, promised, budget>>

\* find_run: roots without a readable run manifest are passed over; a run
\* that failed is found and refused.
Found(id) == id \in roots /\ Has(id, "run-manifest", {"running", "succeeded"})

\* reopen of the root that was found, then the store is opened.
Resume(p, id) ==
    /\ pc[p] = "idle" /\ Spend("resumes") /\ Found(id)
    /\ \A q \in Procs : at[q] # id
    /\ Go(p, "check")
    /\ at' = [at EXCEPT ![p] = id] /\ mode' = [mode EXCEPT ![p] = "resume"]
    /\ UNCHANGED <<fsVars, db, tries, created, status, promised>>

-----------------------------------------------------------------------------
Kill(p) ==
    /\ pc[p] # "idle" /\ Spend("kills")
    /\ Leave(p)
    /\ UNCHANGED <<fsVars, db, promised>>

\* Everything that was not synced may be lost, each name on its own.
PowerLoss ==
    /\ Spend("losses")
    /\ \E kept \in SUBSET (roots \cup rootsDisk) :
          /\ roots \cap rootsDisk \subseteq kept
          /\ roots' = kept /\ rootsDisk' = kept
          /\ \E new \in SUBSET {e \in kept \X Files : disk[e[1]][e[2]] # Lossy(dir[e[1]][e[2]])} :
                dir' = [id \in Ids |-> [f \in Files |->
                           IF id \notin kept THEN None
                           ELSE IF <<id, f>> \in new THEN Lossy(dir[id][f]) ELSE disk[id][f]]]
          /\ disk' = dir'
          /\ \E named \in SUBSET kept :
                /\ \A id \in kept \ named : db[id] # None /\ ~db[id].named
                /\ db' = [id \in Ids |-> IF id \in named THEN Named(db[id]) ELSE None]
    /\ pc' = [p \in Procs |-> "idle"]
    /\ at' = [p \in Procs |-> None] /\ mode' = at' /\ status' = at'
    /\ tries' = [p \in Procs |-> 0] /\ created' = [p \in Procs |-> FALSE]
    /\ UNCHANGED <<promised>>

\* The commands have returned and the bounds are used up.
Done == (\A p \in Procs : pc[p] = "idle") /\ UNCHANGED vars

Next ==
    \/ \E p \in Procs :
          \/ Start(p) \/ InitializeLayout(p) \/ PublishManifest(p) \/ SyncRoot(p) \/ SyncBase(p)
          \/ InitializeFails(p) \/ Rollback(p)
          \/ CheckManifest(p) \/ CreateTmp(p) \/ WriteManifest(p) \/ SyncManifest(p)
          \/ OpenDatabase(p) \/ BindMeta(p) \/ SyncDatabase(p) \/ OpenFails(p)
          \/ SaveInitial(p) \/ LoadLatest(p) \/ Save(p) \/ Finish(p)
          \/ TruncateTmp(p) \/ FillTmp(p) \/ RenameTmp(p) \/ SyncRun(p) \/ PublishFails(p)
          \/ Kill(p)
          \/ \E id \in Ids : CreateRoot(p, id) \/ Collide(p, id) \/ Resume(p, id)
    \/ PowerLoss
    \/ Done

Spec == Init /\ [][Next]_vars

-----------------------------------------------------------------------------
Allocated(id) == id \in roots /\ Entry(id, "layout") # None /\ Has(id, "manifest", {"whole"})

StoreIsUsable(id) == Has(id, "checkpoint-manifest", {"whole"}) /\ db[id] # None /\ db[id].meta /\ db[id].row > 0

\* A run whose start was told it is running is found by every later
\* find_run, in a whole root, with a store that opens and has a checkpoint
\* (write_atomic and SqliteCheckpointStore::open under kills and power loss).
PublishedIsResumable ==
    \A id \in promised :
       Allocated(id) /\ StoreIsUsable(id) /\ Has(id, "run-manifest", {"running", "succeeded", "failed"})

\* Whoever finds a run that is running can resume it, also when its start
\* never got an answer: a start killed inside open leaves a temporary that
\* refuses every later open, and no run manifest that leads anybody there.
VisibleMeansComplete ==
    \A id \in Ids : Found(id) => Allocated(id) /\ StoreIsUsable(id)
=============================================================================
