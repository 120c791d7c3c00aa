------------------------------ MODULE NodeCache ------------------------------
(***************************************************************************)
(* NodeResultCache and its one production user, FencedModel: runs that      *)
(* share a cache directory look a node result up, call the model when there *)
(* is none, and store what the acceptance callback admits.  One action per  *)
(* file-system call of put, invalidate and gc, so that other runs, a crash  *)
(* or a loss of power can come between two of them.  An entry is the output *)
(* it holds, or what is wrong with it.  `disk' is the directory as of its   *)
(* last sync.                                                               *)
(***************************************************************************)
EXTENDS Integers, FiniteSets

CONSTANTS
    Runs,
    Keys,         \* key digests
    Outputs,      \* what the model can answer
    MaxEntries,   \* NodeCacheRetention.max_entries
    Faults,       \* subset of {"crash", "power", "damage", "tmp"}
    Nothing

\* verify_entry answers Invalid for the first two (no entry at all, or the
\* entry of another key); the third is a hit that is not a success.
Unusable == {"corrupt", "misplaced", "negative"}
Entries == Outputs \union Unusable \union {Nothing}

ASSUME CacheAssumption ==
    /\ Keys # {} /\ MaxEntries \in Nat
    /\ Nothing \notin Outputs \union Unusable
    /\ Outputs \intersect Unusable = {}

VARIABLES
    ent, disk,    \* directory `entries', as seen and as last synced
    run,          \* per run: the node call under way
    gc,           \* gc under way: the paths still to remove, or Idle
    accepted,     \* history: outputs of real model calls admitted per key
    promised,     \* history: what a key holds, as the last call told its caller
    solo          \* history: the runs whose call on their key nobody else's overlapped

cacheVars == <<ent, disk, run, gc, accepted, promised, solo>>

PC == {"idle", "invalidate", "invalidated", "model", "returned", "link", "compare",
       "remove", "removed", "relink", "recheck", "sync", "done"}
Disposition == {"none", "reused", "reexecuted", "recorded"}
Idle == [active |-> FALSE, paths |-> {}]
Unknown == "unknown"

NodeCall == [pc : PC, key : Keys \union {Nothing}, output : Outputs \union {Nothing},
             called : BOOLEAN, disposition : Disposition]

CacheTypeOK ==
    /\ ent \in [Keys -> Entries] /\ disk \in [Keys -> Entries]
    /\ run \in [Runs -> NodeCall]
    /\ gc \in [active : BOOLEAN, paths : SUBSET Keys]
    /\ accepted \in [Keys -> SUBSET Outputs]
    /\ promised \in [Keys -> Outputs \union {Nothing, Unknown}] /\ solo \subseteq Runs

Fresh == [pc |-> "idle", key |-> Nothing, output |-> Nothing, called |-> FALSE,
          disposition |-> "none"]

CacheInit ==
    /\ ent = [k \in Keys |-> Nothing] /\ disk = ent
    /\ run = [r \in Runs |-> Fresh]
    /\ gc = Idle
    /\ accepted = [k \in Keys |-> {}]
    /\ promised = [k \in Keys |-> Nothing] /\ solo = {}

-----------------------------------------------------------------------------
(* File system.                                                             *)

Set(k, e) ==
    /\ ent' = [ent EXCEPT ![k] = e]
    /\ UNCHANGED <<disk, promised, solo>>

Keep == UNCHANGED <<ent, disk, promised, solo>>

\* A put or an invalidate is under way, and may still change the key's entry.
Changing == {"invalidate", "invalidated", "link", "compare", "remove", "removed",
             "relink", "recheck", "sync"}
Busy(r, k) == run[r].pc \in Changing /\ run[r].key = k

\* A call on key k begins: it is alone if no other, and no gc, is at work on k;
\* those that are at work are no longer alone.
Begin(r, k) ==
    solo' = {x \in solo : run[x].key # k}
               \union (IF k \notin gc.paths /\ ~\E x \in Runs : Busy(x, k) THEN {r} ELSE {})

\* A call that was alone answers Ok: its key holds e, says the caller.
Promise(r, e) ==
    promised' = IF r \in solo THEN [promised EXCEPT ![run[r].key] = e] ELSE promised

\* Slip: the sync of the directory is left out.
SyncEntriesSkipped(r, e) == Promise(r, e) /\ solo' = solo \ {r} /\ UNCHANGED <<ent, disk>>

\* sync_entries, the last step of a call that answers Ok.
SyncEntries(r, e) == disk' = ent /\ Promise(r, e) /\ solo' = solo \ {r} /\ UNCHANGED ent

Go(r, pc) == run' = [run EXCEPT ![r].pc = pc]
End(r, disposition) == run' = [run EXCEPT ![r].pc = "done", ![r].disposition = disposition]

-----------------------------------------------------------------------------
(* FencedModel::generate_content.                                           *)

\* What NodeResultCache::lookup makes of the file at the key's path.
CacheLookup(k) ==
    CASE ent[k] = Nothing -> "miss"
      [] ent[k] = "negative" -> "negative"
      [] ent[k] \in {"corrupt", "misplaced"} -> "invalid"
      [] OTHER -> "success"

\* Slip: the digest of the entry is not compared with the digest asked for.
LookupIgnoresDigest(r, k) ==
    /\ run[r].pc = "idle"
    /\ \/ /\ CacheLookup(k) \in {"success", "invalid"}
          /\ \E o \in (IF ent[k] = "misplaced" THEN Outputs ELSE {ent[k]} \intersect Outputs) :
                run' = [run EXCEPT ![r].pc = "done", ![r].key = k, ![r].output = o,
                                   ![r].disposition = "reused"]
       \/ /\ CacheLookup(k) = "miss"
          /\ run' = [run EXCEPT ![r].pc = "model", ![r].key = k]
    /\ Keep /\ UNCHANGED <<gc, accepted>>

\* Reuse a verified success, invalidate anything else that is there, or go on
\* to the model.
Lookup(r, k) ==
    /\ run[r].pc = "idle"
    /\ \/ /\ CacheLookup(k) = "success"
          /\ run' = [run EXCEPT ![r].pc = "done", ![r].key = k, ![r].output = ent[k],
                                ![r].disposition = "reused"]
          /\ UNCHANGED solo
       \/ /\ CacheLookup(k) \in {"negative", "invalid"}
          /\ run' = [run EXCEPT ![r].pc = "invalidate", ![r].key = k]
          /\ Begin(r, k)
       \/ /\ CacheLookup(k) = "miss"
          /\ run' = [run EXCEPT ![r].pc = "model", ![r].key = k]
          /\ UNCHANGED solo
    /\ UNCHANGED <<ent, disk, promised, gc, accepted>>

\* invalidate: remove_file, NotFound included.
InvalidateRemove(r) ==
    /\ run[r].pc = "invalidate"
    /\ Set(run[r].key, Nothing)
    /\ Go(r, "invalidated")
    /\ UNCHANGED <<gc, accepted>>

InvalidateSync(r) ==
    /\ run[r].pc = "invalidated"
    /\ SyncEntries(r, Nothing)
    /\ run' = [run EXCEPT ![r].pc = "model", ![r].disposition = "reexecuted"]
    /\ UNCHANGED <<gc, accepted>>

\* The inner model answers and the answer is pending.
Model(r, o) ==
    /\ run[r].pc = "model"
    /\ run' = [run EXCEPT ![r].pc = "returned", ![r].called = TRUE, ![r].output = o]
    /\ Keep /\ UNCHANGED <<gc, accepted>>

\* persist_accepted_node_result: the callback admits the pending output, or
\* nothing is stored: the model failed, did not finish, or finished with
\* something else.
\* A promise of another output ends where its replacement begins.
Accept(r) ==
    /\ run[r].pc = "returned"
    /\ \/ /\ accepted' = [accepted EXCEPT ![run[r].key] = @ \union {run[r].output}]
          /\ Go(r, "link") /\ Begin(r, run[r].key)
          /\ promised' = [promised EXCEPT ![run[r].key] = IF @ = run[r].output THEN @ ELSE Unknown]
       \/ /\ run' = [run EXCEPT ![r].pc = "done", ![r].output = Nothing]
          /\ UNCHANGED <<accepted, promised, solo>>
    /\ UNCHANGED <<ent, disk, gc>>

-----------------------------------------------------------------------------
(* put.  The temporary file has a random name and belongs to this call.     *)

\* A put that fails is not reported: the node keeps its disposition.
PutFails(r) ==
    /\ End(r, run[r].disposition)
    /\ solo' = solo \ {r} /\ UNCHANGED <<ent, disk, promised>>

\* create_tmp fails, or the node output could not be written.
PutTmpFails(r) ==
    /\ "tmp" \in Faults /\ run[r].pc = "link"
    /\ PutFails(r)
    /\ UNCHANGED <<gc, accepted>>

PutLink(r) ==
    /\ run[r].pc = "link"
    /\ \/ ent[run[r].key] = Nothing /\ Set(run[r].key, run[r].output) /\ Go(r, "sync")
       \/ ent[run[r].key] # Nothing /\ Keep /\ Go(r, "compare")
    /\ UNCHANGED <<gc, accepted>>

PutCompare(r) ==
    /\ run[r].pc = "compare"
    /\ \/ ent[run[r].key] = run[r].output /\ Keep /\ Go(r, "sync")
       \/ ent[run[r].key] \notin {run[r].output, Nothing} /\ Keep /\ Go(r, "remove")
       \/ ent[run[r].key] = Nothing /\ PutFails(r)
    /\ UNCHANGED <<gc, accepted>>

\* What is removed need not be what was compared.
PutRemove(r) ==
    /\ run[r].pc = "remove"
    /\ \/ ent[run[r].key] # Nothing /\ Set(run[r].key, Nothing) /\ Go(r, "removed")
       \/ ent[run[r].key] = Nothing /\ PutFails(r)
    /\ UNCHANGED <<gc, accepted>>

PutRemoveSync(r) ==
    /\ run[r].pc = "removed"
    /\ disk' = ent /\ UNCHANGED <<ent, promised, solo>>
    /\ Go(r, "relink")
    /\ UNCHANGED <<gc, accepted>>

\* Slip: a lost race starts the comparison over.
PutRelinkRetries(r) ==
    /\ run[r].pc = "relink"
    /\ \/ ent[run[r].key] = Nothing /\ Set(run[r].key, run[r].output) /\ Go(r, "sync")
       \/ ent[run[r].key] # Nothing /\ Keep /\ Go(r, "compare")
    /\ UNCHANGED <<gc, accepted>>

PutRelink(r) ==
    /\ run[r].pc = "relink"
    /\ \/ ent[run[r].key] = Nothing /\ Set(run[r].key, run[r].output) /\ Go(r, "sync")
       \/ ent[run[r].key] # Nothing /\ Keep /\ Go(r, "recheck")
    /\ UNCHANGED <<gc, accepted>>

PutRecheck(r) ==
    /\ run[r].pc = "recheck"
    /\ \/ ent[run[r].key] = run[r].output /\ Keep /\ Go(r, "sync")
       \/ ent[run[r].key] # run[r].output /\ PutFails(r)
    /\ UNCHANGED <<gc, accepted>>

\* The last sync; a node that was re-executed is not reported as recorded.
PutSync(r) ==
    /\ run[r].pc = "sync"
    /\ SyncEntries(r, run[r].output)
    /\ End(r, IF run[r].disposition = "reexecuted" THEN "reexecuted" ELSE "recorded")
    /\ UNCHANGED <<gc, accepted>>

\* The node is called again, by a loop of the same run, whose dispositions
\* stay, or by a new run.
Again(r) ==
    /\ run[r].pc = "done"
    /\ run' \in {[run EXCEPT ![r] = Fresh],
                [run EXCEPT ![r] = [Fresh EXCEPT !.disposition = run[r].disposition]]}
    /\ Keep /\ UNCHANGED <<gc, accepted>>

-----------------------------------------------------------------------------
(* gc: a snapshot of the entries that verify, some of which are removed: the  *)
(* lowest digests first, and which keys these are is not known here.          *)

\* inspect: a misplaced entry verifies when no digest is asked for.
Inspected == {k \in Keys : ent[k] \in Outputs \union {"negative", "misplaced"}}

GcStart ==
    /\ ~gc.active
    /\ Cardinality(Inspected) > MaxEntries
    /\ \E paths \in SUBSET Inspected :
          /\ Cardinality(paths) = Cardinality(Inspected) - MaxEntries
          /\ gc' = [active |-> TRUE, paths |-> paths]
          /\ promised' = [k \in Keys |-> IF k \in paths THEN Unknown ELSE promised[k]]
          /\ solo' = {r \in solo : run[r].key \notin paths}
    /\ UNCHANGED <<ent, disk, run, accepted>>

\* remove_file of the next path; a path that is gone ends gc with Io.
GcRemove ==
    /\ gc.active
    /\ \E k \in gc.paths :
          \/ /\ ent[k] # Nothing
             /\ Set(k, Nothing)
             /\ gc' = [gc EXCEPT !.paths = @ \ {k}]
          \/ /\ ent[k] = Nothing
             /\ Keep
             /\ gc' = Idle
    /\ UNCHANGED <<run, accepted>>

GcSync ==
    /\ gc.active /\ gc.paths = {}
    /\ disk' = ent /\ UNCHANGED <<ent, promised, solo>>
    /\ gc' = Idle
    /\ UNCHANGED <<run, accepted>>

-----------------------------------------------------------------------------
(* Environment.                                                             *)

\* The process of a run dies: a temporary file may stay, no entry changes.
Crash(r) ==
    /\ "crash" \in Faults /\ run[r].pc \notin {"idle", "done"}
    /\ run' = [run EXCEPT ![r] = Fresh] /\ solo' = solo \ {r}
    /\ UNCHANGED <<ent, disk, promised, gc, accepted>>

\* Every entry is as it was at the last sync or as it is now.
PowerLoss ==
    /\ "power" \in Faults
    /\ ent' \in {e \in [Keys -> Entries] : \A k \in Keys : e[k] \in {ent[k], disk[k]}}
    /\ disk' = ent'
    /\ run' = [r \in Runs |-> Fresh] /\ gc' = Idle
    /\ solo' = {}
    /\ UNCHANGED <<accepted, promised>>

\* Bit rot, an older schema, a copied file, or a negative entry of the host.
Damage(k, e) ==
    /\ "damage" \in Faults
    /\ ent' = [ent EXCEPT ![k] = e] /\ disk' = [disk EXCEPT ![k] = e]
    /\ promised' = [promised EXCEPT ![k] = Unknown]
    /\ solo' = {r \in solo : run[r].key # k}
    /\ UNCHANGED <<run, gc, accepted>>

CacheNext ==
    \/ \E r \in Runs :
          \/ \E k \in Keys : Lookup(r, k)
          \/ InvalidateRemove(r) \/ InvalidateSync(r)
          \/ \E o \in Outputs : Model(r, o)
          \/ Accept(r) \/ PutTmpFails(r)
          \/ PutLink(r) \/ PutCompare(r) \/ PutRemove(r) \/ PutRemoveSync(r)
          \/ PutRelink(r) \/ PutRecheck(r) \/ PutSync(r)
          \/ Again(r) \/ Crash(r)
    \/ GcStart \/ GcRemove \/ GcSync
    \/ PowerLoss
    \/ \E k \in Keys, e \in Unusable : Damage(k, e)

CacheSpec == CacheInit /\ [][CacheNext]_cacheVars

\* Each step of a run is a file-system call or a bounded model call.
Step(r) ==
    \/ InvalidateRemove(r) \/ InvalidateSync(r) \/ (\E o \in Outputs : Model(r, o))
    \/ Accept(r) \/ PutLink(r) \/ PutCompare(r) \/ PutRemove(r) \/ PutRemoveSync(r)
    \/ PutRelink(r) \/ PutRecheck(r) \/ PutSync(r)

CacheFairSpec == CacheSpec /\ \A r \in Runs : WF_cacheVars(Step(r))

-----------------------------------------------------------------------------
(* Properties.                                                              *)

\* The store is fail-closed, whichever runs race for a key, wherever one of
\* them dies and whatever damages the entry: only an output that a model call
\* for this key returned and the acceptance callback admitted is stored as a
\* usable entry, or ends a node call that made no model call.
OnlyAccepted ==
    /\ \A k \in Keys : ent[k] \in Outputs => ent[k] \in accepted[k]
    /\ \A r \in Runs : run[r].pc = "done" /\ ~run[r].called => run[r].output \in accepted[run[r].key]

\* A put that answered Ok did store its output, over whatever entry it found,
\* and an invalidate that did removed the entry, provided no other call on the
\* key overlapped it; and that lasts, through reuse, calls that store the same
\* output again, crashes and losses of power, until a run is about to store
\* another output, gc collects the entry or something damages it.  (A call that
\* overlaps may remove what another has just confirmed: publish removes the
\* entry at the path, not the one it compared.)
PromiseSurvives ==
    \A k \in Keys : promised[k] # Unknown => ent[k] = promised[k]

\* However runs and gc race for a key, a node call ends: put gives up after
\* its second attempt instead of trying until it wins.
NodeCompletes ==
    \A r \in Runs : run[r].pc = "link" ~> run[r].pc \in {"done", "idle"}
=============================================================================
