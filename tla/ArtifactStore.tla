---------------------------- MODULE ArtifactStore ----------------------------
(***************************************************************************)
(* FilesystemArtifactStore: processes that share one root directory stage   *)
(* content into private temporary files and publish it under its digest     *)
(* with a no-replace hard link.  One action per file-system call, so that   *)
(* other processes, a crash or a loss of power can come between two calls.  *)
(* A content stands for its bytes and for their SHA-256 digest.  Directory  *)
(* entries are durable only after the directory is synced: `disk' is what a *)
(* loss of power may bring back, and the root itself comes back for certain *)
(* only once its parent is synced (rootDisk).                               *)
(***************************************************************************)
EXTENDS Integers, FiniteSets

CONSTANTS
    Procs, Contents,
    MaxCapability,  \* bound on the capabilities one process hands out
    Inodes,
    Policies,       \* retention policies set_retention is called with
    Faults,         \* which of the faults below the environment may inject
    NoInode, NoContent

ASSUME FaultAssumption ==
    Faults \subseteq {"write", "unlink", "crash", "power", "foreign", "teardown"}
ASSUME StoreAssumption ==
    MaxCapability \in Nat /\ NoInode \notin Inodes /\ NoContent \notin Contents

Capabilities == 1..MaxCapability
Temp == Contents \X Capabilities
Names == Contents \union Temp          \* final paths and temporary paths
Bytes == Contents \union {"torn", "foreign"}

\* A temporary path is no digest, and a content none of the marks used below.
ASSUME NameAssumption ==
    /\ Contents \intersect Temp = {}
    /\ Contents \intersect {"torn", "foreign", "NotFound", "Collision"} = {}

VARIABLES
    dir, disk,   \* the directory as processes see it, as last synced
    data,        \* the bytes of every inode
    root,        \* the root directory exists
    rootDisk,    \* the entry of this root in its parent is durable
    proc,        \* per process: the call under way and the store it holds
    confirmed,   \* history: contents a sync_published has confirmed
    adopted      \* history: a store uses a root it found before it was durable

files == <<dir, disk, data, root, rootDisk, confirmed, adopted>>
vars == <<dir, disk, data, root, rootDisk, confirmed, adopted, proc>>

\* The calls of try_new that create a root, and those of a store that is open.
Opening == {"absent", "made", "synced"}
Open == {"idle", "checked", "created", "staged", "conflict", "published"}
PC == {"down"} \union Opening \union Open
Result == {"none", "staged", "committed", "synced", "Collision", "Foreign", "Io", "NotFound"}
Retention == {"absent", "Retain"} \union Policies

Proc == [pc : PC, next : 1..(MaxCapability + 1),  \* NEXT_CAPABILITY
         store : 0..MaxCapability,                \* capability of the open store
         content : Contents \union {NoContent},   \* the staged artifact: content,
         temp : 0..MaxCapability,                 \* number of its temporary file,
         handle : Inodes \union {NoInode},        \* its open file while it is written,
         owner : 0..MaxCapability,                \* capability of the minting store
         retention : [Contents -> Retention],
         result : Result]

TypeOK ==
    /\ dir \in [Names -> Inodes \union {NoInode}]
    /\ disk \in [Names -> Inodes \union {NoInode}]
    /\ data \in [Inodes -> Bytes]
    /\ root \in BOOLEAN /\ rootDisk \in BOOLEAN
    /\ proc \in [Procs -> Proc]
    /\ confirmed \subseteq Contents /\ adopted \in BOOLEAN

NoRetention == [c \in Contents |-> "absent"]

Down(result) ==
    [pc |-> "down", next |-> 1, store |-> 0, content |-> NoContent, temp |-> 0,
     handle |-> NoInode, owner |-> 0, retention |-> NoRetention, result |-> result]

Init ==
    /\ dir = [n \in Names |-> NoInode]
    /\ disk = dir
    /\ data = [i \in Inodes |-> "torn"]
    /\ root = FALSE /\ rootDisk = FALSE
    /\ proc = [p \in Procs |-> Down("none")]
    /\ confirmed = {} /\ adopted = FALSE

-----------------------------------------------------------------------------
(* File system.                                                             *)

Exists(n) == dir[n] # NoInode
TempOf(p) == <<proc[p].content, proc[p].temp>>
Visible(c) == Exists(c)
Read(n) == data[dir[n]]
Free == {i \in Inodes : /\ \A n \in Names : dir[n] # i /\ disk[n] # i
                        /\ \A p \in Procs : proc[p].handle # i}
Unlink(n) == [dir EXCEPT ![n] = NoInode]

\* remove_temporary is best effort: the error is dropped.
RemoveTemporary(n) ==
    \/ dir' = Unlink(n)
    \/ "unlink" \in Faults /\ UNCHANGED dir

\* The call under way at p ends with `result' and lets go of its staged token.
Return(p, result) ==
    proc' = [proc EXCEPT ![p].pc = "idle", ![p].content = NoContent,
                         ![p].temp = 0, ![p].handle = NoInode, ![p].owner = 0,
                         ![p].result = result]

\* What a page of artifact c is read from, after the digest check.
ReadPage(c) ==
    CASE ~Visible(c)                  -> "NotFound"
      [] Visible(c) /\ Read(c) # c    -> "Collision"
      [] OTHER                        -> Read(c)

-----------------------------------------------------------------------------
(* Operations.                                                              *)

\* try_new returns a store with a capability of its own; the token of another
\* instance of the process lives on.
Opened(p) ==
    /\ proc[p].next \in Capabilities
    /\ proc' = [proc EXCEPT ![p].pc = IF @ = "staged" THEN @ ELSE "idle",
                            ![p].store = proc[p].next,
                            ![p].next = @ + 1,
                            ![p].retention = NoRetention,
                            ![p].result = "none"]

\* try_new where the root exists: nothing is created, so nothing is synced, not
\* even the entry of a root whose creator has not come to that, or never will.
OpenExisting(p) ==
    /\ proc[p].pc \in {"down", "idle", "staged"}
    /\ root
    /\ Opened(p)
    /\ adopted' = (adopted \/ ~rootDisk)
    /\ UNCHANGED <<dir, disk, data, root, rootDisk, confirmed>>

\* try_new finds no root.  (The missing ancestors stand and fall with the root.)
OpenAbsent(p) ==
    /\ proc[p].pc \in {"down", "idle"}
    /\ proc[p].next \in Capabilities
    /\ ~root
    /\ proc' = [proc EXCEPT ![p].pc = "absent", ![p].result = "none"]
    /\ UNCHANGED files

\* try_new, create_dir_all: content with a root another process made meanwhile.
\* A store that outlived its remove_all finds itself in the new root.
OpenCreate(p) ==
    /\ proc[p].pc = "absent"
    /\ root' = TRUE
    /\ adopted' = (adopted \/ (~root /\ \E q \in Procs : proc[q].pc \in Open))
    /\ proc' = [proc EXCEPT ![p].pc = "made"]
    /\ UNCHANGED <<dir, disk, data, rootDisk, confirmed>>

\* try_new, sync_all of the directory it created.
OpenSync(p) ==
    /\ proc[p].pc = "made"
    /\ disk' = dir
    /\ proc' = [proc EXCEPT ![p].pc = "synced"]
    /\ UNCHANGED <<dir, data, root, rootDisk, confirmed, adopted>>

\* Slip: the directory is synced, its entry in the parent is not.
OpenSkipsParent(p) ==
    /\ proc[p].pc = "synced"
    /\ Opened(p)
    /\ UNCHANGED files

\* try_new, sync_all of its parent, which makes the root's entry durable.
OpenSyncParent(p) ==
    /\ proc[p].pc = "synced"
    /\ rootDisk' = TRUE
    /\ Opened(p)
    /\ UNCHANGED <<dir, disk, data, root, confirmed, adopted>>

\* try_new, one of its calls fails: what was created stays, and a store that
\* outlived its remove_all is used on.
OpenFails(p) ==
    /\ "write" \in Faults
    /\ proc[p].pc \in Opening
    /\ proc' = [proc EXCEPT ![p].pc = IF proc[p].store = 0 THEN "down" ELSE "idle",
                            ![p].result = "Io"]
    /\ adopted' = (adopted \/ (proc[p].store # 0 /\ root /\ ~rootDisk))
    /\ UNCHANGED <<dir, disk, data, root, rootDisk, confirmed>>

\* stage, the early comparison with content that is already visible.
StageCheck(p, c) ==
    /\ proc[p].pc = "idle"
    /\ \/ /\ ReadPage(c) \in {"NotFound", c}
          /\ proc[p].next \in Capabilities
          /\ proc' = [proc EXCEPT ![p].pc = "checked", ![p].content = c,
                                  ![p].temp = proc[p].next, ![p].next = @ + 1,
                                  ![p].owner = proc[p].store,
                                  ![p].result = "none"]
       \/ /\ ReadPage(c) = "Collision"
          /\ Return(p, "Collision")
    /\ UNCHANGED files

\* Slip: the bytes are written under the final path.
StageCreateInPlace(p) ==
    /\ proc[p].pc = "checked"
    /\ root /\ ~Visible(proc[p].content)
    /\ \E i \in Free :
          /\ dir' = [dir EXCEPT ![proc[p].content] = i]
          /\ data' = [data EXCEPT ![i] = "torn"]
          /\ proc' = [proc EXCEPT ![p].pc = "created", ![p].handle = i]
    /\ UNCHANGED <<disk, root, rootDisk, confirmed, adopted>>

\* stage, OpenOptions::create_new of `.tmp-<id>-<capability>'.
StageCreate(p) ==
    /\ proc[p].pc = "checked"
    /\ \/ /\ root /\ ~Exists(TempOf(p))
          /\ \E i \in Free :
                /\ dir' = [dir EXCEPT ![TempOf(p)] = i]
                /\ data' = [data EXCEPT ![i] = "torn"]
                /\ proc' = [proc EXCEPT ![p].pc = "created", ![p].handle = i]
       \/ /\ root /\ Exists(TempOf(p))
          /\ Return(p, "Io")
          /\ UNCHANGED <<dir, data>>
       \/ /\ ~root
          /\ Return(p, "NotFound")
          /\ UNCHANGED <<dir, data>>
    /\ UNCHANGED <<disk, root, rootDisk, confirmed, adopted>>

\* stage, write_all and sync_all; a failure removes the file.
StageWrite(p) ==
    /\ proc[p].pc = "created"
    /\ \/ /\ data' = [data EXCEPT ![proc[p].handle] = proc[p].content]
          /\ proc' = [proc EXCEPT ![p].pc = "staged", ![p].handle = NoInode,
                                  ![p].result = "staged"]
          /\ UNCHANGED dir
       \/ /\ "write" \in Faults
          /\ RemoveTemporary(TempOf(p))
          /\ Return(p, "Io")
          /\ UNCHANGED data
    /\ UNCHANGED <<disk, root, rootDisk, confirmed, adopted>>

\* commit, fs::hard_link.
CommitLink(p) ==
    /\ proc[p].pc = "staged" /\ proc[p].owner = proc[p].store
    /\ \/ /\ Exists(TempOf(p)) /\ ~Visible(proc[p].content)
          /\ dir' = [dir EXCEPT ![proc[p].content] = dir[TempOf(p)]]
          /\ proc' = [proc EXCEPT ![p].pc = "published"]
       \/ /\ Exists(TempOf(p)) /\ Visible(proc[p].content)
          /\ proc' = [proc EXCEPT ![p].pc = "conflict"]
          /\ UNCHANGED dir
       \/ /\ ~Exists(TempOf(p))
          /\ Return(p, "NotFound")
          /\ UNCHANGED dir
    /\ UNCHANGED <<disk, data, root, rootDisk, confirmed, adopted>>

\* commit, the path exists: both files are read back and compared.
CommitCompare(p) ==
    /\ proc[p].pc = "conflict"
    /\ \/ /\ Visible(proc[p].content) /\ Exists(TempOf(p))
          /\ Read(proc[p].content) = Read(TempOf(p))
          /\ proc' = [proc EXCEPT ![p].pc = "published"]
          /\ UNCHANGED dir
       \/ /\ Visible(proc[p].content) /\ Exists(TempOf(p))
          /\ Read(proc[p].content) # Read(TempOf(p))
          /\ RemoveTemporary(TempOf(p))
          /\ Return(p, "Collision")
       \/ /\ {proc[p].content, TempOf(p)} \ {n \in Names : Exists(n)} # {}
          /\ RemoveTemporary(TempOf(p))
          /\ Return(p, "NotFound")
    /\ UNCHANGED <<disk, data, root, rootDisk, confirmed, adopted>>

\* commit, after visibility: the temporary link goes, the retention entry comes.
CommitClean(p) ==
    /\ proc[p].pc = "published"
    /\ RemoveTemporary(TempOf(p))
    /\ proc' = [proc EXCEPT
          ![p].retention[proc[p].content] = IF @ = "absent" THEN "Retain" ELSE @,
          ![p].pc = "idle", ![p].content = NoContent, ![p].temp = 0,
          ![p].owner = 0, ![p].result = "committed"]
    /\ UNCHANGED <<disk, data, root, rootDisk, confirmed, adopted>>

\* commit of a token minted by another instance: refused, and the token drops.
CommitForeign(p) ==
    /\ proc[p].pc = "staged" /\ proc[p].owner # proc[p].store
    /\ RemoveTemporary(TempOf(p))
    /\ Return(p, "Foreign")
    /\ UNCHANGED <<disk, data, root, rootDisk, confirmed, adopted>>

\* Drop of an uncommitted token.
DropStaged(p) ==
    /\ proc[p].pc = "staged"
    /\ RemoveTemporary(TempOf(p))
    /\ Return(p, "none")
    /\ UNCHANGED <<disk, data, root, rootDisk, confirmed, adopted>>

\* sync_published: fsync of the root.
SyncPublished(p) ==
    /\ proc[p].pc = "idle"
    /\ \/ /\ root
          /\ disk' = dir
          /\ confirmed' = confirmed \union {c \in Contents : ReadPage(c) = c}
          /\ proc' = [proc EXCEPT ![p].result = "synced"]
       \/ /\ root => "write" \in Faults
          /\ proc' = [proc EXCEPT ![p].result = IF root THEN "Io" ELSE "NotFound"]
          /\ UNCHANGED <<disk, confirmed>>
    /\ UNCHANGED <<dir, data, root, rootDisk, adopted>>

SetRetention(p, c, policy) ==
    /\ proc[p].pc = "idle"
    /\ proc' = IF Visible(c)
               THEN [proc EXCEPT ![p].retention[c] = policy, ![p].result = "none"]
               ELSE [proc EXCEPT ![p].result = "NotFound"]
    /\ UNCHANGED files

\* remove_all by a host that has the root to itself and no token outstanding.
\* The removal itself is not synced.
RemoveAll(p) ==
    /\ "teardown" \in Faults
    /\ proc[p].pc = "idle" /\ root
    /\ \A q \in Procs \ {p} : proc[q].pc = "down"
    /\ dir' = [n \in Names |-> NoInode]
    /\ root' = FALSE /\ rootDisk' = FALSE
    /\ confirmed' = {} /\ adopted' = FALSE
    /\ proc' = [proc EXCEPT ![p].result = "none"]
    /\ UNCHANGED <<disk, data>>

-----------------------------------------------------------------------------
(* Environment.                                                             *)

\* The process dies between two calls: no Drop runs, the counter restarts.
Crash(p) ==
    /\ "crash" \in Faults /\ proc[p].pc # "down"
    /\ proc' = [proc EXCEPT ![p] = Down("none")]
    /\ UNCHANGED files

\* The root is lost unless its entry was durable; in a root that is back, every
\* entry is as it was at the last sync or as it was seen last.
PowerLoss ==
    /\ "power" \in Faults
    /\ root' \in BOOLEAN
    /\ rootDisk => root'
    /\ root' => root \/ \E n \in Names : disk[n] # NoInode
    /\ dir' \in {d \in [Names -> Inodes \union {NoInode}] :
                    \A n \in Names : d[n] \in IF root' THEN {dir[n], disk[n]} ELSE {NoInode}}
    /\ disk' = dir' /\ rootDisk' = root'
    /\ proc' = [p \in Procs |-> Down("none")]
    /\ UNCHANGED <<data, confirmed, adopted>>

\* Another program leaves different bytes under a final path.
ForeignFile(c) ==
    /\ "foreign" \in Faults /\ root /\ ~Visible(c)
    /\ \E i \in Free :
          /\ dir' = [dir EXCEPT ![c] = i]
          /\ data' = [data EXCEPT ![i] = "foreign"]
    /\ UNCHANGED <<disk, root, rootDisk, confirmed, adopted, proc>>

Next ==
    \/ \E p \in Procs :
          \/ OpenExisting(p) \/ OpenAbsent(p) \/ OpenCreate(p)
          \/ OpenSync(p) \/ OpenSyncParent(p) \/ OpenFails(p)
          \/ \E c \in Contents : StageCheck(p, c)
          \/ StageCreate(p) \/ StageWrite(p)
          \/ CommitLink(p) \/ CommitCompare(p) \/ CommitClean(p)
          \/ CommitForeign(p) \/ DropStaged(p) \/ SyncPublished(p)
          \/ \E c \in Contents, policy \in Policies :
                SetRetention(p, c, policy)
          \/ RemoveAll(p) \/ Crash(p)
    \/ PowerLoss
    \/ \E c \in Contents : ForeignFile(c)

Spec == Init /\ [][Next]_vars

-----------------------------------------------------------------------------
(* Properties.                                                              *)

\* What is visible under a digest is whole: never the torn prefix of a write
\* under way, however processes that count from one share temporary names.
VisibleIsWhole ==
    \A c \in Contents : Visible(c) => Read(c) \in {c, "foreign"}

\* What sync_published has confirmed is readable from then on, through crashes
\* and losses of power, until the store is torn down, as long as no store came
\* to use a root whose creator had not synced the entry of it.
ConfirmedSurvives ==
    adopted \/ \A c \in confirmed : ReadPage(c) = c
=============================================================================
