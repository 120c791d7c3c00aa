----------------------------- MODULE Host_proofs -----------------------------
(***************************************************************************)
(* Proofs about what the host keeps and runs: the files of the artifact    *)
(* store, and the processes of the sandbox.                                *)
(*                                                                         *)
(* ArtifactStore: for any processes, contents, capabilities, inodes and    *)
(* faults, what is visible under a digest is whole, and what a sync has    *)
(* confirmed survives crashes and losses of power.                         *)
(*                                                                         *)
(* SandboxProcess: for any wall time, timeouts and limits, a receipt       *)
(* accounts for every byte of a process that is gone, an output stage      *)
(* outlives everybody who may write to it, and an execution with a wall    *)
(* time is over in time.                                                   *)
(***************************************************************************)
EXTENDS ArtifactStore, SandboxProcess, TLAPS

(***************************************************************************)
(* ArtifactStore.                                                          *)
(***************************************************************************)

\* The calls that have created their temporary file and not removed it, and
\* those of them that have written it.
Owning == {"created", "staged", "conflict", "published"}
Written == {"staged", "conflict", "published"}

\* A call under way knows its content and the number of its temporary file.
TokenKnown ==
    \A p \in Procs : proc[p].pc \in Owning \union {"checked"} =>
        proc[p].content \in Contents /\ proc[p].temp \in Capabilities

\* create_new gives a temporary name to one call at a time, though every
\* process counts from one, and the name stays until that call removes it.
OneOwner ==
    /\ \A p \in Procs : proc[p].pc \in Owning => Exists(TempOf(p))
    /\ \A p, q \in Procs :
          proc[p].pc \in Owning /\ proc[q].pc \in Owning /\ TempOf(p) = TempOf(q) => p = q

\* A file that is being written has no other name, now or on the disk.
HandleIsPrivate ==
    \A p \in Procs :
        IF proc[p].pc = "created"
        THEN /\ proc[p].handle \in Inodes /\ dir[TempOf(p)] = proc[p].handle
             /\ \A n \in Names \ {TempOf(p)} : dir[n] # proc[p].handle /\ disk[n] # proc[p].handle
        ELSE proc[p].handle = NoInode

\* A staged file holds its content until it is removed.
StagedIsWhole ==
    \A p \in Procs : proc[p].pc \in Written => data[dir[TempOf(p)]] = proc[p].content

\* Both directories name whole files under a digest.
FinalIsWhole ==
    \A c \in Contents :
        /\ dir[c] # NoInode => data[dir[c]] \in {c, "foreign"}
        /\ disk[c] # NoInode => data[disk[c]] \in {c, "foreign"}

\* A confirmed content is under its digest in both directories.
ConfirmedIsDurable ==
    adopted \/ \A c \in confirmed : /\ dir[c] # NoInode /\ data[dir[c]] = c
                                    /\ disk[c] # NoInode /\ data[disk[c]] = c

\* A root that comes back is there.  Until its creator has synced the entry of
\* it no store is open in it, and nothing is confirmed in a root that may be lost.
RootInv ==
    /\ rootDisk => root
    /\ \A p \in Procs : proc[p].pc \in {"made", "synced"} => root
    /\ ~adopted /\ root /\ ~rootDisk => \A p \in Procs : proc[p].pc \notin Open
    /\ ~adopted /\ confirmed # {} => rootDisk

FileInv == TypeOK /\ TokenKnown /\ OneOwner /\ HandleIsPrivate /\ StagedIsWhole
           /\ FinalIsWhole /\ ConfirmedIsDurable

IInv == FileInv /\ RootInv

\* What any step but remove_all does to the root.
RootMoves == /\ root' \in BOOLEAN /\ rootDisk' \in BOOLEAN /\ adopted' \in BOOLEAN
             /\ adopted => adopted'

-----------------------------------------------------------------------------
(* Lemmas about the helpers.                                                *)

\* A process stays a process when one of its fields is set.
LEMMA SetField ==
    ASSUME NEW s \in Proc
    PROVE  /\ \A x \in PC : [s EXCEPT !.pc = x] \in Proc
           /\ \A x \in 1..(MaxCapability + 1) : [s EXCEPT !.next = x] \in Proc
           /\ \A x \in 0..MaxCapability : [s EXCEPT !.store = x] \in Proc
           /\ \A x \in Contents \union {NoContent} : [s EXCEPT !.content = x] \in Proc
           /\ \A x \in 0..MaxCapability : [s EXCEPT !.temp = x] \in Proc
           /\ \A x \in Inodes \union {NoInode} : [s EXCEPT !.handle = x] \in Proc
           /\ \A x \in 0..MaxCapability : [s EXCEPT !.owner = x] \in Proc
           /\ \A x \in [Contents -> Retention] : [s EXCEPT !.retention = x] \in Proc
           /\ \A x \in Result : [s EXCEPT !.result = x] \in Proc
BY DEF Proc

\* What the invariant reads of a process: its step and its token.
SameToken(s, t) == s.pc = t.pc /\ s.content = t.content /\ s.temp = t.temp /\ s.handle = t.handle

\* Setting another field leaves what the invariant reads of a process alone.
LEMMA KeptFields ==
    ASSUME NEW s \in Proc, NEW x
    PROVE  /\ SameToken(s, [s EXCEPT !.next = x]) /\ SameToken(s, [s EXCEPT !.store = x])
           /\ SameToken(s, [s EXCEPT !.owner = x]) /\ SameToken(s, [s EXCEPT !.result = x])
           /\ SameToken(s, [s EXCEPT !.retention = x])
           /\ LET t == [s EXCEPT !.pc = x] IN
                 t.pc = x /\ t.content = s.content /\ t.temp = s.temp /\ t.handle = s.handle
           /\ LET t == [s EXCEPT !.content = x] IN
                 t.pc = s.pc /\ t.content = x /\ t.temp = s.temp /\ t.handle = s.handle
           /\ LET t == [s EXCEPT !.temp = x] IN
                 t.pc = s.pc /\ t.content = s.content /\ t.temp = x /\ t.handle = s.handle
           /\ LET t == [s EXCEPT !.handle = x] IN
                 t.pc = s.pc /\ t.content = s.content /\ t.temp = s.temp /\ t.handle = x
BY DEF Proc, SameToken

\* What a call that returns leaves of its process.
LEMMA ReturnFacts ==
    ASSUME proc \in [Procs -> Proc], NEW p \in Procs, NEW x \in Result, Return(p, x)
    PROVE  \E r \in Proc : /\ proc' = [proc EXCEPT ![p] = r]
                           /\ r.pc = "idle" /\ r.handle = NoInode
<1> DEFINE r1 == [proc[p] EXCEPT !.pc = "idle"]
           r2 == [r1 EXCEPT !.content = NoContent]
           r3 == [r2 EXCEPT !.temp = 0]
           r4 == [r3 EXCEPT !.handle = NoInode]
           r5 == [r4 EXCEPT !.owner = 0]
           r6 == [r5 EXCEPT !.result = x]
<1>1. proc' = [proc EXCEPT ![p] = r6]
  BY DEF Return, Proc
<1>0. "idle" \in PC /\ 0 \in 0..MaxCapability
  BY StoreAssumption DEF PC, Opening, Open
<1>2. proc[p] \in Proc
  OBVIOUS
<1>3. r1 \in Proc /\ r1.pc = "idle"
  BY <1>0, <1>2, SetField, KeptFields DEF SameToken
<1> HIDE DEF r1
<1>4. r2 \in Proc /\ r2.pc = "idle"
  BY <1>3, SetField, KeptFields DEF SameToken
<1> HIDE DEF r2
<1>5. r3 \in Proc /\ r3.pc = "idle"
  BY <1>0, <1>4, SetField, KeptFields DEF SameToken
<1> HIDE DEF r3
<1>6. r4 \in Proc /\ r4.pc = "idle" /\ r4.handle = NoInode
  <2>1. r4 \in Proc
    BY <1>5, SetField
  <2>2. r4.pc = r3.pc /\ r4.handle = NoInode
    BY <1>5, KeptFields
  <2>3. QED
    BY <1>5, <2>1, <2>2
<1> HIDE DEF r4
<1>7. r5 \in Proc /\ r5.pc = "idle" /\ r5.handle = NoInode
  BY <1>0, <1>6, SetField, KeptFields DEF SameToken
<1> HIDE DEF r5
<1>8. r6 \in Proc /\ r6.pc = "idle" /\ r6.handle = NoInode
  BY <1>7, SetField, KeptFields DEF SameToken
<1>9. QED
  BY <1>1, <1>8


\* What try_new leaves of its process: the token of a live store instance stays.
LEMMA OpenFacts ==
    ASSUME proc \in [Procs -> Proc], NEW p \in Procs, Opened(p)
    PROVE  \E r \in Proc : /\ proc' = [proc EXCEPT ![p] = r]
                           /\ r.pc = IF proc[p].pc = "staged" THEN "staged" ELSE "idle"
                           /\ r.content = proc[p].content /\ r.temp = proc[p].temp
                           /\ r.handle = proc[p].handle
<1> DEFINE r1 == [proc[p] EXCEPT !.pc = IF proc[p].pc = "staged" THEN "staged" ELSE "idle"]
           r2 == [r1 EXCEPT !.store = proc[p].next]
           r3 == [r2 EXCEPT !.next = proc[p].next + 1]
           r4 == [r3 EXCEPT !.retention = NoRetention]
           r5 == [r4 EXCEPT !.result = "none"]
<1>1. proc' = [proc EXCEPT ![p] = r5]
  BY DEF Opened, Proc
<1>2. /\ "staged" \in PC /\ "idle" \in PC /\ "none" \in Result
      /\ proc[p].next \in 0..MaxCapability /\ proc[p].next + 1 \in 1..(MaxCapability + 1)
      /\ NoRetention \in [Contents -> Retention]
  BY StoreAssumption DEF Opened, PC, Opening, Open, Result, Capabilities, Proc, NoRetention, Retention
<1>3. proc[p] \in Proc
  OBVIOUS
<1> DEFINE Good(r) == /\ r \in Proc
                      /\ r.pc = IF proc[p].pc = "staged" THEN "staged" ELSE "idle"
                      /\ r.content = proc[p].content /\ r.temp = proc[p].temp
                      /\ r.handle = proc[p].handle
<1>4. Good(r1)
  BY <1>2, <1>3, SetField, KeptFields DEF SameToken
<1> HIDE DEF r1
<1>5. Good(r2)
  BY <1>2, <1>4, SetField, KeptFields DEF SameToken
<1> HIDE DEF r2
<1>6. Good(r3)
  BY <1>2, <1>5, SetField, KeptFields DEF SameToken
<1> HIDE DEF r3
<1>7. Good(r4)
  BY <1>2, <1>6, SetField, KeptFields DEF SameToken
<1> HIDE DEF r4
<1>8. Good(r5)
  BY <1>2, <1>7, SetField, KeptFields DEF SameToken
<1>9. QED
  BY <1>1, <1>8

\* What the early comparison of stage leaves of its process: a token with no file.
LEMMA StageCheckFacts ==
    ASSUME proc \in [Procs -> Proc], NEW p \in Procs, NEW c \in Contents,
           StageCheck(p, c), ~Return(p, "Collision")
    PROVE  \E r \in Proc : /\ proc' = [proc EXCEPT ![p] = r]
                           /\ r.pc = "checked" /\ r.content = c /\ r.temp \in Capabilities
                           /\ r.handle = proc[p].handle
<1> DEFINE r1 == [proc[p] EXCEPT !.pc = "checked"]
           r2 == [r1 EXCEPT !.content = c]
           r3 == [r2 EXCEPT !.temp = proc[p].next]
           r4 == [r3 EXCEPT !.next = proc[p].next + 1]
           r5 == [r4 EXCEPT !.owner = proc[p].store]
           r6 == [r5 EXCEPT !.result = "none"]
<1>1. proc' = [proc EXCEPT ![p] = r6]
  BY DEF StageCheck, Proc
<1>2. /\ "checked" \in PC /\ "none" \in Result /\ proc[p].store \in 0..MaxCapability
      /\ proc[p].next \in 0..MaxCapability /\ proc[p].next + 1 \in 1..(MaxCapability + 1)
      /\ proc[p].next \in Capabilities
  BY StoreAssumption DEF StageCheck, PC, Opening, Open, Result, Capabilities, Proc
<1>3. proc[p] \in Proc
  OBVIOUS
<1>4. /\ r1 \in Proc /\ r1.pc = "checked" /\ r1.handle = proc[p].handle
  BY <1>2, <1>3, SetField, KeptFields DEF SameToken
<1> HIDE DEF r1
<1>5. /\ r2 \in Proc /\ r2.pc = "checked" /\ r2.handle = proc[p].handle /\ r2.content = c
  BY <1>2, <1>4, SetField, KeptFields DEF SameToken
<1> HIDE DEF r2
<1> DEFINE Good(r) == /\ r \in Proc /\ r.pc = "checked" /\ r.content = c
                      /\ r.temp = proc[p].next /\ r.handle = proc[p].handle
<1>6. Good(r3)
  BY <1>2, <1>5, SetField, KeptFields DEF SameToken
<1> HIDE DEF r3
<1>7. Good(r4)
  BY <1>2, <1>6, SetField, KeptFields DEF SameToken
<1> HIDE DEF r4
<1>8. Good(r5)
  BY <1>2, <1>7, SetField, KeptFields DEF SameToken
<1> HIDE DEF r5
<1>9. Good(r6)
  BY <1>2, <1>8, SetField, KeptFields DEF SameToken
<1>10. QED
  BY <1>1, <1>2, <1>9

\* What a commit leaves of its process once the artifact is visible.
LEMMA CommitCleanFacts ==
    ASSUME proc \in [Procs -> Proc], NEW p \in Procs, CommitClean(p)
    PROVE  \E r \in Proc : /\ proc' = [proc EXCEPT ![p] = r]
                           /\ r.pc = "idle" /\ r.handle = proc[p].handle
<1> DEFINE policies == [proc[p].retention EXCEPT ![proc[p].content] =
                        IF @ = "absent" THEN "Retain" ELSE @]
           r1 == [proc[p] EXCEPT !.retention = policies]
           r2 == [r1 EXCEPT !.pc = "idle"]
           r3 == [r2 EXCEPT !.content = NoContent]
           r4 == [r3 EXCEPT !.temp = 0]
           r5 == [r4 EXCEPT !.owner = 0]
           r6 == [r5 EXCEPT !.result = "committed"]
<1>1. proc' = [proc EXCEPT ![p] = r6]
  BY DEF CommitClean, Proc
<1>2. /\ "idle" \in PC /\ "committed" \in Result /\ 0 \in 0..MaxCapability
      /\ NoContent \in Contents \union {NoContent}
  BY StoreAssumption DEF PC, Opening, Open, Result
<1>3. proc[p] \in Proc /\ proc[p].retention \in [Contents -> Retention]
  BY DEF Proc
<1>4. policies \in [Contents -> Retention]
  BY <1>3 DEF Retention
<1> HIDE DEF policies
<1>5. r1 \in Proc /\ r1.handle = proc[p].handle
  BY <1>3, <1>4, SetField, KeptFields DEF SameToken
<1> HIDE DEF r1
<1> DEFINE Good(r) == r \in Proc /\ r.pc = "idle" /\ r.handle = proc[p].handle
<1>6. Good(r2)
  BY <1>2, <1>5, SetField, KeptFields DEF SameToken
<1> HIDE DEF r2
<1>7. Good(r3)
  BY <1>2, <1>6, SetField, KeptFields DEF SameToken
<1> HIDE DEF r3
<1>8. Good(r4)
  BY <1>2, <1>7, SetField, KeptFields DEF SameToken
<1> HIDE DEF r4
<1>9. Good(r5)
  BY <1>2, <1>8, SetField, KeptFields DEF SameToken
<1> HIDE DEF r5
<1>10. Good(r6)
  BY <1>2, <1>9, SetField, KeptFields DEF SameToken
<1>11. QED
  BY <1>1, <1>10

-----------------------------------------------------------------------------
(* Steps that leave the invariant alone, by what they do to the files.      *)

\* Only the process that takes the step changes.
LEMMA OneMoves ==
    ASSUME proc \in [Procs -> Proc], NEW p \in Procs, NEW r \in Proc,
           proc' = [proc EXCEPT ![p] = r]
    PROVE  /\ proc' \in [Procs -> Proc]
           /\ proc'[p] = r
           /\ \A q \in Procs \ {p} : proc'[q] = proc[q]
OBVIOUS

\* A temporary path is a name, and never a final path.
LEMMA TempIsName ==
    ASSUME TypeOK, TokenKnown, NEW p \in Procs, proc[p].pc \in Owning \union {"checked"}
    PROVE  TempOf(p) \in Names /\ TempOf(p) \notin Contents /\ proc[p].content \in Contents
BY NameAssumption DEF TokenKnown, TempOf, Names, Temp

\* A step after which p owns no file, and that removes at most the one it owned.
LEMMA Release ==
    ASSUME FileInv, NEW p \in Procs, NEW r \in Proc, proc' = [proc EXCEPT ![p] = r],
           r.pc \in {"down", "idle", "checked"} \union Opening, r.handle = NoInode,
           r.pc = "checked" => r.content \in Contents /\ r.temp \in Capabilities,
           RootMoves, UNCHANGED <<disk, data, confirmed>>,
           \/ UNCHANGED dir
           \/ proc[p].pc \in Owning /\ dir' = Unlink(TempOf(p))
    PROVE  FileInv'
<1>1. /\ proc' \in [Procs -> Proc]
      /\ proc'[p] = r
      /\ \A q \in Procs \ {p} : proc'[q] = proc[q]
  BY OneMoves DEF FileInv, TypeOK
<1>2. \A q \in Procs : proc'[q].pc \in Owning =>
        /\ q # p /\ proc[q].pc \in Owning /\ proc'[q] = proc[q]
        /\ TempOf(q)' = TempOf(q)
  BY <1>1 DEF Owning, Opening, TempOf
<1>3. \A q \in Procs : proc[q].pc \in Owning \union {"checked"} =>
        TempOf(q) \in Names /\ TempOf(q) \notin Contents
  BY TempIsName DEF FileInv
<1>4. dir' \in [Names -> Inodes \union {NoInode}]
  BY DEF FileInv, TypeOK, Unlink
<1>5. \A n \in Names : dir'[n] = dir[n] \/ dir'[n] = NoInode
  BY DEF FileInv, TypeOK, Unlink
<1>6. \A c \in Contents : dir'[c] = dir[c]
  BY <1>3 DEF FileInv, TypeOK, Unlink, Names, Owning
<1>7. \A q \in Procs : proc'[q].pc \in Owning => dir'[TempOf(q)] = dir[TempOf(q)]
  BY <1>2, <1>3 DEF FileInv, TypeOK, Unlink, OneOwner, Owning
<1>8. TypeOK'
  BY <1>1, <1>4 DEF FileInv, TypeOK, RootMoves
<1>9. TokenKnown'
  BY <1>1 DEF FileInv, TokenKnown, Owning, Opening
<1>10. OneOwner'
  BY <1>2, <1>7 DEF FileInv, OneOwner, Exists
<1>11. HandleIsPrivate'
  <2>1. ASSUME NEW q \in Procs, proc'[q].pc = "created"
        PROVE  /\ proc'[q].handle \in Inodes /\ dir'[TempOf(q)'] = proc'[q].handle
               /\ \A n \in Names \ {TempOf(q)'} :
                     dir'[n] # proc'[q].handle /\ disk'[n] # proc'[q].handle
    <3>1. /\ proc'[q] = proc[q] /\ TempOf(q)' = TempOf(q) /\ dir'[TempOf(q)] = dir[TempOf(q)]
      BY <2>1, <1>2, <1>7 DEF Owning
    <3>2. QED
      BY <2>1, <3>1, <1>5, StoreAssumption DEF FileInv, HandleIsPrivate
  <2>2. ASSUME NEW q \in Procs, proc'[q].pc # "created"
        PROVE  proc'[q].handle = NoInode
    BY <2>2, <1>1 DEF FileInv, HandleIsPrivate
  <2>3. QED
    BY <2>1, <2>2 DEF HandleIsPrivate
<1>12. StagedIsWhole'
  BY <1>2, <1>7 DEF FileInv, StagedIsWhole, Written, Owning
<1>13. FinalIsWhole'
  BY <1>6 DEF FileInv, FinalIsWhole
<1>14. ConfirmedIsDurable'
  BY <1>6 DEF FileInv, ConfirmedIsDurable, TypeOK, RootMoves
<1>15. QED
  BY <1>8, <1>9, <1>10, <1>11, <1>12, <1>13, <1>14 DEF FileInv

\* A step of a call whose file is written, that at most links it under its digest.
LEMMA Carry ==
    ASSUME FileInv, NEW p \in Procs, NEW r \in Proc, proc' = [proc EXCEPT ![p] = r],
           proc[p].pc \in Written, r.pc \in Written,
           r.content = proc[p].content, r.temp = proc[p].temp, r.handle = NoInode,
           RootMoves, UNCHANGED <<disk, data, confirmed>>,
           \/ UNCHANGED dir
           \/ /\ dir[proc[p].content] = NoInode
              /\ dir' = [dir EXCEPT ![proc[p].content] = dir[TempOf(p)]]
    PROVE  FileInv'
<1>1. /\ proc' \in [Procs -> Proc]
      /\ proc'[p] = r
      /\ \A q \in Procs \ {p} : proc'[q] = proc[q]
  BY OneMoves DEF FileInv, TypeOK
<1>2. \A q \in Procs :
        /\ TempOf(q)' = TempOf(q) /\ proc'[q].content = proc[q].content
        /\ proc'[q].temp = proc[q].temp /\ proc'[q].handle = proc[q].handle
        /\ proc'[q].pc \in Owning <=> proc[q].pc \in Owning
        /\ proc'[q].pc \in Written <=> proc[q].pc \in Written
        /\ proc'[q].pc = "checked" <=> proc[q].pc = "checked"
        /\ proc'[q].pc = "created" <=> proc[q].pc = "created"
  <2>1. proc[p].handle = NoInode
    BY DEF FileInv, HandleIsPrivate, Written
  <2>2. QED
    BY <1>1, <2>1 DEF Owning, Written, TempOf
<1>3. \A q \in Procs : proc[q].pc \in Owning \union {"checked"} =>
        TempOf(q) \in Names /\ TempOf(q) \notin Contents /\ proc[q].content \in Contents
  BY TempIsName DEF FileInv
<1>4. /\ proc[p].content \in Contents /\ proc[p].content \in Names
      /\ TempOf(p) \in Names /\ TempOf(p) \notin Contents
      /\ data[dir[TempOf(p)]] = proc[p].content
      /\ dir[TempOf(p)] # NoInode
  BY <1>3 DEF Owning, Written, Names, FileInv, StagedIsWhole, OneOwner, Exists
<1>5. dir' \in [Names -> Inodes \union {NoInode}]
  BY <1>4 DEF FileInv, TypeOK
<1>6. \A n \in Names : n # proc[p].content => dir'[n] = dir[n]
  BY DEF FileInv, TypeOK
<1>7. \A n \in Names : dir'[n] = dir[n] \/ dir'[n] = dir[TempOf(p)]
  BY <1>4 DEF FileInv, TypeOK
<1>8. \/ dir'[proc[p].content] = dir[proc[p].content]
      \/ /\ dir[proc[p].content] = NoInode
         /\ data[dir'[proc[p].content]] = proc[p].content
  <2>1. CASE UNCHANGED dir
    BY <2>1
  <2>2. CASE dir[proc[p].content] = NoInode
             /\ dir' = [dir EXCEPT ![proc[p].content] = dir[TempOf(p)]]
    <3>1. dir'[proc[p].content] = dir[TempOf(p)]
      BY <1>4, <2>2 DEF FileInv, TypeOK
    <3>2. QED
      BY <1>4, <2>2, <3>1
  <2>3. QED
    BY <2>1, <2>2
<1>9. \A q \in Procs : proc[q].pc \in Owning => dir'[TempOf(q)] = dir[TempOf(q)]
  BY <1>3, <1>4, <1>6
<1>10. TypeOK'
  BY <1>1, <1>5 DEF FileInv, TypeOK, RootMoves
<1>11. TokenKnown'
  BY <1>2 DEF FileInv, TokenKnown, Owning
<1>12. OneOwner'
  BY <1>2, <1>9 DEF FileInv, OneOwner, Exists
<1>13. HandleIsPrivate'
  <2>1. ASSUME NEW q \in Procs, proc'[q].pc = "created"
        PROVE  /\ proc'[q].handle \in Inodes /\ dir'[TempOf(q)'] = proc'[q].handle
               /\ \A n \in Names \ {TempOf(q)'} :
                     dir'[n] # proc'[q].handle /\ disk'[n] # proc'[q].handle
    <3>1. /\ proc[q].pc = "created" /\ proc'[q].handle = proc[q].handle
          /\ TempOf(q)' = TempOf(q) /\ dir'[TempOf(q)] = dir[TempOf(q)]
      BY <2>1, <1>2, <1>9 DEF Owning
    <3>2. dir[TempOf(p)] # proc[q].handle
      <4>1. q # p
        BY <3>1 DEF Written
      <4>2. TempOf(p) # TempOf(q)
        BY <3>1, <4>1 DEF FileInv, OneOwner, Owning, Written
      <4>3. QED
        BY <3>1, <4>2, <1>4 DEF FileInv, HandleIsPrivate
    <3>3. QED
      BY <3>1, <3>2, <1>7 DEF FileInv, HandleIsPrivate
  <2>2. ASSUME NEW q \in Procs, proc'[q].pc # "created"
        PROVE  proc'[q].handle = NoInode
    BY <2>2, <1>2 DEF FileInv, HandleIsPrivate
  <2>3. QED
    BY <2>1, <2>2 DEF HandleIsPrivate
<1>14. StagedIsWhole'
  BY <1>2, <1>9 DEF FileInv, StagedIsWhole, Written, Owning
<1>15. FinalIsWhole'
  BY <1>4, <1>6, <1>8 DEF FileInv, FinalIsWhole, Names
<1>16. ConfirmedIsDurable'
  BY <1>4, <1>6, <1>8 DEF FileInv, ConfirmedIsDurable, TypeOK, Names, RootMoves
<1>17. QED
  BY <1>10, <1>11, <1>12, <1>13, <1>14, <1>15, <1>16 DEF FileInv

-----------------------------------------------------------------------------
(* The invariant is inductive.                                              *)

\* A staged token has no open file.
LEMMA NoHandle ==
    ASSUME FileInv, NEW p \in Procs, proc[p].pc # "created"
    PROVE  proc[p].handle = NoInode
BY DEF FileInv, HandleIsPrivate

\* A call that returns, and removes its temporary file or leaves it behind.
LEMMA ReturnFileInv ==
    ASSUME FileInv, NEW p \in Procs, NEW x \in Result, Return(p, x),
           RootMoves, UNCHANGED <<disk, data, confirmed>>,
           \/ UNCHANGED dir
           \/ proc[p].pc \in Owning /\ RemoveTemporary(TempOf(p))
    PROVE  FileInv'
<1>1. PICK r \in Proc : /\ proc' = [proc EXCEPT ![p] = r]
                        /\ r.pc = "idle" /\ r.handle = NoInode
  BY ReturnFacts DEF FileInv, TypeOK
<1>2. QED
  BY <1>1, Release DEF RemoveTemporary

LEMMA OpenedFileInv ==
    ASSUME FileInv, NEW p \in Procs, OpenExisting(p) \/ OpenSyncParent(p)
    PROVE  FileInv'
<1>1. /\ Opened(p) /\ proc[p].pc \in {"down", "idle", "staged", "synced"}
      /\ UNCHANGED <<dir, disk, data, confirmed>> /\ RootMoves
  BY DEF OpenExisting, OpenSyncParent, FileInv, TypeOK, RootMoves
<1>2. PICK r \in Proc : /\ proc' = [proc EXCEPT ![p] = r]
                        /\ r.pc = IF proc[p].pc = "staged" THEN "staged" ELSE "idle"
                        /\ r.content = proc[p].content /\ r.temp = proc[p].temp
                        /\ r.handle = proc[p].handle
  BY <1>1, OpenFacts DEF FileInv, TypeOK
<1>3. proc[p].handle = NoInode
  BY <1>1, NoHandle
<1>4. CASE proc[p].pc # "staged"
  BY <1>1, <1>2, <1>3, <1>4, Release
<1>5. CASE proc[p].pc = "staged"
  BY <1>1, <1>2, <1>3, <1>5, Carry DEF Written
<1>6. QED
  BY <1>4, <1>5

LEMMA StageCheckFileInv ==
    ASSUME FileInv, NEW p \in Procs, NEW c \in Contents, StageCheck(p, c)
    PROVE  FileInv'
<1>1. /\ proc[p].pc = "idle" /\ proc[p].handle = NoInode
      /\ UNCHANGED <<dir, disk, data, confirmed>> /\ RootMoves
  BY NoHandle DEF StageCheck, files, FileInv, TypeOK, RootMoves
<1>2. CASE Return(p, "Collision")
  BY <1>1, <1>2, ReturnFileInv DEF Result
<1>3. CASE ~Return(p, "Collision")
  <2>1. PICK r \in Proc : /\ proc' = [proc EXCEPT ![p] = r]
                          /\ r.pc = "checked" /\ r.content = c /\ r.temp \in Capabilities
                          /\ r.handle = proc[p].handle
    BY <1>3, StageCheckFacts DEF FileInv, TypeOK
  <2>2. QED
    BY <1>1, <2>1, Release
<1>4. QED
  BY <1>2, <1>3

\* create_new: the new inode has no other name, and no one else writes it.
LEMMA StageCreateFileInv == ASSUME FileInv, NEW p \in Procs, StageCreate(p) PROVE FileInv'
<1>1. /\ proc[p].pc = "checked" /\ UNCHANGED <<disk, root, rootDisk, confirmed, adopted>> /\ RootMoves
  BY DEF StageCreate, FileInv, TypeOK, RootMoves
<1>2. CASE (Return(p, "Io") \/ Return(p, "NotFound")) /\ UNCHANGED <<dir, data>>
  BY <1>1, <1>2, ReturnFileInv DEF Result
<1>3. ASSUME NEW i \in Free, ~Exists(TempOf(p)),
             dir' = [dir EXCEPT ![TempOf(p)] = i],
             data' = [data EXCEPT ![i] = "torn"],
             proc' = [proc EXCEPT ![p].pc = "created", ![p].handle = i]
      PROVE  FileInv'
  <2>0. /\ i \in Inodes /\ \A n \in Names : dir[n] # i /\ disk[n] # i
        /\ \A q \in Procs : proc[q].handle # i
    BY <1>3 DEF Free
  <2> DEFINE r1 == [proc[p] EXCEPT !.pc = "created"]
             r == [r1 EXCEPT !.handle = i]
  <2>1. proc[p] \in Proc /\ "created" \in PC
    BY DEF FileInv, TypeOK, PC, Opening, Open
  <2>2. r1 \in Proc /\ r1.pc = "created" /\ r1.content = proc[p].content /\ r1.temp = proc[p].temp
    BY <2>1, SetField, KeptFields
  <2>3. proc' = [proc EXCEPT ![p] = r]
    BY <1>3 DEF FileInv, TypeOK, Proc
  <2> HIDE DEF r1
  <2>4. /\ r \in Proc /\ r.pc = "created" /\ r.handle = i
        /\ r.content = proc[p].content /\ r.temp = proc[p].temp
    BY <2>0, <2>2, SetField, KeptFields
  <2> HIDE DEF r
  <2>5. /\ proc' \in [Procs -> Proc] /\ proc'[p] = r
        /\ \A q \in Procs \ {p} : proc'[q] = proc[q]
    BY <2>3, <2>4, OneMoves DEF FileInv, TypeOK
  <2>6. \A q \in Procs : TempOf(q)' = TempOf(q)
    BY <2>4, <2>5 DEF TempOf
  <2>7. \A q \in Procs : proc[q].pc \in Owning \union {"checked"} =>
          TempOf(q) \in Names /\ TempOf(q) \notin Contents
    BY TempIsName DEF FileInv
  <2>8. TempOf(p) \in Names /\ TempOf(p) \notin Contents /\ dir[TempOf(p)] = NoInode
    BY <1>1, <1>3, <2>7 DEF Exists
  <2>9. /\ dir' \in [Names -> Inodes \union {NoInode}] /\ dir'[TempOf(p)] = i
        /\ \A n \in Names \ {TempOf(p)} : dir'[n] = dir[n]
    BY <1>3, <2>0, <2>8 DEF FileInv, TypeOK
  <2>10. /\ data' \in [Inodes -> Bytes]
         /\ \A j \in Inodes \ {i} : data'[j] = data[j]
    BY <1>3, <2>0 DEF FileInv, TypeOK, Bytes
  <2>11. \A q \in Procs \ {p} : proc[q].pc \in Owning =>
           /\ TempOf(q) # TempOf(p) /\ TempOf(q) \in Names
           /\ dir'[TempOf(q)] = dir[TempOf(q)] /\ dir[TempOf(q)] \in Inodes \ {i}
    BY <2>0, <2>7, <2>8, <2>9 DEF FileInv, OneOwner, Exists, TypeOK
  <2>12. TypeOK'
    BY <1>1, <2>5, <2>9, <2>10 DEF FileInv, TypeOK, RootMoves
  <2>13. TokenKnown'
    BY <1>1, <2>4, <2>5 DEF FileInv, TokenKnown
  <2>14. OneOwner'
    <3>1. \A q \in Procs : proc'[q].pc \in Owning => dir'[TempOf(q)] # NoInode
      BY <2>0, <2>5, <2>9, <2>11, StoreAssumption
    <3>2. \A q, s \in Procs :
             proc'[q].pc \in Owning /\ proc'[s].pc \in Owning /\ TempOf(q) = TempOf(s) => q = s
      BY <2>5, <2>11 DEF FileInv, OneOwner
    <3>3. QED
      BY <2>6, <3>1, <3>2 DEF OneOwner, Exists
  <2>15. HandleIsPrivate'
    <3>1. /\ proc'[p].pc = "created" /\ proc'[p].handle \in Inodes
          /\ dir'[TempOf(p)] = proc'[p].handle
          /\ \A n \in Names \ {TempOf(p)} : dir'[n] # proc'[p].handle /\ disk'[n] # proc'[p].handle
      BY <1>1, <2>0, <2>4, <2>5, <2>9
    <3>2. ASSUME NEW q \in Procs \ {p}, proc[q].pc = "created"
          PROVE  /\ proc'[q].handle \in Inodes
                 /\ dir'[TempOf(q)] = proc'[q].handle
                 /\ \A n \in Names \ {TempOf(q)} :
                       dir'[n] # proc'[q].handle /\ disk'[n] # proc'[q].handle
      BY <1>1, <3>2, <2>0, <2>5, <2>9, <2>11 DEF FileInv, HandleIsPrivate, Owning
    <3>3. \A q \in Procs \ {p} : proc'[q].pc # "created" => proc'[q].handle = NoInode
      BY <2>5 DEF FileInv, HandleIsPrivate
    <3>4. QED
      BY <2>5, <2>6, <3>1, <3>2, <3>3 DEF HandleIsPrivate
  <2>16. StagedIsWhole'
    BY <2>4, <2>5, <2>6, <2>10, <2>11 DEF FileInv, StagedIsWhole, Written, Owning
  <2>17. FinalIsWhole'
    BY <1>1, <2>0, <2>8, <2>9, <2>10 DEF FileInv, FinalIsWhole, TypeOK, Names
  <2>18. ConfirmedIsDurable'
    BY <1>1, <2>0, <2>8, <2>9, <2>10 DEF FileInv, ConfirmedIsDurable, TypeOK, Names, RootMoves
  <2>19. QED
    BY <2>12, <2>13, <2>14, <2>15, <2>16, <2>17, <2>18 DEF FileInv
<1>4. QED
  BY <1>2, <1>3 DEF StageCreate

\* write_all: the file has no name but its own, so no one can read it torn.
LEMMA StageWriteFileInv == ASSUME FileInv, NEW p \in Procs, StageWrite(p) PROVE FileInv'
<1>1. /\ proc[p].pc = "created" /\ UNCHANGED <<disk, root, rootDisk, confirmed, adopted>> /\ RootMoves
  BY DEF StageWrite, FileInv, TypeOK, RootMoves
<1>2. CASE RemoveTemporary(TempOf(p)) /\ Return(p, "Io") /\ UNCHANGED data
  BY <1>1, <1>2, ReturnFileInv DEF Result, Owning
<1>3. CASE /\ data' = [data EXCEPT ![proc[p].handle] = proc[p].content]
           /\ proc' = [proc EXCEPT ![p].pc = "staged", ![p].handle = NoInode,
                                   ![p].result = "staged"]
           /\ UNCHANGED dir
  <2> DEFINE r1 == [proc[p] EXCEPT !.pc = "staged"]
             r2 == [r1 EXCEPT !.handle = NoInode]
             r == [r2 EXCEPT !.result = "staged"]
  <2>1. proc[p] \in Proc /\ "staged" \in PC /\ "staged" \in Result
    BY DEF FileInv, TypeOK, PC, Opening, Open, Result
  <2>2. proc' = [proc EXCEPT ![p] = r]
    BY <1>3 DEF FileInv, TypeOK, Proc
  <2>3. r1 \in Proc /\ r1.pc = "staged" /\ r1.content = proc[p].content /\ r1.temp = proc[p].temp
    BY <2>1, SetField, KeptFields
  <2> HIDE DEF r1
  <2>4. /\ r2 \in Proc /\ r2.pc = "staged" /\ r2.handle = NoInode
        /\ r2.content = proc[p].content /\ r2.temp = proc[p].temp
    BY <2>3, SetField, KeptFields
  <2> HIDE DEF r2
  <2>5. /\ r \in Proc /\ r.pc = "staged" /\ r.handle = NoInode
        /\ r.content = proc[p].content /\ r.temp = proc[p].temp
    BY <2>1, <2>4, SetField, KeptFields DEF SameToken
  <2> HIDE DEF r
  <2>6. /\ proc' \in [Procs -> Proc] /\ proc'[p] = r
        /\ \A q \in Procs \ {p} : proc'[q] = proc[q]
    BY <2>2, <2>5, OneMoves DEF FileInv, TypeOK
  <2>7. /\ \A q \in Procs : TempOf(q)' = TempOf(q)
        /\ \A q \in Procs : proc'[q].pc \in Owning <=> proc[q].pc \in Owning
    BY <1>1, <2>5, <2>6 DEF TempOf, Owning
  <2>8. /\ proc[p].handle \in Inodes /\ dir[TempOf(p)] = proc[p].handle
        /\ \A n \in Names \ {TempOf(p)} : dir[n] # proc[p].handle /\ disk[n] # proc[p].handle
    BY <1>1 DEF FileInv, HandleIsPrivate
  <2>9. /\ TempOf(p) \notin Contents /\ proc[p].content \in Contents
    BY <1>1, TempIsName DEF FileInv, Owning
  <2>10. /\ data' \in [Inodes -> Bytes] /\ data'[proc[p].handle] = proc[p].content
         /\ \A j \in Inodes \ {proc[p].handle} : data'[j] = data[j]
    BY <1>3, <2>8, <2>9 DEF FileInv, TypeOK, Bytes
  <2>11. \A q \in Procs \ {p} : proc[q].pc \in Owning =>
           dir[TempOf(q)] \in Inodes \ {proc[p].handle}
    <3>1. ASSUME NEW q \in Procs \ {p}, proc[q].pc \in Owning
          PROVE  dir[TempOf(q)] \in Inodes \ {proc[p].handle}
      <4>1. TempOf(q) \in Names
        BY <3>1, TempIsName DEF FileInv
      <4>2. TempOf(q) # TempOf(p) /\ dir[TempOf(q)] # NoInode
        BY <1>1, <3>1 DEF FileInv, OneOwner, Owning, Exists
      <4>3. QED
        BY <4>1, <4>2, <2>8 DEF FileInv, TypeOK
    <3>2. QED
      BY <3>1
  <2>12. TypeOK'
    BY <1>1, <1>3, <2>6, <2>10 DEF FileInv, TypeOK, RootMoves
  <2>13. TokenKnown'
    BY <1>1, <2>5, <2>6 DEF FileInv, TokenKnown, Owning
  <2>14. OneOwner'
    BY <1>3, <2>7 DEF FileInv, OneOwner, Exists
  <2>15. HandleIsPrivate'
    <3>1. ASSUME NEW q \in Procs, proc'[q].pc = "created"
          PROVE  /\ proc'[q].handle \in Inodes /\ dir'[TempOf(q)'] = proc'[q].handle
                 /\ \A n \in Names \ {TempOf(q)'} :
                       dir'[n] # proc'[q].handle /\ disk'[n] # proc'[q].handle
      <4>1. q # p
        BY <3>1, <2>5, <2>6
      <4>2. QED
        BY <1>1, <1>3, <3>1, <4>1, <2>6, <2>7 DEF FileInv, HandleIsPrivate
    <3>2. ASSUME NEW q \in Procs, proc'[q].pc # "created"
          PROVE  proc'[q].handle = NoInode
      BY <3>2, <2>5, <2>6 DEF FileInv, HandleIsPrivate
    <3>3. QED
      BY <3>1, <3>2 DEF HandleIsPrivate
  <2>16. StagedIsWhole'
    <3>1. data'[dir'[TempOf(p)']] = proc'[p].content
      BY <1>3, <2>5, <2>6, <2>7, <2>8, <2>10
    <3>2. ASSUME NEW q \in Procs \ {p}, proc'[q].pc \in Written
          PROVE  data'[dir'[TempOf(q)']] = proc'[q].content
      BY <1>3, <3>2, <2>6, <2>7, <2>10, <2>11 DEF FileInv, StagedIsWhole, Written, Owning
    <3>3. QED
      BY <3>1, <3>2 DEF StagedIsWhole
  <2>17. FinalIsWhole'
    BY <1>1, <1>3, <2>8, <2>9, <2>10 DEF FileInv, FinalIsWhole, TypeOK, Names
  <2>18. ConfirmedIsDurable'
    BY <1>1, <1>3, <2>8, <2>9, <2>10 DEF FileInv, ConfirmedIsDurable, TypeOK, Names, RootMoves
  <2>19. QED
    BY <2>12, <2>13, <2>14, <2>15, <2>16, <2>17, <2>18 DEF FileInv
<1>4. QED
  BY <1>2, <1>3 DEF StageWrite

LEMMA PcNames == {"down", "idle", "made", "synced", "conflict", "published"} \subseteq PC
BY DEF PC, Opening, Open

\* The next step of a call, with its token unchanged.
LEMMA NextPc ==
    ASSUME FileInv, NEW p \in Procs, NEW x \in PC, proc' = [proc EXCEPT ![p].pc = x]
    PROVE  \E r \in Proc : /\ proc' = [proc EXCEPT ![p] = r] /\ r.pc = x
                           /\ r.content = proc[p].content /\ r.temp = proc[p].temp
                           /\ r.handle = proc[p].handle
<1>1. proc[p] \in Proc
  BY DEF FileInv, TypeOK
<1> DEFINE r == [proc[p] EXCEPT !.pc = x]
<1>2. proc' = [proc EXCEPT ![p] = r]
  OBVIOUS
<1>3. /\ r \in Proc /\ r.pc = x /\ r.content = proc[p].content
      /\ r.temp = proc[p].temp /\ r.handle = proc[p].handle
  BY <1>1, SetField, KeptFields
<1> HIDE DEF r
<1>4. QED
  BY <1>2, <1>3

LEMMA CommitLinkFileInv == ASSUME FileInv, NEW p \in Procs, CommitLink(p) PROVE FileInv'
<1>1. /\ proc[p].pc = "staged" /\ proc[p].handle = NoInode
      /\ UNCHANGED <<disk, data, root, rootDisk, confirmed, adopted>> /\ RootMoves
  BY NoHandle DEF CommitLink, FileInv, TypeOK, RootMoves
<1>2. CASE Return(p, "NotFound") /\ UNCHANGED dir
  BY <1>1, <1>2, ReturnFileInv DEF Result
<1>3. CASE /\ ~Visible(proc[p].content)
           /\ dir' = [dir EXCEPT ![proc[p].content] = dir[TempOf(p)]]
           /\ proc' = [proc EXCEPT ![p].pc = "published"]
  <2>1. PICK r \in Proc : /\ proc' = [proc EXCEPT ![p] = r] /\ r.pc = "published"
                          /\ r.content = proc[p].content /\ r.temp = proc[p].temp
                          /\ r.handle = proc[p].handle
    BY <1>3, NextPc, PcNames
  <2>2. QED
    BY <1>1, <1>3, <2>1, Carry DEF Written, Visible, Exists
<1>4. CASE proc' = [proc EXCEPT ![p].pc = "conflict"] /\ UNCHANGED dir
  <2>1. PICK r \in Proc : /\ proc' = [proc EXCEPT ![p] = r] /\ r.pc = "conflict"
                          /\ r.content = proc[p].content /\ r.temp = proc[p].temp
                          /\ r.handle = proc[p].handle
    BY <1>4, NextPc, PcNames
  <2>2. QED
    BY <1>1, <1>4, <2>1, Carry DEF Written
<1>5. QED
  BY <1>2, <1>3, <1>4 DEF CommitLink

LEMMA CommitCompareFileInv == ASSUME FileInv, NEW p \in Procs, CommitCompare(p) PROVE FileInv'
<1>1. /\ proc[p].pc = "conflict" /\ proc[p].handle = NoInode
      /\ UNCHANGED <<disk, data, root, rootDisk, confirmed, adopted>> /\ RootMoves
  BY NoHandle DEF CommitCompare, FileInv, TypeOK, RootMoves
<1>2. CASE (Return(p, "NotFound") \/ Return(p, "Collision")) /\ RemoveTemporary(TempOf(p))
  BY <1>1, <1>2, ReturnFileInv DEF Result, Owning
<1>3. CASE proc' = [proc EXCEPT ![p].pc = "published"] /\ UNCHANGED dir
  <2>1. PICK r \in Proc : /\ proc' = [proc EXCEPT ![p] = r] /\ r.pc = "published"
                          /\ r.content = proc[p].content /\ r.temp = proc[p].temp
                          /\ r.handle = proc[p].handle
    BY <1>3, NextPc, PcNames
  <2>2. QED
    BY <1>1, <1>3, <2>1, Carry DEF Written
<1>4. QED
  BY <1>2, <1>3 DEF CommitCompare

LEMMA CommitCleanFileInv == ASSUME FileInv, NEW p \in Procs, CommitClean(p) PROVE FileInv'
<1>1. /\ proc[p].pc = "published" /\ proc[p].handle = NoInode /\ RemoveTemporary(TempOf(p))
      /\ UNCHANGED <<disk, data, root, rootDisk, confirmed, adopted>> /\ RootMoves
  BY NoHandle DEF CommitClean, FileInv, TypeOK, RootMoves
<1>2. PICK r \in Proc : /\ proc' = [proc EXCEPT ![p] = r]
                        /\ r.pc = "idle" /\ r.handle = proc[p].handle
  BY CommitCleanFacts DEF FileInv, TypeOK
<1>3. QED
  BY <1>1, <1>2, Release DEF RemoveTemporary, Owning

LEMMA TokenDropsFileInv ==
    ASSUME FileInv, NEW p \in Procs, CommitForeign(p) \/ DropStaged(p)
    PROVE  FileInv'
<1>1. /\ proc[p].pc = "staged" /\ RemoveTemporary(TempOf(p))
      /\ Return(p, "Foreign") \/ Return(p, "none")
      /\ UNCHANGED <<disk, data, root, rootDisk, confirmed, adopted>> /\ RootMoves
  BY DEF CommitForeign, DropStaged, FileInv, TypeOK, RootMoves
<1>2. QED
  BY <1>1, ReturnFileInv DEF Result, Owning

\* A call on an idle store that only sets its result.
LEMMA Reports ==
    ASSUME FileInv, NEW p \in Procs, NEW x \in Result, proc[p].pc = "idle",
           proc' = [proc EXCEPT ![p].result = x]
    PROVE  \E r \in Proc : /\ proc' = [proc EXCEPT ![p] = r]
                           /\ r.pc = "idle" /\ r.handle = NoInode
<1>1. proc[p] \in Proc /\ proc[p].handle = NoInode
  BY NoHandle DEF FileInv, TypeOK
<1> DEFINE r == [proc[p] EXCEPT !.result = x]
<1>2. proc' = [proc EXCEPT ![p] = r]
  OBVIOUS
<1>3. r \in Proc /\ r.pc = "idle" /\ r.handle = NoInode
  BY <1>1, SetField, KeptFields DEF SameToken
<1> HIDE DEF r
<1>4. QED
  BY <1>2, <1>3

\* A sync of the root: what is confirmed is in the directory that becomes durable.
LEMMA Synced ==
    ASSUME FileInv, NEW p \in Procs, NEW r \in Proc, proc' = [proc EXCEPT ![p] = r],
           r.pc \in {"idle", "synced"}, r.handle = NoInode,
           UNCHANGED <<dir, data>>, disk' = dir, RootMoves,
           confirmed' \in {confirmed, confirmed \union {c \in Contents : ReadPage(c) = c}}
    PROVE  FileInv'
<1>2. /\ proc' \in [Procs -> Proc] /\ proc'[p] = r
      /\ \A q \in Procs \ {p} : proc'[q] = proc[q]
  BY OneMoves DEF FileInv, TypeOK
<1>3. \A q \in Procs : proc'[q].pc \in Owning \union {"checked"} =>
         q # p /\ proc'[q] = proc[q] /\ TempOf(q)' = TempOf(q)
  BY <1>2 DEF Owning, Opening, TempOf
<1>4. TypeOK'
  BY <1>2 DEF FileInv, TypeOK, RootMoves
<1>5. TokenKnown'
  BY <1>3 DEF FileInv, TokenKnown
<1>6. OneOwner'
  BY <1>3 DEF FileInv, OneOwner, Exists
<1>7. HandleIsPrivate'
  <2>1. ASSUME NEW q \in Procs, proc'[q].pc = "created"
        PROVE  /\ proc'[q].handle \in Inodes /\ dir'[TempOf(q)'] = proc'[q].handle
               /\ \A n \in Names \ {TempOf(q)'} :
                     dir'[n] # proc'[q].handle /\ disk'[n] # proc'[q].handle
    <3>1. q # p /\ proc'[q] = proc[q] /\ TempOf(q)' = TempOf(q)
      BY <2>1, <1>3 DEF Owning
    <3>2. QED
      BY <2>1, <3>1 DEF FileInv, HandleIsPrivate
  <2>2. ASSUME NEW q \in Procs, proc'[q].pc # "created"
        PROVE  proc'[q].handle = NoInode
    BY <2>2, <1>2 DEF FileInv, HandleIsPrivate
  <2>3. QED
    BY <2>1, <2>2 DEF HandleIsPrivate
<1>8. StagedIsWhole'
  BY <1>3 DEF FileInv, StagedIsWhole, Written, Owning
<1>9. FinalIsWhole'
  BY DEF FileInv, FinalIsWhole
<1>10. ConfirmedIsDurable'
  <2>1. ASSUME NEW c \in Contents, ReadPage(c) = c PROVE dir[c] # NoInode /\ data[dir[c]] = c
    BY <2>1, NameAssumption DEF ReadPage, Visible, Exists, Read, RootMoves
  <2>2. \A c \in confirmed' : c \in confirmed \/ (c \in Contents /\ ReadPage(c) = c)
    OBVIOUS
  <2>3. QED
    BY <2>1, <2>2 DEF FileInv, ConfirmedIsDurable, RootMoves
<1>11. QED
  BY <1>4, <1>5, <1>6, <1>7, <1>8, <1>9, <1>10 DEF FileInv

LEMMA SyncPublishedFileInv == ASSUME FileInv, NEW p \in Procs, SyncPublished(p) PROVE FileInv'
<1>1. proc[p].pc = "idle" /\ UNCHANGED <<dir, data, root, rootDisk, adopted>> /\ RootMoves
  BY DEF SyncPublished, FileInv, TypeOK, RootMoves
<1>2. CASE /\ proc' = [proc EXCEPT ![p].result = IF root THEN "Io" ELSE "NotFound"]
           /\ UNCHANGED <<disk, confirmed>>
  <2>1. PICK r \in Proc : /\ proc' = [proc EXCEPT ![p] = r]
                          /\ r.pc = "idle" /\ r.handle = NoInode
    BY <1>1, <1>2, Reports DEF Result
  <2>2. QED
    BY <1>1, <1>2, <2>1, Release
<1>3. CASE /\ disk' = dir
           /\ confirmed' = confirmed \union {c \in Contents : ReadPage(c) = c}
           /\ proc' = [proc EXCEPT ![p].result = "synced"]
  <2>1. PICK r \in Proc : /\ proc' = [proc EXCEPT ![p] = r]
                          /\ r.pc = "idle" /\ r.handle = NoInode
    BY <1>1, <1>3, Reports DEF Result
  <2>2. QED
    BY <1>1, <1>3, <2>1, Synced
<1>4. QED
  BY <1>2, <1>3 DEF SyncPublished

\* The calls of try_new that create the root, up to the sync of its parent.
LEMMA OpeningFileInv ==
    ASSUME FileInv, NEW p \in Procs,
           OpenAbsent(p) \/ OpenCreate(p) \/ OpenSync(p) \/ OpenFails(p)
    PROVE  FileInv'
<1>1. proc[p].pc \in {"down", "idle"} \union Opening /\ RootMoves /\ proc[p] \in Proc
  BY DEF OpenAbsent, OpenCreate, OpenSync, OpenFails, Opening, files, FileInv, TypeOK, RootMoves
<1>2. proc[p].handle = NoInode
  BY <1>1, NoHandle DEF Opening
<1>3. CASE OpenSync(p)
  <2>1. PICK r \in Proc : /\ proc' = [proc EXCEPT ![p] = r] /\ r.pc = "synced"
                          /\ r.content = proc[p].content /\ r.temp = proc[p].temp
                          /\ r.handle = proc[p].handle
    BY <1>3, NextPc, PcNames DEF OpenSync
  <2>2. UNCHANGED <<dir, data, confirmed>> /\ disk' = dir
    BY <1>3 DEF OpenSync
  <2>3. QED
    BY <1>1, <1>2, <2>1, <2>2, Synced
<1>4. CASE OpenCreate(p)
  <2>1. PICK r \in Proc : /\ proc' = [proc EXCEPT ![p] = r] /\ r.pc = "made"
                          /\ r.content = proc[p].content /\ r.temp = proc[p].temp
                          /\ r.handle = proc[p].handle
    BY <1>4, NextPc, PcNames DEF OpenCreate
  <2>2. UNCHANGED <<dir, disk, data, confirmed>>
    BY <1>4 DEF OpenCreate
  <2>3. QED
    BY <1>1, <1>2, <2>1, <2>2, Release DEF Opening
<1>5. CASE OpenAbsent(p) \/ OpenFails(p)
  <2> DEFINE x == IF OpenAbsent(p) THEN "absent" ELSE IF proc[p].store = 0 THEN "down" ELSE "idle"
             y == IF OpenAbsent(p) THEN "none" ELSE "Io"
             r1 == [proc[p] EXCEPT !.pc = x]
             r == [r1 EXCEPT !.result = y]
  <2>1. x \in PC /\ y \in Result /\ x \in {"down", "idle"} \union Opening /\ x # "checked"
    BY DEF PC, Opening, Open, Result
  <2>2. proc' = [proc EXCEPT ![p].pc = x, ![p].result = y]
    BY <1>5 DEF OpenAbsent, OpenFails
  <2> HIDE DEF x, y
  <2>3. proc' = [proc EXCEPT ![p] = r]
    BY <1>1, <2>2 DEF FileInv, TypeOK, Proc
  <2>4. r1 \in Proc /\ r1.pc = x /\ r1.handle = NoInode
    BY <1>1, <1>2, <2>1, SetField, KeptFields
  <2> HIDE DEF r1
  <2>5. r \in Proc /\ r.pc = x /\ r.handle = NoInode
    BY <2>1, <2>4, SetField, KeptFields DEF SameToken
  <2> HIDE DEF r
  <2>6. UNCHANGED <<dir, disk, data, confirmed>>
    BY <1>5 DEF OpenAbsent, OpenFails, files
  <2>7. QED
    BY <1>1, <2>1, <2>3, <2>5, <2>6, Release
<1>6. QED
  BY <1>3, <1>4, <1>5

LEMMA SetRetentionFileInv ==
    ASSUME FileInv, NEW p \in Procs, NEW c \in Contents, NEW policy \in Policies,
           SetRetention(p, c, policy)
    PROVE  FileInv'
<1>1. /\ proc[p].pc = "idle" /\ proc[p].handle = NoInode /\ proc[p] \in Proc
      /\ UNCHANGED <<dir, disk, data, root, rootDisk, confirmed, adopted>> /\ RootMoves
  BY NoHandle DEF SetRetention, files, FileInv, TypeOK, RootMoves
<1>2. CASE proc' = [proc EXCEPT ![p].result = "NotFound"]
  <2>1. PICK r \in Proc : /\ proc' = [proc EXCEPT ![p] = r]
                          /\ r.pc = "idle" /\ r.handle = NoInode
    BY <1>1, <1>2, Reports DEF Result
  <2>2. QED
    BY <1>1, <2>1, Release
<1>3. CASE proc' = [proc EXCEPT ![p].retention[c] = policy, ![p].result = "none"]
  <2> DEFINE policies == [proc[p].retention EXCEPT ![c] = policy]
             r1 == [proc[p] EXCEPT !.retention = policies]
             r == [r1 EXCEPT !.result = "none"]
  <2>1. proc' = [proc EXCEPT ![p] = r]
    BY <1>3 DEF FileInv, TypeOK, Proc
  <2>2. proc[p].retention \in [Contents -> Retention]
    BY <1>1 DEF Proc
  <2>3. policies \in [Contents -> Retention] /\ "none" \in Result
    BY <2>2 DEF Retention, Result
  <2> HIDE DEF policies
  <2>4. r1 \in Proc /\ r1.pc = "idle" /\ r1.handle = NoInode
    BY <1>1, <2>3, SetField, KeptFields DEF SameToken
  <2> HIDE DEF r1
  <2>5. r \in Proc /\ r.pc = "idle" /\ r.handle = NoInode
    BY <2>3, <2>4, SetField, KeptFields DEF SameToken
  <2> HIDE DEF r
  <2>6. QED
    BY <1>1, <2>1, <2>5, Release
<1>4. QED
  BY <1>2, <1>3 DEF SetRetention

\* A step after which no call owns a file.
LEMMA NobodyOwns ==
    ASSUME TypeOK', FinalIsWhole', ConfirmedIsDurable',
           \A q \in Procs : proc'[q].pc \in {"down", "idle"} /\ proc'[q].handle = NoInode
    PROVE  FileInv'
<1>1. \A q \in Procs : proc'[q].pc \notin Owning \union {"checked"}
  BY DEF Owning
<1>2. TokenKnown' /\ OneOwner' /\ HandleIsPrivate' /\ StagedIsWhole'
  BY <1>1 DEF TokenKnown, OneOwner, HandleIsPrivate, StagedIsWhole, Owning, Written
<1>3. QED
  BY <1>2 DEF FileInv

LEMMA RemoveAllFileInv == ASSUME FileInv, NEW p \in Procs, RemoveAll(p) PROVE FileInv'
<1>1. PICK r \in Proc : /\ proc' = [proc EXCEPT ![p] = r]
                        /\ r.pc = "idle" /\ r.handle = NoInode
  BY Reports DEF RemoveAll, Result
<1>2. /\ proc' \in [Procs -> Proc] /\ proc'[p] = r
      /\ \A q \in Procs \ {p} : proc'[q] = proc[q]
  BY <1>1, OneMoves DEF FileInv, TypeOK
<1>3. \A q \in Procs : proc'[q].pc \in {"down", "idle"} /\ proc'[q].handle = NoInode
  BY <1>1, <1>2, NoHandle DEF RemoveAll
<1>4. TypeOK'
  BY <1>2 DEF RemoveAll, FileInv, TypeOK, RootMoves
<1>5. FinalIsWhole' /\ ConfirmedIsDurable'
  BY DEF RemoveAll, FileInv, FinalIsWhole, ConfirmedIsDurable, Names, RootMoves
<1>6. QED
  BY <1>3, <1>4, <1>5, NobodyOwns

LEMMA DownIsProc == Down("none") \in Proc /\ Down("none").pc = "down" /\ Down("none").handle = NoInode
BY StoreAssumption DEF Down, Proc, PC, Opening, Open, Result, NoRetention, Retention

LEMMA CrashFileInv == ASSUME FileInv, NEW p \in Procs, Crash(p) PROVE FileInv'
<1>1. /\ proc' = [proc EXCEPT ![p] = Down("none")]
      /\ UNCHANGED <<dir, disk, data, confirmed>> /\ RootMoves
  BY DEF Crash, files, FileInv, TypeOK, RootMoves
<1>2. QED
  BY <1>1, DownIsProc, Release

\* A loss of power: the root is gone with all its entries, which no confirmed
\* content can be among, or every entry comes back from one of its directories.
LEMMA PowerLossFileInv == ASSUME FileInv, RootInv, PowerLoss PROVE FileInv'
<1>1. /\ dir' \in [Names -> Inodes \union {NoInode}] /\ disk' = dir'
      /\ \A n \in Names : dir'[n] = dir[n] \/ dir'[n] = disk[n] \/ dir'[n] = NoInode
      /\ root' => \A n \in Names : dir'[n] = dir[n] \/ dir'[n] = disk[n]
      /\ UNCHANGED <<data, confirmed, adopted>> /\ RootMoves
  BY DEF PowerLoss, FileInv, TypeOK, RootMoves
<1>2. proc' = [p \in Procs |-> Down("none")]
  BY DEF PowerLoss
<1>3. \A q \in Procs : proc'[q].pc \in {"down", "idle"} /\ proc'[q].handle = NoInode
  BY <1>2, DownIsProc
<1>4. TypeOK'
  BY <1>1, <1>2, DownIsProc DEF FileInv, TypeOK, RootMoves
<1>5. FinalIsWhole'
  BY <1>1 DEF FileInv, FinalIsWhole, Names
<1>6. ConfirmedIsDurable'
  <2>1. ASSUME ~adopted, confirmed # {} PROVE root'
    BY <2>1 DEF RootInv, PowerLoss
  <2>2. QED
    BY <1>1, <2>1 DEF FileInv, ConfirmedIsDurable, TypeOK, Names
<1>7. QED
  BY <1>3, <1>4, <1>5, <1>6, NobodyOwns

\* Bytes another program leaves under a digest touch no file of the store.
LEMMA ForeignFileFileInv == ASSUME FileInv, NEW c \in Contents, ForeignFile(c) PROVE FileInv'
<1>1. PICK i \in Free : dir' = [dir EXCEPT ![c] = i] /\ data' = [data EXCEPT ![i] = "foreign"]
  BY DEF ForeignFile
<1>2. dir[c] = NoInode /\ UNCHANGED <<disk, root, rootDisk, confirmed, adopted, proc>>
  BY DEF ForeignFile, Visible, Exists
<1>3. /\ i \in Inodes /\ \A n \in Names : dir[n] # i /\ disk[n] # i
      /\ \A q \in Procs : proc[q].handle # i
  BY DEF Free
<1>4. /\ dir' \in [Names -> Inodes \union {NoInode}] /\ dir'[c] = i
      /\ \A n \in Names \ {c} : dir'[n] = dir[n]
  BY <1>1, <1>3 DEF FileInv, TypeOK, Names
<1>5. /\ data' \in [Inodes -> Bytes] /\ data'[i] = "foreign"
      /\ \A j \in Inodes \ {i} : data'[j] = data[j]
  BY <1>1, <1>3 DEF FileInv, TypeOK, Bytes
<1>6. \A q \in Procs : TempOf(q)' = TempOf(q)
  BY <1>2 DEF TempOf
<1>7. \A q \in Procs : proc[q].pc \in Owning =>
        /\ TempOf(q) \in Names /\ TempOf(q) # c
        /\ dir'[TempOf(q)] = dir[TempOf(q)] /\ dir[TempOf(q)] \in Inodes \ {i}
  <2>1. ASSUME NEW q \in Procs, proc[q].pc \in Owning
        PROVE  /\ TempOf(q) \in Names /\ TempOf(q) # c
               /\ dir'[TempOf(q)] = dir[TempOf(q)] /\ dir[TempOf(q)] \in Inodes \ {i}
    <3>1. TempOf(q) \in Names /\ TempOf(q) # c
      BY <2>1, TempIsName DEF FileInv
    <3>2. dir[TempOf(q)] # NoInode
      BY <2>1 DEF FileInv, OneOwner, Exists
    <3>3. QED
      BY <3>1, <3>2, <1>3, <1>4 DEF FileInv, TypeOK
  <2>2. QED
    BY <2>1
<1>8. TypeOK'
  BY <1>2, <1>4, <1>5 DEF FileInv, TypeOK, RootMoves
<1>9. TokenKnown'
  BY <1>2 DEF FileInv, TokenKnown
<1>10. OneOwner'
  BY <1>2, <1>6, <1>7 DEF FileInv, OneOwner, Exists
<1>11. HandleIsPrivate'
  <2>1. ASSUME NEW q \in Procs, proc[q].pc = "created"
        PROVE  /\ proc[q].handle \in Inodes /\ dir'[TempOf(q)] = proc[q].handle
               /\ \A n \in Names \ {TempOf(q)} :
                     dir'[n] # proc[q].handle /\ disk[n] # proc[q].handle
    BY <2>1, <1>3, <1>4, <1>7 DEF FileInv, HandleIsPrivate, Owning
  <2>2. ASSUME NEW q \in Procs, proc[q].pc # "created"
        PROVE  proc[q].handle = NoInode
    BY <2>2 DEF FileInv, HandleIsPrivate
  <2>3. QED
    BY <1>2, <1>6, <2>1, <2>2 DEF HandleIsPrivate
<1>12. StagedIsWhole'
  BY <1>2, <1>5, <1>6, <1>7 DEF FileInv, StagedIsWhole, Written, Owning
<1>13. FinalIsWhole'
  BY <1>2, <1>3, <1>4, <1>5 DEF FileInv, FinalIsWhole, TypeOK, Names
<1>14. ConfirmedIsDurable'
  BY <1>2, <1>3, <1>4, <1>5 DEF FileInv, ConfirmedIsDurable, TypeOK, Names, RootMoves
<1>15. QED
  BY <1>8, <1>9, <1>10, <1>11, <1>12, <1>13, <1>14 DEF FileInv

LEMMA InitFileInv == Init => FileInv
<1> SUFFICES ASSUME Init PROVE FileInv
  OBVIOUS
<1>1. \A p \in Procs : proc[p].pc = "down" /\ proc[p].handle = NoInode
  BY DownIsProc DEF Init
<1>2. TypeOK
  BY DownIsProc DEF Init, TypeOK, Bytes
<1>3. FinalIsWhole /\ ConfirmedIsDurable
  BY DEF Init, FinalIsWhole, ConfirmedIsDurable, Names
<1>4. TokenKnown /\ OneOwner /\ HandleIsPrivate /\ StagedIsWhole
  BY <1>1 DEF TokenKnown, OneOwner, HandleIsPrivate, StagedIsWhole, Owning, Written
<1>5. QED
  BY <1>2, <1>3, <1>4 DEF FileInv

LEMMA NextFileInv == IInv /\ [Next]_vars => FileInv'
<1> SUFFICES ASSUME FileInv, RootInv, [Next]_vars PROVE FileInv'
  BY DEF IInv
<1>0. ASSUME NEW p \in Procs, OpenExisting(p) \/ OpenSyncParent(p) PROVE FileInv'
  BY <1>0, OpenedFileInv
<1>1. ASSUME NEW p \in Procs, OpenAbsent(p) \/ OpenCreate(p) \/ OpenSync(p) \/ OpenFails(p)
      PROVE  FileInv'
  BY <1>1, OpeningFileInv
<1>2. ASSUME NEW p \in Procs, NEW c \in Contents, StageCheck(p, c) PROVE FileInv'
  BY <1>2, StageCheckFileInv
<1>3. ASSUME NEW p \in Procs, StageCreate(p) PROVE FileInv'
  BY <1>3, StageCreateFileInv
<1>4. ASSUME NEW p \in Procs, StageWrite(p) PROVE FileInv'
  BY <1>4, StageWriteFileInv
<1>5. ASSUME NEW p \in Procs, CommitLink(p) PROVE FileInv'
  BY <1>5, CommitLinkFileInv
<1>6. ASSUME NEW p \in Procs, CommitCompare(p) PROVE FileInv'
  BY <1>6, CommitCompareFileInv
<1>7. ASSUME NEW p \in Procs, CommitClean(p) PROVE FileInv'
  BY <1>7, CommitCleanFileInv
<1>8. ASSUME NEW p \in Procs, CommitForeign(p) \/ DropStaged(p) PROVE FileInv'
  BY <1>8, TokenDropsFileInv
<1>9. ASSUME NEW p \in Procs, SyncPublished(p) PROVE FileInv'
  BY <1>9, SyncPublishedFileInv
<1>10. ASSUME NEW p \in Procs, NEW c \in Contents, NEW policy \in Policies,
              SetRetention(p, c, policy)
       PROVE  FileInv'
  BY <1>10, SetRetentionFileInv
<1>11. ASSUME NEW p \in Procs, RemoveAll(p) PROVE FileInv'
  BY <1>11, RemoveAllFileInv
<1>12. ASSUME NEW p \in Procs, Crash(p) PROVE FileInv'
  BY <1>12, CrashFileInv
<1>13. CASE PowerLoss
  BY <1>13, PowerLossFileInv
<1>14. ASSUME NEW c \in Contents, ForeignFile(c) PROVE FileInv'
  BY <1>14, ForeignFileFileInv
<1>15. CASE UNCHANGED vars
  BY <1>15 DEF vars, FileInv, TypeOK, TokenKnown, OneOwner, HandleIsPrivate, StagedIsWhole,
               FinalIsWhole, ConfirmedIsDurable, Exists, TempOf
<1>16. QED
  BY <1>0, <1>1, <1>2, <1>3, <1>4, <1>5, <1>6, <1>7, <1>8, <1>9, <1>10, <1>11, <1>12, <1>13,
     <1>14, <1>15 DEF Next

\* No step opens a store in a root that may be lost without owning up to it.
LEMMA NextRootInv == IInv /\ [Next]_vars => RootInv'
<1> SUFFICES ASSUME IInv, [Next]_vars PROVE RootInv'
  OBVIOUS
<1>0. /\ proc \in [Procs -> Proc] /\ root \in BOOLEAN /\ rootDisk \in BOOLEAN /\ adopted \in BOOLEAN
      /\ \A p \in Procs : proc[p].pc \in PC
  BY DEF IInv, FileInv, TypeOK, Proc
<1> DEFINE Moves(p, x) == /\ proc'[p].pc = x
                          /\ \A q \in Procs \ {p} : proc'[q] = proc[q]
<1>1. ASSUME NEW p \in Procs, OpenExisting(p) PROVE RootInv'
  <2>1. Moves(p, IF proc[p].pc = "staged" THEN "staged" ELSE "idle")
    BY <1>0, <1>1 DEF OpenExisting, Opened, Proc
  <2>2. QED
    BY <1>1, <2>1 DEF IInv, RootInv, OpenExisting
<1>2. ASSUME NEW p \in Procs, OpenAbsent(p) PROVE RootInv'
  <2>1. Moves(p, "absent")
    BY <1>0, <1>2 DEF OpenAbsent, Proc
  <2>2. QED
    BY <1>2, <2>1 DEF IInv, RootInv, OpenAbsent, files, Open
<1>3. ASSUME NEW p \in Procs, OpenCreate(p) PROVE RootInv'
  <2>1. Moves(p, "made")
    BY <1>0, <1>3 DEF OpenCreate, Proc
  <2>2. QED
    BY <1>3, <2>1 DEF IInv, RootInv, OpenCreate, Open
<1>4. ASSUME NEW p \in Procs, OpenSync(p) PROVE RootInv'
  <2>1. Moves(p, "synced")
    BY <1>0, <1>4 DEF OpenSync, Proc
  <2>2. QED
    BY <1>4, <2>1 DEF IInv, RootInv, OpenSync, Open
<1>5. ASSUME NEW p \in Procs, OpenSyncParent(p) PROVE RootInv'
  <2>1. Moves(p, "idle")
    BY <1>0, <1>5 DEF OpenSyncParent, Opened, Proc
  <2>2. QED
    BY <1>5, <2>1 DEF IInv, RootInv, OpenSyncParent
<1>6. ASSUME NEW p \in Procs, OpenFails(p) PROVE RootInv'
  <2>1. Moves(p, IF proc[p].store = 0 THEN "down" ELSE "idle")
    BY <1>0, <1>6 DEF OpenFails, Proc
  <2>2. QED
    <3>1. /\ UNCHANGED <<root, rootDisk, confirmed>>
          /\ adopted => adopted'
          /\ proc[p].store # 0 /\ root /\ ~rootDisk => adopted'
      BY <1>6 DEF OpenFails
    <3>2. CASE proc[p].store = 0
      <4>1. proc'[p].pc = "down" /\ \A q \in Procs \ {p} : proc'[q].pc = proc[q].pc
        BY <2>1, <3>2
      <4>2. QED
        BY <3>1, <4>1 DEF IInv, RootInv, Open
    <3>3. CASE proc[p].store # 0
      <4>1. proc'[p].pc = "idle" /\ \A q \in Procs \ {p} : proc'[q].pc = proc[q].pc
        BY <2>1, <3>3
      <4>2. QED
        BY <3>1, <3>3, <4>1 DEF IInv, RootInv
    <3>4. QED
      BY <3>2, <3>3
<1>7. ASSUME NEW p \in Procs, RemoveAll(p) PROVE RootInv'
  <2>0. \A q \in Procs \ {p} : proc[q].pc = "down"
    BY <1>7 DEF RemoveAll
  <2>1. Moves(p, "idle")
    BY <1>0, <1>7 DEF RemoveAll, Proc
  <2>2. QED
    <3>1. root' = FALSE /\ rootDisk' = FALSE /\ adopted' = FALSE /\ confirmed' = {}
      BY <1>7 DEF RemoveAll
    <3>2. \A q \in Procs : proc'[q].pc \in {"idle", "down"}
      BY <2>0, <2>1
    <3>3. QED
      BY <3>1, <3>2 DEF RootInv
<1>8. ASSUME NEW p \in Procs, Crash(p) PROVE RootInv'
  <2>1. Moves(p, "down")
    BY <1>0, <1>8, DownIsProc DEF Crash
  <2>2. QED
    BY <1>8, <2>1 DEF IInv, RootInv, Crash, files, Open
<1>9. CASE PowerLoss
  <2>1. \A q \in Procs : proc'[q].pc = "down"
    BY <1>9, DownIsProc DEF PowerLoss
  <2>2. QED
    BY <1>9, <2>1 DEF IInv, RootInv, PowerLoss, Open
<1>10. CASE UNCHANGED vars
  BY <1>10 DEF IInv, RootInv, vars
<1>11. ASSUME NEW p \in Procs, proc[p].pc \in Open, UNCHANGED <<root, rootDisk, adopted>>,
              root \/ UNCHANGED confirmed, NEW x \in Open, Moves(p, x)
       PROVE  RootInv'
  BY <1>0, <1>11 DEF IInv, RootInv, Open
<1>12. ASSUME NEW p \in Procs,
              \/ StageCreate(p) \/ StageWrite(p) \/ CommitLink(p) \/ CommitCompare(p)
              \/ CommitClean(p) \/ CommitForeign(p) \/ DropStaged(p) \/ SyncPublished(p)
              \/ \E c \in Contents : StageCheck(p, c)
              \/ \E c \in Contents, policy \in Policies : SetRetention(p, c, policy)
       PROVE  RootInv'
  <2>1. /\ proc[p].pc \in Open /\ UNCHANGED <<root, rootDisk, adopted>>
        /\ root \/ UNCHANGED confirmed
    BY <1>12 DEF StageCreate, StageWrite, CommitLink, CommitCompare, CommitClean, CommitForeign,
                 DropStaged, SyncPublished, StageCheck, SetRetention, files, Open
  <2>2. \A x \in Result : Return(p, x) => Moves(p, "idle")
    BY <1>0 DEF Return, Proc
  <2>3. \E x \in Open : Moves(p, x)
    <3>1. CASE StageCreate(p)
      <4>1. Return(p, "Io") \/ Return(p, "NotFound") \/ \E i \in Free : proc' = [proc EXCEPT ![p].pc = "created", ![p].handle = i]
        BY <3>1 DEF StageCreate
      <4>2. Moves(p, "idle") \/ Moves(p, "created")
        BY <1>0, <2>2, <4>1 DEF Proc, Result
      <4>3. QED
        BY <4>2 DEF Open
    <3>2. CASE StageWrite(p)
      <4>1. \/ Return(p, "Io")
            \/ proc' = [proc EXCEPT ![p].pc = "staged", ![p].handle = NoInode, ![p].result = "staged"]
        BY <3>2 DEF StageWrite
      <4>2. Moves(p, "idle") \/ Moves(p, "staged")
        BY <1>0, <2>2, <4>1 DEF Proc, Result
      <4>3. QED
        BY <4>2 DEF Open
    <3>3. CASE CommitLink(p) \/ CommitCompare(p)
      BY <1>0, <2>2, <3>3 DEF CommitLink, CommitCompare, Open, Proc, Result
    <3>4. CASE CommitClean(p)
      <4>1. Moves(p, "idle")
        BY <1>0, <3>4, CommitCleanFacts, OneMoves
      <4>2. QED
        BY <4>1 DEF Open
    <3>5. CASE CommitForeign(p) \/ DropStaged(p)
      BY <1>0, <2>2, <3>5 DEF CommitForeign, DropStaged, Open, Result
    <3>6. CASE SyncPublished(p) \/ \E c \in Contents, policy \in Policies : SetRetention(p, c, policy)
      <4>1. \/ \E x : proc' = [proc EXCEPT ![p].result = x]
            \/ \E c \in Contents : \E y : proc' = [proc EXCEPT ![p].retention[c] = y, ![p].result = "none"]
        BY <3>6 DEF SyncPublished, SetRetention
      <4>2. Moves(p, proc[p].pc)
        BY <1>0, <4>1 DEF Proc
      <4>3. QED
        BY <2>1, <4>2
    <3>7. CASE \E c \in Contents : StageCheck(p, c)
      <4>1. PICK c \in Contents : StageCheck(p, c)
        BY <3>7
      <4>2. CASE Return(p, "Collision")
        BY <2>2, <4>2 DEF Open, Result
      <4>3. CASE ~Return(p, "Collision")
        <5>1. Moves(p, "checked")
          BY <1>0, <4>1, <4>3, StageCheckFacts, OneMoves
        <5>2. QED
          BY <5>1 DEF Open
      <4>4. QED
        BY <4>2, <4>3
    <3>8. QED
      BY <1>12, <3>1, <3>2, <3>3, <3>4, <3>5, <3>6, <3>7
  <2>4. QED
    BY <1>11, <2>1, <2>3
<1>13. ASSUME NEW c \in Contents, ForeignFile(c) PROVE RootInv'
  BY <1>13 DEF IInv, RootInv, ForeignFile
<1>14. QED
  BY <1>1, <1>2, <1>3, <1>4, <1>5, <1>6, <1>7, <1>8, <1>9, <1>10, <1>12, <1>13 DEF Next

LEMMA InitIInv == Init => IInv
<1>1. Init => RootInv
  BY DownIsProc DEF Init, RootInv
<1>2. QED
  BY <1>1, InitFileInv DEF IInv

LEMMA NextIInv == IInv /\ [Next]_vars => IInv'
BY NextFileInv, NextRootInv DEF IInv

-----------------------------------------------------------------------------
(* Theorems.                                                                *)

\* The inductive invariant holds of every use of the store.
THEOREM Invariance == Spec => []IInv
BY InitIInv, NextIInv, PTL DEF Spec

\* Type correctness of the directories, the inodes and the calls under way.
THEOREM TypeCorrect == Spec => []TypeOK
<1>1. IInv => TypeOK
  BY DEF IInv, FileInv
<1>2. QED
  BY Invariance, <1>1, PTL

\* Whatever processes, crashes and losses of power come between the calls of a
\* stage and a commit, no torn file is ever visible under a digest.
THEOREM WholeWhenVisible == Spec => []VisibleIsWhole
<1>1. IInv => VisibleIsWhole
  BY DEF IInv, FileInv, FinalIsWhole, VisibleIsWhole, Visible, Exists, Read
<1>2. QED
  BY Invariance, <1>1, PTL

\* What sync_published has confirmed stays readable until the store is removed:
\* a creator that syncs the root and its parent before it returns a store is
\* enough, as long as no store was opened on a root between those calls.
THEOREM ConfirmedStays == Spec => []ConfirmedSurvives
<1>1. IInv => ConfirmedSurvives
  BY DEF IInv, FileInv, ConfirmedIsDurable, ConfirmedSurvives, ReadPage, Visible, Exists, Read
<1>2. QED
  BY Invariance, <1>1, PTL

-----------------------------------------------------------------------------
(* Action property.                                                         *)

\* A published file is frozen.  No step changes its bytes, and its name goes
\* only with the whole root, or back to the last sync after a loss of power:
\* no stage, commit or drop of any process replaces or unlinks it.
NeverReplaced ==
    [][\A c \in Contents : Visible(c) =>
          /\ data'[dir[c]] = data[dir[c]]
          /\ dir'[c] \in {dir[c], disk[c]} \/ ~root']_vars

\* Published content is never replaced or rewritten by a store.
THEOREM PublishedIsFrozen == Spec => NeverReplaced
<1> DEFINE Kept(c) == /\ data'[dir[c]] = data[dir[c]]
                      /\ dir'[c] \in {dir[c], disk[c]} \/ ~root'
           A == \A c \in Contents : Visible(c) => Kept(c)
<1>1. IInv /\ [Next]_vars => [A]_vars
  <2> SUFFICES ASSUME IInv, Next, NEW c \in Contents, Visible(c) PROVE Kept(c)
    OBVIOUS
  <2>1. /\ c \in Names /\ dir[c] \in Inodes
        /\ dir \in [Names -> Inodes \union {NoInode}] /\ data \in [Inodes -> Bytes]
    BY DEF IInv, FileInv, TypeOK, Visible, Exists, Names
  <2>2. ASSUME NEW p \in Procs, proc[p].pc \in Owning \union {"checked"}
        PROVE  TempOf(p) \in Names /\ TempOf(p) # c
    BY <2>2, NameAssumption DEF IInv, FileInv, TokenKnown, TempOf, Names, Temp
  <2>3. ASSUME NEW n \in Names, n # c, RemoveTemporary(n) PROVE dir'[c] = dir[c]
    BY <2>1, <2>3 DEF RemoveTemporary, Unlink
  <2>4. ASSUME NEW p \in Procs, StageCreate(p) PROVE Kept(c)
    <3>1. \/ UNCHANGED <<dir, data>>
          \/ \E i \in Free : dir' = [dir EXCEPT ![TempOf(p)] = i] /\ data' = [data EXCEPT ![i] = "torn"]
      BY <2>4 DEF StageCreate
    <3>2. TempOf(p) \in Names /\ TempOf(p) # c
      BY <2>2, <2>4 DEF StageCreate
    <3>3. QED
      BY <2>1, <3>1, <3>2 DEF Free
  <2>5. ASSUME NEW p \in Procs, StageWrite(p) PROVE Kept(c)
    <3>1. TempOf(p) \in Names /\ TempOf(p) # c
      BY <2>2, <2>5 DEF StageWrite, Owning
    <3>2. proc[p].handle # dir[c]
      BY <2>1, <2>5, <3>1 DEF StageWrite, IInv, FileInv, HandleIsPrivate
    <3>3. data'[dir[c]] = data[dir[c]]
      BY <2>1, <2>5, <3>2 DEF StageWrite
    <3>4. dir'[c] = dir[c]
      BY <2>3, <2>5, <3>1 DEF StageWrite
    <3>5. QED
      BY <3>3, <3>4
  <2>6. ASSUME NEW p \in Procs, CommitLink(p) PROVE Kept(c)
    BY <2>1, <2>6 DEF CommitLink, Visible
  <2>7. ASSUME NEW p \in Procs, CommitCompare(p) \/ CommitClean(p) \/ CommitForeign(p) \/ DropStaged(p)
        PROVE  Kept(c)
    <3>1. TempOf(p) \in Names /\ TempOf(p) # c
      BY <2>2, <2>7 DEF CommitCompare, CommitClean, CommitForeign, DropStaged, Owning
    <3>2. QED
      BY <2>3, <2>7, <3>1 DEF CommitCompare, CommitClean, CommitForeign, DropStaged
  <2>8. CASE PowerLoss
    BY <2>1, <2>8 DEF PowerLoss
  <2>9. ASSUME NEW d \in Contents, ForeignFile(d) PROVE Kept(c)
    BY <2>1, <2>9 DEF ForeignFile, Visible, Free, Names
  <2>10. ASSUME NEW p \in Procs,
                \/ OpenExisting(p) \/ OpenAbsent(p) \/ OpenCreate(p) \/ OpenSync(p)
                \/ OpenSyncParent(p) \/ OpenFails(p)
                \/ SyncPublished(p) \/ RemoveAll(p) \/ Crash(p)
                \/ \E d \in Contents : StageCheck(p, d)
                \/ \E d \in Contents, policy \in Policies : SetRetention(p, d, policy)
         PROVE  Kept(c)
    BY <2>10 DEF OpenExisting, OpenAbsent, OpenCreate, OpenSync, OpenSyncParent, OpenFails,
                 SyncPublished, RemoveAll, Crash, StageCheck, SetRetention, files
  <2>11. QED
    BY <2>4, <2>5, <2>6, <2>7, <2>8, <2>9, <2>10 DEF Next
<1>2. QED
  BY <1>1, Invariance, PTL DEF Spec, NeverReplaced

(***************************************************************************)
(* SandboxProcess.                                                         *)
(***************************************************************************)

\* Where the execution is, who owns its resources, and what became of its stage.
Early == {"preflight", "spawn", "capture"}
LifeInv ==
    /\ phase = "done" <=> result # None
    /\ phase \in Early => \A s \in Streams : stream[s] = "none"
    /\ phase \in {"preflight", "spawn"} => cleanup = "none" /\ \A q \in Group : state[q] = "none"
    /\ phase \notin {"preflight", "spawn", "done"} => cleanup = "reserved"
    /\ phase \notin {"terminate", "settle", "done"} => failure = None
    /\ phase \notin Early \cup {"done"} /\ failure = None => \A p \in Pipes : stream[p] # "none"
    /\ phase # "done" => stage \in {"none", "private"}

\* Resources are released, and a stage handed out or removed, only when the
\* child was reaped and every capture thread has ended.
ReleaseInv ==
    /\ cleanup = "released" => phase = "done" /\ reaped /\ StreamsFinished
    /\ stage \in {"receipt", "published", "partial"} => cleanup = "released" /\ result = Receipt("ok")
    /\ stage = "removed" => cleanup \in {"none", "released"}
    /\ phase = "done" /\ result.kind = "receipt" =>
          cleanup = "released" /\ ~exceeded /\ \A p \in Pipes : stream[p] = "done"

\* No byte is dropped unless the budget's flag is raised, or about to be; a
\* reader at end of file has read everything, and nobody holds the write end.
AccountInv ==
    \A p \in Pipes :
        /\ kept[p] + unread[p] = written[p] \/ exceeded \/ stream[p] = "flag"
        /\ stream[p] = "done" => unread[p] = 0 /\ ends[p] = {}

\* How late it may be, by the loop that is running.
TimeInv ==
    wall # None =>
       /\ phase \in Early \cup {"witness"} => now = 0
       /\ phase = "wait" => /\ wallAt = wall
                            /\ now <= wall \/ (dAt # None /\ now <= dAt)
                            /\ dAt # None => dAt <= wall + Grace
       /\ phase = "terminate" => /\ settleAt # None /\ settleAt <= wall + Grace + CleanupTimeout
                                 /\ dAt = None => now <= settleAt
                                 /\ dAt # None => now <= dAt /\ dAt <= settleAt + Grace
       /\ phase = "settle" => settleAt # None /\ settleAt <= wall + 2 * Grace + CleanupTimeout
       /\ now <= wall + 2 * Grace + CleanupTimeout
       /\ phase \in {"preflight", "spawn", "capture", "witness"} => dAt = None

ProcessIInv == ProcessTypeOK /\ LifeInv /\ ReleaseInv /\ AccountInv /\ TimeInv

-----------------------------------------------------------------------------
(* Parts of the invariant that a step does not touch.                       *)

LEMMA LifeStays ==
    ASSUME LifeInv, UNCHANGED <<phase, result, stream, state, cleanup, failure, stage>>
    PROVE  LifeInv'
BY DEF LifeInv

LEMMA ReleaseStays ==
    ASSUME ReleaseInv, UNCHANGED <<phase, result, stream, cleanup, stage, reaped, exceeded>>
    PROVE  ReleaseInv'
BY DEF ReleaseInv, StreamsFinished

LEMMA AccountStays ==
    ASSUME AccountInv, UNCHANGED <<kept, unread, written, exceeded, stream, ends>>
    PROVE  AccountInv'
BY DEF AccountInv

LEMMA TimeStays ==
    ASSUME TimeInv, UNCHANGED <<wall, now, phase, wallAt, dAt, settleAt>>
    PROVE  TimeInv'
BY DEF TimeInv, Grace

\* The D-state allowance is a number of poll intervals.
LEMMA GraceIsNat == ASSUME ProcessTypeOK PROVE Grace \in Nat /\ (wall # None => wall \in Nat)
BY SandboxAssumption DEF ProcessTypeOK, Grace

\* The deadlines are times.
LEMMA DeadlineTypes ==
    ASSUME ProcessTypeOK
    PROVE  /\ now + CleanupTimeout \in Nat /\ now + Grace \in Nat
           /\ wall # None => now + wall \in Nat
           /\ DAtAfterWait \in Nat \cup {None} /\ DAtAfterReap \in Nat \cup {None}
<1>1. now \in Nat /\ CleanupTimeout \in Nat /\ dAt \in Nat \cup {None}
  BY SandboxAssumption DEF ProcessTypeOK
<1>2. now + Grace \in Nat /\ now + CleanupTimeout \in Nat /\ (wall # None => now + wall \in Nat)
  BY <1>1, GraceIsNat
<1>3. QED
  BY <1>1, <1>2 DEF DAtAfterWait, DAtAfterReap, DeadlineOf

LEMMA TerminationTypes ==
    ASSUME ProcessTypeOK, NEW e \in {None, "Run"}, StartTermination(e)
    PROVE  /\ phase' \in Phases /\ settleAt' \in Nat /\ dAt' = None /\ killSent' \in BOOLEAN
           /\ failure' \in {None, "Run"}
BY DeadlineTypes DEF StartTermination, Phases

LEMMA PreflightIInv == ASSUME ProcessIInv, Preflight PROVE ProcessIInv'
<1>1. ProcessTypeOK'
  BY SandboxAssumption, NoneAssumption DEF ProcessIInv, ProcessTypeOK, Phases, Group, Pipes, Streams, Preflight, procVars, ioVars, waitVars, StageOutput, Returned, Error, Results, Errors
<1>2. LifeInv'
  BY SandboxAssumption, NoneAssumption DEF ProcessIInv, ProcessTypeOK, LifeInv, Streams, Pipes, Group, Early, Preflight, procVars, ioVars, waitVars, StageOutput, Returned, Error, Results, Errors
<1>3. ReleaseInv'
  BY SandboxAssumption, NoneAssumption DEF ProcessIInv, ProcessTypeOK, ReleaseInv, LifeInv, StreamsFinished, Streams, Pipes, Early, Preflight, procVars, ioVars, waitVars, StageOutput, Returned, Error, Results, Errors
<1>4. AccountInv'
  BY AccountStays DEF ProcessIInv, Preflight, procVars, ioVars, waitVars
<1>5. TimeInv'
  BY SandboxAssumption, NoneAssumption, GraceIsNat DEF ProcessIInv, ProcessTypeOK, TimeInv, LifeInv, Early, Grace, Preflight, procVars, ioVars, waitVars, StageOutput, Returned, Error, Results, Errors
<1>6. QED
  BY <1>1, <1>2, <1>3, <1>4, <1>5 DEF ProcessIInv

LEMMA SpawnIInv == ASSUME ProcessIInv, Spawn PROVE ProcessIInv'
<1>1. ProcessTypeOK'
  BY SandboxAssumption, NoneAssumption DEF ProcessIInv, ProcessTypeOK, Phases, Group, Pipes, Streams, Spawn, procVars, ioVars, waitVars, Returned, Error, Results, Errors
<1>2. LifeInv'
  BY SandboxAssumption, NoneAssumption DEF ProcessIInv, ProcessTypeOK, LifeInv, Streams, Pipes, Group, Early, Spawn, procVars, ioVars, waitVars, Returned, Error, Results, Errors
<1>3. ReleaseInv'
  BY SandboxAssumption, NoneAssumption DEF ProcessIInv, ProcessTypeOK, ReleaseInv, LifeInv, StreamsFinished, Streams, Pipes, Early, Spawn, procVars, ioVars, waitVars, Returned, Error, Results, Errors
<1>4. AccountInv'
  BY SandboxAssumption, NoneAssumption DEF ProcessIInv, ProcessTypeOK, AccountInv, LifeInv, Alive, Streams, Pipes, Group, Early, Spawn, procVars, ioVars, waitVars, Returned, Error, Results, Errors
<1>5. TimeInv'
  BY SandboxAssumption, NoneAssumption, GraceIsNat DEF ProcessIInv, ProcessTypeOK, TimeInv, LifeInv, Early, Grace, Spawn, procVars, ioVars, waitVars, Returned, Error, Results, Errors
<1>6. QED
  BY <1>1, <1>2, <1>3, <1>4, <1>5 DEF ProcessIInv

LEMMA CaptureIInv == ASSUME ProcessIInv, Capture PROVE ProcessIInv'
<1>1. ProcessTypeOK'
  <2>1. /\ stream' \in [Streams -> {"none", "work", "flag", "done", "failed"}]
        /\ UNCHANGED <<wall, now, state, status, ends, written, unread, kept, remaining, exceeded, stage>>
    BY DEF Capture, Streams, Pipes
  <2>2. signalled' \subseteq Group /\ reaped' \in BOOLEAN
    BY DEF Capture, ProcessIInv, ProcessTypeOK
  <2>3. phase' \in Phases /\ cleanup' \in {"reserved", "owns", cleanup} /\ result' \in Results \cup {None}
    BY DEF Capture, StartTermination, Handoff, Returned, Error, Phases, Results, Errors, ProcessIInv, ProcessTypeOK
  <2>4. /\ wallAt' \in Nat \cup {None} /\ dAt' \in Nat \cup {None} /\ settleAt' \in Nat \cup {None}
        /\ killSent' \in BOOLEAN /\ failure' \in {None, "Run"}
    BY TerminationTypes DEF Capture, waitVars, ProcessIInv, ProcessTypeOK
  <2>5. QED
    BY <2>1, <2>2, <2>3, <2>4 DEF ProcessIInv, ProcessTypeOK
<1>2. LifeInv'
  BY SandboxAssumption, NoneAssumption DEF ProcessIInv, ProcessTypeOK, LifeInv, Streams, Pipes, Group, Early, Capture, procVars, ioVars, waitVars, Handoff, StartTermination, Returned, Error, Results, Errors, Alive
<1>3. ReleaseInv'
  BY SandboxAssumption, NoneAssumption DEF ProcessIInv, ProcessTypeOK, ReleaseInv, LifeInv, StreamsFinished, Streams, Pipes, Early, Capture, procVars, ioVars, waitVars, Handoff, StartTermination, Returned, Error, Results, Errors, Alive
<1>4. AccountInv'
  BY SandboxAssumption, NoneAssumption DEF ProcessIInv, ProcessTypeOK, AccountInv, LifeInv, Alive, Streams, Pipes, Group, Early, Capture, procVars, ioVars, waitVars, Handoff, StartTermination, Returned, Error, Results, Errors, Alive
<1>5. TimeInv'
  BY SandboxAssumption, NoneAssumption, GraceIsNat DEF ProcessIInv, ProcessTypeOK, TimeInv, LifeInv, Early, Grace, Capture, procVars, ioVars, waitVars, Handoff, StartTermination, Returned, Error, Results, Errors, Alive
<1>6. QED
  BY <1>1, <1>2, <1>3, <1>4, <1>5 DEF ProcessIInv

LEMMA WitnessIInv == ASSUME ProcessIInv, Witness PROVE ProcessIInv'
<1>1. ProcessTypeOK'
  <2>1. /\ phase' \in Phases /\ wallAt' \in Nat \cup {None} /\ dAt' \in Nat \cup {None}
        /\ settleAt' \in Nat \cup {None} /\ killSent' \in BOOLEAN /\ failure' \in {None, "Run"}
    BY TerminationTypes, DeadlineTypes DEF Witness, Phases, ProcessIInv, ProcessTypeOK
  <2>2. QED
    BY <2>1 DEF Witness, ProcessIInv, ProcessTypeOK, procVars, ioVars
<1>2. LifeInv'
  BY SandboxAssumption, NoneAssumption DEF ProcessIInv, ProcessTypeOK, LifeInv, Streams, Pipes, Group, Early, Witness, procVars, ioVars, waitVars, StartTermination
<1>3. ReleaseInv'
  BY SandboxAssumption, NoneAssumption DEF ProcessIInv, ProcessTypeOK, ReleaseInv, LifeInv, StreamsFinished, Streams, Pipes, Early, Witness, procVars, ioVars, waitVars, StartTermination
<1>4. AccountInv'
  BY AccountStays DEF ProcessIInv, Witness, procVars, ioVars, waitVars
<1>5. TimeInv'
  BY SandboxAssumption, NoneAssumption, GraceIsNat DEF ProcessIInv, ProcessTypeOK, TimeInv, LifeInv, Early, Grace, Witness, procVars, ioVars, waitVars, StartTermination
<1>6. QED
  BY <1>1, <1>2, <1>3, <1>4, <1>5 DEF ProcessIInv

LEMMA WaitReapsIInv == ASSUME ProcessIInv, WaitReaps PROVE ProcessIInv'
<1>1. ProcessTypeOK'
  BY SandboxAssumption, NoneAssumption DEF ProcessIInv, ProcessTypeOK, Phases, Group, Pipes, Streams, WaitReaps, procVars, ioVars, waitVars, WaitProgress
<1>2. LifeInv'
  BY SandboxAssumption, NoneAssumption DEF ProcessIInv, ProcessTypeOK, LifeInv, Streams, Pipes, Group, Early, WaitReaps, procVars, ioVars, waitVars, WaitProgress
<1>3. ReleaseInv'
  BY SandboxAssumption, NoneAssumption DEF ProcessIInv, ProcessTypeOK, ReleaseInv, LifeInv, StreamsFinished, Streams, Pipes, Early, WaitReaps, procVars, ioVars, waitVars, WaitProgress
<1>4. AccountInv'
  BY AccountStays DEF ProcessIInv, WaitReaps, procVars, ioVars, waitVars
<1>5. TimeInv'
  BY SandboxAssumption, NoneAssumption, GraceIsNat DEF ProcessIInv, ProcessTypeOK, TimeInv, LifeInv, Early, Grace, WaitReaps, procVars, ioVars, waitVars, WaitProgress
<1>6. QED
  BY <1>1, <1>2, <1>3, <1>4, <1>5 DEF ProcessIInv

LEMMA WaitSeesDIInv == ASSUME ProcessIInv, WaitSeesD PROVE ProcessIInv'
<1>1. ProcessTypeOK'
  <2>1. dAt' \in Nat \cup {None}
    BY DeadlineTypes DEF WaitSeesD, ProcessIInv
  <2>2. QED
    BY <2>1 DEF WaitSeesD, ProcessIInv, ProcessTypeOK, procVars, ioVars
<1>2. LifeInv'
  BY LifeStays DEF ProcessIInv, WaitSeesD, procVars, ioVars, waitVars
<1>3. ReleaseInv'
  BY ReleaseStays DEF ProcessIInv, WaitSeesD, procVars, ioVars, waitVars
<1>4. AccountInv'
  BY AccountStays DEF ProcessIInv, WaitSeesD, procVars, ioVars, waitVars
<1>5. TimeInv'
  BY SandboxAssumption, NoneAssumption, GraceIsNat DEF ProcessIInv, ProcessTypeOK, TimeInv, LifeInv, Early, Grace, WaitSeesD, procVars, ioVars, waitVars, WaitProgress, DAtAfterWait, DeadlineOf
<1>6. QED
  BY <1>1, <1>2, <1>3, <1>4, <1>5 DEF ProcessIInv

LEMMA WaitKillsIInv == ASSUME ProcessIInv, WaitKills PROVE ProcessIInv'
<1>1. ProcessTypeOK'
  <2>1. /\ phase' \in Phases /\ dAt' \in Nat \cup {None} /\ settleAt' \in Nat \cup {None}
        /\ killSent' \in BOOLEAN /\ failure' \in {None, "Run"}
    BY TerminationTypes DEF WaitKills, ProcessIInv
  <2>2. QED
    BY <2>1 DEF WaitKills, ProcessIInv, ProcessTypeOK, procVars, ioVars
<1>2. LifeInv'
  BY SandboxAssumption, NoneAssumption DEF ProcessIInv, ProcessTypeOK, LifeInv, Streams, Pipes, Group, Early, WaitKills, procVars, ioVars, waitVars, WaitProgress, StartTermination
<1>3. ReleaseInv'
  BY SandboxAssumption, NoneAssumption DEF ProcessIInv, ProcessTypeOK, ReleaseInv, LifeInv, StreamsFinished, Streams, Pipes, Early, WaitKills, procVars, ioVars, waitVars, WaitProgress, StartTermination
<1>4. AccountInv'
  BY AccountStays DEF ProcessIInv, WaitKills, procVars, ioVars, waitVars
<1>5. TimeInv'
  BY SandboxAssumption, NoneAssumption, GraceIsNat DEF ProcessIInv, ProcessTypeOK, TimeInv, LifeInv, Early, Grace, WaitKills, procVars, ioVars, waitVars, WaitProgress, StartTermination
<1>6. QED
  BY <1>1, <1>2, <1>3, <1>4, <1>5 DEF ProcessIInv

LEMMA WaitFailsIInv == ASSUME ProcessIInv, WaitFails PROVE ProcessIInv'
<1>1. ProcessTypeOK'
  <2>1. /\ phase' \in Phases /\ dAt' \in Nat \cup {None} /\ settleAt' \in Nat \cup {None}
        /\ killSent' \in BOOLEAN /\ failure' \in {None, "Run"}
    BY TerminationTypes DEF WaitFails, ProcessIInv
  <2>2. QED
    BY <2>1 DEF WaitFails, ProcessIInv, ProcessTypeOK, procVars, ioVars
<1>2. LifeInv'
  BY SandboxAssumption, NoneAssumption DEF ProcessIInv, ProcessTypeOK, LifeInv, Streams, Pipes, Group, Early, WaitFails, procVars, ioVars, waitVars, StartTermination
<1>3. ReleaseInv'
  BY SandboxAssumption, NoneAssumption DEF ProcessIInv, ProcessTypeOK, ReleaseInv, LifeInv, StreamsFinished, Streams, Pipes, Early, WaitFails, procVars, ioVars, waitVars, StartTermination
<1>4. AccountInv'
  BY AccountStays DEF ProcessIInv, WaitFails, procVars, ioVars, waitVars
<1>5. TimeInv'
  BY SandboxAssumption, NoneAssumption, GraceIsNat DEF ProcessIInv, ProcessTypeOK, TimeInv, LifeInv, Early, Grace, WaitFails, procVars, ioVars, waitVars, StartTermination
<1>6. QED
  BY <1>1, <1>2, <1>3, <1>4, <1>5 DEF ProcessIInv

LEMMA ReapEndsIInv == ASSUME ProcessIInv, ReapEnds PROVE ProcessIInv'
<1>1. ProcessTypeOK'
  BY SandboxAssumption, NoneAssumption DEF ProcessIInv, ProcessTypeOK, Phases, Group, Pipes, Streams, ReapEnds, procVars, ioVars, waitVars, ReapProgress
<1>2. LifeInv'
  BY SandboxAssumption, NoneAssumption DEF ProcessIInv, ProcessTypeOK, LifeInv, Streams, Pipes, Group, Early, ReapEnds, procVars, ioVars, waitVars, ReapProgress
<1>3. ReleaseInv'
  BY SandboxAssumption, NoneAssumption DEF ProcessIInv, ProcessTypeOK, ReleaseInv, LifeInv, StreamsFinished, Streams, Pipes, Early, ReapEnds, procVars, ioVars, waitVars, ReapProgress
<1>4. AccountInv'
  BY AccountStays DEF ProcessIInv, ReapEnds, procVars, ioVars, waitVars
<1>5. TimeInv'
  BY SandboxAssumption, NoneAssumption, GraceIsNat DEF ProcessIInv, ProcessTypeOK, TimeInv, LifeInv, Early, Grace, ReapEnds, procVars, ioVars, waitVars, ReapProgress
<1>6. QED
  BY <1>1, <1>2, <1>3, <1>4, <1>5 DEF ProcessIInv

LEMMA ReapSeesDIInv == ASSUME ProcessIInv, ReapSeesD PROVE ProcessIInv'
<1>1. ProcessTypeOK'
  <2>1. dAt' \in Nat \cup {None}
    BY DeadlineTypes DEF ReapSeesD, ProcessIInv
  <2>2. QED
    BY <2>1 DEF ReapSeesD, ProcessIInv, ProcessTypeOK, procVars, ioVars
<1>2. LifeInv'
  BY LifeStays DEF ProcessIInv, ReapSeesD, procVars, ioVars, waitVars
<1>3. ReleaseInv'
  BY ReleaseStays DEF ProcessIInv, ReapSeesD, procVars, ioVars, waitVars
<1>4. AccountInv'
  BY AccountStays DEF ProcessIInv, ReapSeesD, procVars, ioVars, waitVars
<1>5. TimeInv'
  BY SandboxAssumption, NoneAssumption, GraceIsNat DEF ProcessIInv, ProcessTypeOK, TimeInv, LifeInv, Early, Grace, ReapSeesD, procVars, ioVars, waitVars, ReapProgress, DAtAfterReap, DeadlineOf
<1>6. QED
  BY <1>1, <1>2, <1>3, <1>4, <1>5 DEF ProcessIInv

LEMMA ReapKillsIInv == ASSUME ProcessIInv, ReapKills PROVE ProcessIInv'
<1>1. ProcessTypeOK'
  <2>1. dAt' \in Nat \cup {None} /\ signalled' \subseteq Group
    BY DeadlineTypes DEF ReapKills, ProcessIInv
  <2>2. QED
    BY <2>1 DEF ReapKills, ProcessIInv, ProcessTypeOK, ioVars
<1>2. LifeInv'
  BY LifeStays DEF ProcessIInv, ReapKills, procVars, ioVars, waitVars
<1>3. ReleaseInv'
  BY ReleaseStays DEF ProcessIInv, ReapKills, procVars, ioVars, waitVars
<1>4. AccountInv'
  BY AccountStays DEF ProcessIInv, ReapKills, procVars, ioVars, waitVars
<1>5. TimeInv'
  <2>1. Grace' = Grace /\ UNCHANGED <<wall, now, phase, wallAt, settleAt>> /\ phase = "terminate"
    BY DEF ReapKills, Grace
  <2>2. /\ Grace \in Nat /\ CleanupTimeout \in Nat /\ now \in Nat
        /\ settleAt \in Nat \cup {None} /\ (wall # None => wall \in Nat)
    BY GraceIsNat, SandboxAssumption DEF ProcessIInv, ProcessTypeOK
  <2>3. dAt' \in {dAt, now + Grace} /\ (dAt # None => dAt' = dAt)
    BY DEF ReapKills, DAtAfterReap, DeadlineOf
  <2>4. QED
    BY <2>1, <2>2, <2>3, NoneAssumption DEF ProcessIInv, TimeInv, Early
<1>6. QED
  BY <1>1, <1>2, <1>3, <1>4, <1>5 DEF ProcessIInv

LEMMA SettleIInv == ASSUME ProcessIInv, Settle PROVE ProcessIInv'
<1>1. ProcessTypeOK'
  BY SandboxAssumption, NoneAssumption DEF ProcessIInv, ProcessTypeOK, Phases, Group, Pipes, Streams, Settle, procVars, ioVars, waitVars, Returned, Collected, Dropped, Error, Receipt, Results, Errors, Exits
<1>2. LifeInv'
  BY SandboxAssumption, NoneAssumption DEF ProcessIInv, ProcessTypeOK, LifeInv, Streams, Pipes, Group, Early, Settle, procVars, ioVars, waitVars, Returned, Collected, Dropped, Error, Receipt, Results, Errors, Exits
<1>3. ReleaseInv'
  <2>1. /\ phase' = "done" /\ result' = Collected /\ cleanup' = "released" /\ reaped /\ StreamsFinished
        /\ UNCHANGED <<reaped, stream, exceeded>>
        /\ stage' = IF Collected = Receipt("ok") /\ stage = "private" THEN "receipt" ELSE Dropped
    BY DEF Settle, Returned, ioVars
  <2>2. StreamsFinished'
    BY <2>1 DEF StreamsFinished
  <2>3. stage' \in {"receipt", "published", "partial"} => result' = Receipt("ok")
    BY <2>1 DEF ProcessIInv, LifeInv, Settle, Dropped
  <2>4. Collected.kind = "receipt" => failure = None /\ ~ReaderFailed /\ ~exceeded
    BY DEF Collected, Error
  <2>5. failure = None /\ ~ReaderFailed => \A p \in Pipes : stream[p] = "done"
    <3>1. failure = None => \A p \in Pipes : stream[p] # "none"
      BY DEF ProcessIInv, LifeInv, Settle, Early
    <3>2. QED
      BY <2>1, <3>1 DEF ReaderFailed, StreamsFinished, Streams
  <2>6. QED
    BY <2>1, <2>2, <2>3, <2>4, <2>5 DEF ReleaseInv
<1>4. AccountInv'
  BY AccountStays DEF ProcessIInv, Settle, procVars, ioVars, waitVars
<1>5. TimeInv'
  BY SandboxAssumption, NoneAssumption, GraceIsNat DEF ProcessIInv, ProcessTypeOK, TimeInv, LifeInv, Early, Grace, Settle, procVars, ioVars, waitVars, Returned, Collected, Dropped, Error, Receipt, Results, Errors, Exits
<1>6. QED
  BY <1>1, <1>2, <1>3, <1>4, <1>5 DEF ProcessIInv

LEMMA SettleHandsOverIInv == ASSUME ProcessIInv, SettleHandsOver PROVE ProcessIInv'
<1>1. ProcessTypeOK'
  BY SandboxAssumption, NoneAssumption DEF ProcessIInv, ProcessTypeOK, Phases, Group, Pipes, Streams, SettleHandsOver, procVars, ioVars, waitVars, Returned, Handoff, Error, Results, Errors
<1>2. LifeInv'
  BY SandboxAssumption, NoneAssumption DEF ProcessIInv, ProcessTypeOK, LifeInv, Streams, Pipes, Group, Early, SettleHandsOver, procVars, ioVars, waitVars, Returned, Handoff, Error, Results, Errors
<1>3. ReleaseInv'
  BY SandboxAssumption, NoneAssumption DEF ProcessIInv, ProcessTypeOK, ReleaseInv, LifeInv, StreamsFinished, Streams, Pipes, Early, SettleHandsOver, procVars, ioVars, waitVars, Returned, Handoff, Error, Results, Errors
<1>4. AccountInv'
  BY AccountStays DEF ProcessIInv, SettleHandsOver, procVars, ioVars, waitVars
<1>5. TimeInv'
  BY SandboxAssumption, NoneAssumption, GraceIsNat DEF ProcessIInv, ProcessTypeOK, TimeInv, LifeInv, Early, Grace, SettleHandsOver, procVars, ioVars, waitVars, Returned, Handoff, Error, Results, Errors
<1>6. QED
  BY <1>1, <1>2, <1>3, <1>4, <1>5 DEF ProcessIInv

LEMMA CommitOutputIInv == ASSUME ProcessIInv, CommitOutput PROVE ProcessIInv'
<1>1. ProcessTypeOK'
  BY SandboxAssumption, NoneAssumption DEF ProcessIInv, ProcessTypeOK, Phases, Group, Pipes, Streams, CommitOutput, procVars, ioVars, waitVars
<1>2. LifeInv'
  BY SandboxAssumption, NoneAssumption DEF ProcessIInv, ProcessTypeOK, LifeInv, Streams, Pipes, Group, Early, CommitOutput, procVars, ioVars, waitVars
<1>3. ReleaseInv'
  BY SandboxAssumption, NoneAssumption DEF ProcessIInv, ProcessTypeOK, ReleaseInv, LifeInv, StreamsFinished, Streams, Pipes, Early, CommitOutput, procVars, ioVars, waitVars
<1>4. AccountInv'
  BY AccountStays DEF ProcessIInv, CommitOutput, procVars, ioVars, waitVars
<1>5. TimeInv'
  BY TimeStays DEF ProcessIInv, CommitOutput, procVars, ioVars, waitVars
<1>6. QED
  BY <1>1, <1>2, <1>3, <1>4, <1>5 DEF ProcessIInv

LEMMA WorkerReapsIInv == ASSUME ProcessIInv, WorkerReaps PROVE ProcessIInv'
<1>1. ProcessTypeOK'
  BY SandboxAssumption, NoneAssumption DEF ProcessIInv, ProcessTypeOK, Phases, Group, Pipes, Streams, WorkerReaps, procVars, ioVars, waitVars
<1>2. LifeInv'
  BY LifeStays DEF ProcessIInv, WorkerReaps, procVars, ioVars, waitVars
<1>3. ReleaseInv'
  BY SandboxAssumption, NoneAssumption DEF ProcessIInv, ProcessTypeOK, ReleaseInv, LifeInv, StreamsFinished, Streams, Pipes, Early, WorkerReaps, procVars, ioVars, waitVars
<1>4. AccountInv'
  BY AccountStays DEF ProcessIInv, WorkerReaps, procVars, ioVars, waitVars
<1>5. TimeInv'
  BY TimeStays DEF ProcessIInv, WorkerReaps, procVars, ioVars, waitVars
<1>6. QED
  BY <1>1, <1>2, <1>3, <1>4, <1>5 DEF ProcessIInv

LEMMA WorkerCollectsIInv == ASSUME ProcessIInv, WorkerCollects PROVE ProcessIInv'
<1>1. ProcessTypeOK'
  BY SandboxAssumption, NoneAssumption DEF ProcessIInv, ProcessTypeOK, Phases, Group, Pipes, Streams, WorkerCollects, procVars, ioVars, waitVars, Dropped
<1>2. LifeInv'
  BY SandboxAssumption, NoneAssumption DEF ProcessIInv, ProcessTypeOK, LifeInv, Streams, Pipes, Group, Early, WorkerCollects, procVars, ioVars, waitVars, Dropped
<1>3. ReleaseInv'
  BY SandboxAssumption, NoneAssumption DEF ProcessIInv, ProcessTypeOK, ReleaseInv, LifeInv, StreamsFinished, Streams, Pipes, Early, WorkerCollects, procVars, ioVars, waitVars, Dropped
<1>4. AccountInv'
  BY AccountStays DEF ProcessIInv, WorkerCollects, procVars, ioVars, waitVars
<1>5. TimeInv'
  BY TimeStays DEF ProcessIInv, WorkerCollects, procVars, ioVars, waitVars
<1>6. QED
  BY <1>1, <1>2, <1>3, <1>4, <1>5 DEF ProcessIInv

LEMMA ReadIInv == ASSUME ProcessIInv, NEW p \in Pipes, ReadPipe(p) PROVE ProcessIInv'
<1>1. ProcessTypeOK'
  BY SandboxAssumption, NoneAssumption DEF ProcessIInv, ProcessTypeOK, Phases, Group, Pipes, Streams, ReadPipe, procVars, ioVars, waitVars
<1>2. LifeInv'
  BY SandboxAssumption, NoneAssumption DEF ProcessIInv, ProcessTypeOK, LifeInv, Streams, Pipes, Group, Early, ReadPipe, procVars, ioVars, waitVars
<1>3. ReleaseInv'
  BY SandboxAssumption, NoneAssumption DEF ProcessIInv, ProcessTypeOK, ReleaseInv, LifeInv, StreamsFinished, Streams, Pipes, Early, ReadPipe, procVars, ioVars, waitVars
<1>4. AccountInv'
  BY SandboxAssumption, NoneAssumption DEF ProcessIInv, ProcessTypeOK, AccountInv, LifeInv, Alive, Streams, Pipes, Group, Early, ReadPipe, procVars, ioVars, waitVars
<1>5. TimeInv'
  BY TimeStays DEF ProcessIInv, ReadPipe, procVars, ioVars, waitVars
<1>6. QED
  BY <1>1, <1>2, <1>3, <1>4, <1>5 DEF ProcessIInv

LEMMA RaiseFlagIInv == ASSUME ProcessIInv, NEW p \in Pipes, RaiseFlag(p) PROVE ProcessIInv'
<1>1. ProcessTypeOK'
  BY SandboxAssumption, NoneAssumption DEF ProcessIInv, ProcessTypeOK, Phases, Group, Pipes, Streams, RaiseFlag, procVars, ioVars, waitVars
<1>2. LifeInv'
  BY SandboxAssumption, NoneAssumption DEF ProcessIInv, ProcessTypeOK, LifeInv, Streams, Pipes, Group, Early, RaiseFlag, procVars, ioVars, waitVars
<1>3. ReleaseInv'
  BY SandboxAssumption, NoneAssumption DEF ProcessIInv, ProcessTypeOK, ReleaseInv, LifeInv, StreamsFinished, Streams, Pipes, Early, RaiseFlag, procVars, ioVars, waitVars
<1>4. AccountInv'
  BY SandboxAssumption, NoneAssumption DEF ProcessIInv, ProcessTypeOK, AccountInv, LifeInv, Alive, Streams, Pipes, Group, Early, RaiseFlag, procVars, ioVars, waitVars
<1>5. TimeInv'
  BY TimeStays DEF ProcessIInv, RaiseFlag, procVars, ioVars, waitVars
<1>6. QED
  BY <1>1, <1>2, <1>3, <1>4, <1>5 DEF ProcessIInv

LEMMA PipeEndsIInv == ASSUME ProcessIInv, NEW p \in Pipes, PipeEnds(p) PROVE ProcessIInv'
<1>1. ProcessTypeOK'
  BY SandboxAssumption, NoneAssumption DEF ProcessIInv, ProcessTypeOK, Phases, Group, Pipes, Streams, PipeEnds, procVars, ioVars, waitVars
<1>2. LifeInv'
  BY SandboxAssumption, NoneAssumption DEF ProcessIInv, ProcessTypeOK, LifeInv, Streams, Pipes, Group, Early, PipeEnds, procVars, ioVars, waitVars
<1>3. ReleaseInv'
  BY SandboxAssumption, NoneAssumption DEF ProcessIInv, ProcessTypeOK, ReleaseInv, LifeInv, StreamsFinished, Streams, Pipes, Early, PipeEnds, procVars, ioVars, waitVars
<1>4. AccountInv'
  BY SandboxAssumption, NoneAssumption DEF ProcessIInv, ProcessTypeOK, AccountInv, LifeInv, Alive, Streams, Pipes, Group, Early, PipeEnds, procVars, ioVars, waitVars
<1>5. TimeInv'
  BY TimeStays DEF ProcessIInv, PipeEnds, procVars, ioVars, waitVars
<1>6. QED
  BY <1>1, <1>2, <1>3, <1>4, <1>5 DEF ProcessIInv

LEMMA StdinEndsIInv == ASSUME ProcessIInv, StdinEnds PROVE ProcessIInv'
<1>1. ProcessTypeOK'
  BY SandboxAssumption, NoneAssumption DEF ProcessIInv, ProcessTypeOK, Phases, Group, Pipes, Streams, StdinEnds, procVars, ioVars, waitVars
<1>2. LifeInv'
  BY SandboxAssumption, NoneAssumption DEF ProcessIInv, ProcessTypeOK, LifeInv, Streams, Pipes, Group, Early, StdinEnds, procVars, ioVars, waitVars
<1>3. ReleaseInv'
  BY SandboxAssumption, NoneAssumption DEF ProcessIInv, ProcessTypeOK, ReleaseInv, LifeInv, StreamsFinished, Streams, Pipes, Early, StdinEnds, procVars, ioVars, waitVars
<1>4. AccountInv'
  BY SandboxAssumption, NoneAssumption DEF ProcessIInv, ProcessTypeOK, AccountInv, LifeInv, Alive, Streams, Pipes, Group, Early, StdinEnds, procVars, ioVars, waitVars
<1>5. TimeInv'
  BY TimeStays DEF ProcessIInv, StdinEnds, procVars, ioVars, waitVars
<1>6. QED
  BY <1>1, <1>2, <1>3, <1>4, <1>5 DEF ProcessIInv

LEMMA ForkIInv == ASSUME ProcessIInv, Fork PROVE ProcessIInv'
<1>1. ProcessTypeOK'
  BY SandboxAssumption, NoneAssumption DEF ProcessIInv, ProcessTypeOK, Phases, Group, Pipes, Streams, Fork, procVars, ioVars, waitVars, procRest
<1>2. LifeInv'
  BY SandboxAssumption, NoneAssumption DEF ProcessIInv, ProcessTypeOK, LifeInv, Streams, Pipes, Group, Early, Fork, procVars, ioVars, waitVars, procRest
<1>3. ReleaseInv'
  BY ReleaseStays DEF ProcessIInv, Fork, procVars, ioVars, waitVars, procRest
<1>4. AccountInv'
  BY SandboxAssumption, NoneAssumption DEF ProcessIInv, ProcessTypeOK, AccountInv, LifeInv, Alive, Streams, Pipes, Group, Early, Fork, procVars, ioVars, waitVars, procRest
<1>5. TimeInv'
  BY TimeStays DEF ProcessIInv, Fork, procVars, ioVars, waitVars, procRest
<1>6. QED
  BY <1>1, <1>2, <1>3, <1>4, <1>5 DEF ProcessIInv

LEMMA WriteIInv == ASSUME ProcessIInv, NEW p \in Pipes, Write(p) PROVE ProcessIInv'
<1>1. ProcessTypeOK'
  BY SandboxAssumption, NoneAssumption DEF ProcessIInv, ProcessTypeOK, Phases, Group, Pipes, Streams, Write, procVars, ioVars, waitVars, procRest
<1>2. LifeInv'
  BY LifeStays DEF ProcessIInv, Write, procVars, ioVars, waitVars, procRest
<1>3. ReleaseInv'
  BY ReleaseStays DEF ProcessIInv, Write, procVars, ioVars, waitVars, procRest
<1>4. AccountInv'
  BY SandboxAssumption, NoneAssumption DEF ProcessIInv, ProcessTypeOK, AccountInv, LifeInv, Alive, Streams, Pipes, Group, Early, Write, procVars, ioVars, waitVars, procRest
<1>5. TimeInv'
  BY TimeStays DEF ProcessIInv, Write, procVars, ioVars, waitVars, procRest
<1>6. QED
  BY <1>1, <1>2, <1>3, <1>4, <1>5 DEF ProcessIInv

LEMMA RedirectIInv == ASSUME ProcessIInv, NEW q, NEW pipes, Redirect(q, pipes) PROVE ProcessIInv'
<1>1. ProcessTypeOK'
  <2>1. ends' \in [Pipes -> SUBSET Group]
    BY DEF Redirect, ProcessIInv, ProcessTypeOK
  <2>2. QED
    BY <2>1 DEF Redirect, procRest, waitVars, ProcessIInv, ProcessTypeOK
<1>2. LifeInv'
  BY LifeStays DEF ProcessIInv, Redirect, procRest, waitVars
<1>3. ReleaseInv'
  BY ReleaseStays DEF ProcessIInv, Redirect, procRest
<1>4. AccountInv'
  BY DEF ProcessIInv, ProcessTypeOK, AccountInv, Redirect, procRest
<1>5. TimeInv'
  BY TimeStays DEF ProcessIInv, Redirect, procRest, waitVars
<1>6. QED
  BY <1>1, <1>2, <1>3, <1>4, <1>5 DEF ProcessIInv

LEMMA EnterIOIInv == ASSUME ProcessIInv, NEW q \in Group, EnterIO(q) PROVE ProcessIInv'
<1>1. ProcessTypeOK'
  BY SandboxAssumption, NoneAssumption DEF ProcessIInv, ProcessTypeOK, Phases, Group, Pipes, Streams, EnterIO, procVars, ioVars, waitVars, procRest
<1>2. LifeInv'
  BY SandboxAssumption, NoneAssumption DEF ProcessIInv, ProcessTypeOK, LifeInv, Streams, Pipes, Group, Early, EnterIO, procVars, ioVars, waitVars, procRest
<1>3. ReleaseInv'
  BY ReleaseStays DEF ProcessIInv, EnterIO, procVars, ioVars, waitVars, procRest
<1>4. AccountInv'
  BY AccountStays DEF ProcessIInv, EnterIO, procVars, ioVars, waitVars, procRest
<1>5. TimeInv'
  BY TimeStays DEF ProcessIInv, EnterIO, procVars, ioVars, waitVars, procRest
<1>6. QED
  BY <1>1, <1>2, <1>3, <1>4, <1>5 DEF ProcessIInv

LEMMA LeaveIOIInv == ASSUME ProcessIInv, NEW q \in Group, LeaveIO(q) PROVE ProcessIInv'
<1>1. ProcessTypeOK'
  BY SandboxAssumption, NoneAssumption DEF ProcessIInv, ProcessTypeOK, Phases, Group, Pipes, Streams, LeaveIO, procVars, ioVars, waitVars, procRest
<1>2. LifeInv'
  BY SandboxAssumption, NoneAssumption DEF ProcessIInv, ProcessTypeOK, LifeInv, Streams, Pipes, Group, Early, LeaveIO, procVars, ioVars, waitVars, procRest
<1>3. ReleaseInv'
  BY ReleaseStays DEF ProcessIInv, LeaveIO, procVars, ioVars, waitVars, procRest
<1>4. AccountInv'
  BY AccountStays DEF ProcessIInv, LeaveIO, procVars, ioVars, waitVars, procRest
<1>5. TimeInv'
  BY TimeStays DEF ProcessIInv, LeaveIO, procVars, ioVars, waitVars, procRest
<1>6. QED
  BY <1>1, <1>2, <1>3, <1>4, <1>5 DEF ProcessIInv

LEMMA ExitIInv == ASSUME ProcessIInv, NEW q \in Group, Exit(q) PROVE ProcessIInv'
<1>1. ProcessTypeOK'
  <2>1. /\ state' \in [Group -> {"none", "run", "D", "dead"}] /\ signalled' \subseteq Group
    BY DEF Exit, ProcessIInv, ProcessTypeOK, Group
  <2>2. status' \in Exits \cup {None}
    BY DEF Exit, ProcessIInv, ProcessTypeOK, Exits
  <2>3. QED
    BY <2>1, <2>2 DEF Exit, procRest, waitVars, ProcessIInv, ProcessTypeOK
<1>2. LifeInv'
  BY SandboxAssumption, NoneAssumption DEF ProcessIInv, ProcessTypeOK, LifeInv, Streams, Pipes, Group, Early, Exit, procVars, ioVars, waitVars, procRest
<1>3. ReleaseInv'
  BY ReleaseStays DEF ProcessIInv, Exit, procVars, ioVars, waitVars, procRest
<1>4. AccountInv'
  BY SandboxAssumption, NoneAssumption DEF ProcessIInv, ProcessTypeOK, AccountInv, LifeInv, Alive, Streams, Pipes, Group, Early, Exit, procVars, ioVars, waitVars, procRest
<1>5. TimeInv'
  BY TimeStays DEF ProcessIInv, Exit, procVars, ioVars, waitVars, procRest
<1>6. QED
  BY <1>1, <1>2, <1>3, <1>4, <1>5 DEF ProcessIInv

LEMMA TickIInv == ASSUME ProcessIInv, Tick PROVE ProcessIInv'
<1>1. ProcessTypeOK'
  BY SandboxAssumption, NoneAssumption DEF ProcessIInv, ProcessTypeOK, Phases, Group, Pipes, Streams, Tick, procVars, ioVars, waitVars
<1>2. LifeInv'
  BY LifeStays DEF ProcessIInv, Tick, procVars, ioVars, waitVars
<1>3. ReleaseInv'
  BY ReleaseStays DEF ProcessIInv, Tick, procVars, ioVars, waitVars
<1>4. AccountInv'
  BY AccountStays DEF ProcessIInv, Tick, procVars, ioVars, waitVars
<1>5. TimeInv'
  <2> SUFFICES ASSUME wall # None PROVE TimeInv'
    BY DEF TimeInv, Tick
  <2>1. /\ now' = now + 1 /\ UNCHANGED <<wall, phase, wallAt, dAt, settleAt>> /\ Grace' = Grace
        /\ PollDoesNothing
    BY DEF Tick, waitVars, Grace
  <2>2. /\ Grace \in Nat /\ wall \in Nat /\ now \in Nat /\ CleanupTimeout \in Nat
        /\ settleAt \in Nat \cup {None} /\ dAt \in Nat \cup {None}
    BY GraceIsNat, SandboxAssumption DEF ProcessIInv, ProcessTypeOK
  <2>3. CASE phase = "wait" /\ WaitProgress = "Poll" /\ DAtAfterWait = dAt
    <3>1. wallAt = wall /\ (dAt # None => dAt <= wall + Grace)
      BY <2>3 DEF ProcessIInv, TimeInv
    <3>2. Alive("child")
      BY <2>3 DEF WaitProgress
    <3>3. CASE ~KillRequested
      <4>1. now < wall
        BY <2>2, <3>1, <3>3 DEF KillRequested
      <4>2. QED
        BY <2>1, <2>2, <2>3, <3>1, <4>1 DEF ProcessIInv, TimeInv, Early
    <3>4. CASE KillRequested
      <4>1. dAt # None /\ now < dAt
        BY <2>2, <2>3, <3>2, <3>4, NoneAssumption DEF WaitProgress, DAtAfterWait, DeadlineOf
      <4>2. now + 1 <= dAt /\ dAt <= wall + Grace
        BY <2>2, <3>1, <4>1
      <4>3. QED
        BY <2>1, <2>2, <2>3, <3>1, <4>1, <4>2 DEF TimeInv, Early
    <3>5. QED
      BY <3>3, <3>4
  <2>4. CASE phase = "terminate" /\ ReapProgress = "Poll" /\ DAtAfterReap = dAt
    <3>1. /\ settleAt \in Nat /\ settleAt <= wall + Grace + CleanupTimeout
          /\ dAt = None => now <= settleAt
          /\ dAt # None => now <= dAt /\ dAt <= settleAt + Grace
      BY <2>2, <2>4 DEF ProcessIInv, TimeInv
    <3>2. \/ dAt # None /\ now < dAt
          \/ dAt = None /\ now < settleAt
      <4>1. Alive("child")
        BY <2>4 DEF ReapProgress
      <4>2. CASE MatchingD \/ dAt # None
        BY <2>2, <2>4, <4>1, <4>2, NoneAssumption DEF ReapProgress, DAtAfterReap, DeadlineOf
      <4>3. CASE ~(MatchingD \/ dAt # None)
        BY <2>2, <2>4, <3>1, <4>1, <4>3 DEF ReapProgress
      <4>4. QED
        BY <4>2, <4>3
    <3>3. QED
      BY <2>1, <2>2, <2>4, <3>1, <3>2, NoneAssumption DEF TimeInv, Early
  <2>5. CASE phase = "settle" /\ now < settleAt
    <3>1. settleAt \in Nat /\ settleAt <= wall + 2 * Grace + CleanupTimeout
      BY <2>2, <2>5 DEF ProcessIInv, TimeInv
    <3>2. QED
      BY <2>1, <2>2, <2>5, <3>1, NoneAssumption DEF TimeInv, Early
  <2>6. QED
    BY <2>1, <2>3, <2>4, <2>5 DEF PollDoesNothing
<1>6. QED
  BY <1>1, <1>2, <1>3, <1>4, <1>5 DEF ProcessIInv

-----------------------------------------------------------------------------
(* The inductive argument.                                                  *)

LEMMA ProcessInitIInv == ProcessInit => ProcessIInv
<1> SUFFICES ASSUME ProcessInit PROVE ProcessIInv
  OBVIOUS
<1>1. ProcessTypeOK
  BY SandboxAssumption DEF ProcessInit, ProcessTypeOK, Phases, Group, Pipes, Streams
<1>2. LifeInv
  BY NoneAssumption DEF ProcessInit, LifeInv, Early, Group, Pipes, Streams
<1>3. ReleaseInv
  BY DEF ProcessInit, ReleaseInv
<1>4. AccountInv
  BY DEF ProcessInit, AccountInv, Pipes, Streams
<1>5. TimeInv
  BY <1>1, GraceIsNat, SandboxAssumption DEF ProcessInit, TimeInv, Early
<1>6. QED
  BY <1>1, <1>2, <1>3, <1>4, <1>5 DEF ProcessIInv

LEMMA ProcessNextIInv == ProcessIInv /\ [ProcessNext]_processVars => ProcessIInv'
<1> SUFFICES ASSUME ProcessIInv, [ProcessNext]_processVars PROVE ProcessIInv'
  OBVIOUS
<1>1. CASE Supervisor
  BY <1>1, PreflightIInv, SpawnIInv, CaptureIInv, WitnessIInv, WaitReapsIInv, WaitSeesDIInv,
     WaitKillsIInv, WaitFailsIInv, ReapEndsIInv, ReapSeesDIInv, ReapKillsIInv, SettleIInv,
     SettleHandsOverIInv, CommitOutputIInv DEF Supervisor
<1>2. CASE Worker
  BY <1>2, WorkerReapsIInv, WorkerCollectsIInv DEF Worker
<1>3. CASE Capturer
  BY <1>3, StdinEndsIInv, ReadIInv, RaiseFlagIInv, PipeEndsIInv DEF Capturer
<1>4. CASE Kernel
  BY <1>4, ForkIInv, WriteIInv, RedirectIInv, EnterIOIInv, LeaveIOIInv, ExitIInv DEF Kernel
<1>5. CASE Tick
  BY <1>5, TickIInv
<1>6. CASE UNCHANGED processVars
  <2>1. UNCHANGED <<wall, now, phase, procVars, reaped, ioVars, waitVars, cleanup, stage, result>>
    BY <1>6 DEF processVars
  <2>2. ProcessTypeOK'
    BY <2>1 DEF ProcessIInv, ProcessTypeOK, procVars, ioVars, waitVars
  <2>3. QED
    BY <2>1, <2>2, LifeStays, ReleaseStays, AccountStays, TimeStays
    DEF ProcessIInv, procVars, ioVars, waitVars
<1>7. QED
  BY <1>1, <1>2, <1>3, <1>4, <1>5, <1>6 DEF ProcessNext, Quiet

-----------------------------------------------------------------------------
\* The state of an execution, in every interleaving of the supervisor, the
\* capture threads, the cleanup worker and the processes, satisfies ProcessIInv.
THEOREM ProcessInvariance == ProcessSpec => []ProcessIInv
BY ProcessInitIInv, ProcessNextIInv, PTL DEF ProcessSpec

\* Every variable of the supervisor keeps its type: no deadline is computed
\* from a missing wall time, and the byte budget never goes below zero.
THEOREM ProcessTypeCorrect == ProcessSpec => []ProcessTypeOK
<1>1. ProcessIInv => ProcessTypeOK
  BY DEF ProcessIInv
<1>2. QED
  BY <1>1, ProcessInvariance, PTL

\* Whoever owns the output stage when it is removed (the supervisor that
\* settled, or the cleanup worker it was handed to), the child was reaped and
\* its output read to the end before.
THEOREM StageLast == ProcessSpec => []StageOutlivesWriters
<1>1. ProcessIInv => StageOutlivesWriters
  BY DEF ProcessIInv, ReleaseInv, StageOutlivesWriters
<1>2. QED
  BY <1>1, ProcessInvariance, PTL

\* An execution with a wall time is over after that, two D-state allowances
\* and the cleanup timeout: no poll renews an allowance that is running.
THEOREM OverInTime == ProcessSpec => []ReturnsInTime
<1>1. ProcessIInv => ReturnsInTime
  BY DEF ProcessIInv, TimeInv, ReturnsInTime
<1>2. QED
  BY <1>1, ProcessInvariance, PTL

-----------------------------------------------------------------------------
(* What is left of the group, and whom a signal reaches.                    *)

\* Until the supervisor settles nobody has reaped the child, and a child that
\* was reaped is gone.
ReapedIsGone ==
    /\ reaped => ~Alive("child")
    /\ phase \notin {"settle", "done"} => ~reaped

\* The group is signalled by the child's process id, which is free for others
\* once the child was reaped: from then on no signal is sent, whoever wins
\* between the exit, the timeouts, a failed capture and the cleanup worker.
NeverSignalsReaped == [][reaped => UNCHANGED signalled]_processVars

LEMMA InitReaped == ProcessInit => ReapedIsGone
BY DEF ProcessInit, ReapedIsGone

LEMMA NextReaped == ProcessIInv /\ ReapedIsGone /\ [ProcessNext]_processVars => ReapedIsGone'
<1> SUFFICES ASSUME ProcessIInv, ReapedIsGone, [ProcessNext]_processVars PROVE ReapedIsGone'
  OBVIOUS
<1> USE DEF ReapedIsGone, Alive
<1>1. CASE Supervisor
  <2>1. CASE Spawn
    BY <2>1 DEF Spawn, Returned
  <2>2. CASE Capture
    <3>1. phase = "capture" /\ ~reaped /\ UNCHANGED state
      BY <2>2 DEF Capture
    <3>2. \/ phase' \in {"witness", "terminate"} /\ UNCHANGED reaped
          \/ phase' = "done" /\ reaped' = ~Alive("child")
      BY <2>2 DEF Capture, Returned, StartTermination
    <3>3. Alive("child")' = Alive("child")
      BY <3>1
    <3>4. CASE phase' = "done" /\ reaped' = ~Alive("child")
      BY <3>3, <3>4
    <3>5. CASE phase' \in {"witness", "terminate"} /\ UNCHANGED reaped
      BY <3>1, <3>5
    <3>6. QED
      BY <3>2, <3>4, <3>5
  <2>3. CASE WaitReaps
    BY <2>3 DEF WaitReaps, WaitProgress, procVars
  <2>4. CASE ReapEnds
    BY <2>4 DEF ReapEnds, ReapProgress, procVars
  <2>5. CASE Preflight \/ Witness \/ WaitSeesD \/ WaitKills \/ WaitFails \/ ReapSeesD \/ ReapKills
    BY <2>5 DEF Preflight, Witness, WaitSeesD, WaitKills, WaitFails, ReapSeesD, ReapKills,
        StartTermination, Returned, procVars
  <2>6. CASE Settle \/ SettleHandsOver \/ CommitOutput
    BY <2>6 DEF Settle, SettleHandsOver, CommitOutput, Returned, procVars
  <2>7. QED
    BY <1>1, <2>1, <2>2, <2>3, <2>4, <2>5, <2>6 DEF Supervisor
<1>2. CASE Worker
  <2>1. cleanup = "owns" => phase = "done"
    BY DEF ProcessIInv, LifeInv
  <2>2. CASE WorkerReaps
    BY <2>1, <2>2 DEF WorkerReaps, procVars
  <2>3. CASE WorkerCollects
    BY <2>3 DEF WorkerCollects, procVars
  <2>4. QED
    BY <1>2, <2>2, <2>3 DEF Worker
<1>3. CASE Capturer
  BY <1>3 DEF Capturer, StdinEnds, ReadPipe, RaiseFlag, PipeEnds, procVars
<1>4. CASE Kernel
  <2>1. UNCHANGED <<phase, reaped>>
    BY <1>4 DEF Kernel, Fork, Write, Redirect, EnterIO, LeaveIO, Exit, procRest
  <2>2. state["child"] \notin {"run", "D"} => state'["child"] \notin {"run", "D"}
    BY <1>4 DEF Kernel, Fork, Write, Redirect, EnterIO, LeaveIO, Exit, procRest, ProcessIInv, ProcessTypeOK, Group
  <2>3. QED
    BY <2>1, <2>2
<1>5. CASE Tick
  BY <1>5 DEF Tick, procVars
<1>6. CASE UNCHANGED processVars
  BY <1>6 DEF processVars, procVars
<1>7. QED
  BY <1>1, <1>2, <1>3, <1>4, <1>5, <1>6 DEF ProcessNext, Quiet

\* A descendant that outlives the child has been killed.
OrphanInv == Alive("descendant") => Alive("child") \/ "descendant" \in signalled

LEMMA NextOrphan == ProcessIInv /\ OrphanInv /\ [ProcessNext]_processVars => OrphanInv'
<1> SUFFICES ASSUME ProcessIInv, OrphanInv, [ProcessNext]_processVars PROVE OrphanInv'
  OBVIOUS
<1>1. state \in [Group -> {"none", "run", "D", "dead"}] /\ "descendant" \in Group /\ "child" \in Group
  BY DEF ProcessIInv, ProcessTypeOK, Group
<1>2. ASSUME UNCHANGED <<state, signalled>> PROVE OrphanInv'
  BY <1>2 DEF OrphanInv, Alive
<1>3. CASE Supervisor
  <2>1. CASE Spawn
    <3>1. state["descendant"] = "none"
      BY <1>1, <2>1 DEF Spawn, ProcessIInv, LifeInv
    <3>2. state'["descendant"] = "none"
      BY <1>1, <2>1, <3>1 DEF Spawn
    <3>3. QED
      BY <3>2 DEF OrphanInv, Alive
  <2>2. CASE Capture \/ ReapKills
    <3>1. /\ UNCHANGED state
          /\ signalled' = signalled \/ signalled' = {q \in Group : state[q] # "none"}
      BY <2>2 DEF Capture, ReapKills
    <3>2. QED
      BY <1>1, <3>1 DEF OrphanInv, Alive
  <2>3. CASE \/ Preflight \/ Witness \/ WaitReaps \/ WaitSeesD \/ WaitKills \/ WaitFails \/ ReapEnds
             \/ ReapSeesD \/ Settle \/ SettleHandsOver \/ CommitOutput
    BY <1>2, <2>3 DEF Preflight, Witness, WaitReaps, WaitSeesD, WaitKills, WaitFails, ReapEnds,
        ReapSeesD, Settle, SettleHandsOver, CommitOutput, procVars
  <2>4. QED
    BY <1>3, <2>1, <2>2, <2>3 DEF Supervisor
<1>4. CASE Worker \/ Capturer \/ Tick \/ UNCHANGED processVars
  BY <1>2, <1>4 DEF Worker, WorkerReaps, WorkerCollects, Capturer, StdinEnds, ReadPipe, RaiseFlag,
      PipeEnds, Tick, processVars, procVars
<1>5. CASE Kernel
  <2>1. CASE Fork
    BY <1>1, <2>1 DEF Fork, OrphanInv, Alive
  <2>2. ASSUME NEW q \in Group, EnterIO(q) \/ LeaveIO(q) PROVE OrphanInv'
    BY <1>1, <2>2 DEF EnterIO, LeaveIO, OrphanInv, Alive
  <2>3. ASSUME NEW q \in Group, Exit(q) PROVE OrphanInv'
    <3>1. /\ state[q] = "run" /\ state' = [state EXCEPT ![q] = "dead"]
          /\ signalled' = IF q = "child" /\ state["descendant"] # "none"
                          THEN signalled \cup {"descendant"} ELSE signalled
      BY <2>3 DEF Exit
    <3>2. CASE q = "child"
      BY <1>1, <3>1, <3>2 DEF OrphanInv, Alive
    <3>3. CASE q = "descendant"
      BY <1>1, <3>1, <3>3 DEF OrphanInv, Alive
    <3>4. QED
      BY <3>2, <3>3 DEF Group
  <2>4. CASE (\E p \in Pipes : Write(p)) \/ (\E r \in Redirects : Redirect(r[1], r[2]))
    BY <1>2, <2>4 DEF Write, Redirect
  <2>5. QED
    BY <1>5, <2>1, <2>2, <2>3, <2>4 DEF Kernel
<1>6. QED
  BY <1>3, <1>4, <1>5 DEF ProcessNext, Quiet

\* The end of the child takes the pid namespace with it: OrphanInv always holds.
THEOREM OrphanInvariance == ProcessSpec => []OrphanInv
<1>1. ProcessInit => OrphanInv
  BY DEF ProcessInit, OrphanInv, Alive, Group
<1>2. QED
  BY <1>1, NextOrphan, ProcessInvariance, PTL DEF ProcessSpec

\* The child is reaped only after it ended, and never before the settlement.
THEOREM ReapedInvariance == ProcessSpec => []ReapedIsGone
BY InitReaped, NextReaped, ProcessInvariance, PTL DEF ProcessSpec

\* A receipt accounts for every byte the group of a reaped child wrote, and
\* output is handed out or published only for success: collect looks at the
\* budget's flag after both readers have ended, so a flag raised late is still
\* seen.  What is left of the group was killed and holds neither pipe.
THEOREM WholeReceipt == ProcessSpec => []ReceiptIsWhole
<1>1. ProcessIInv /\ ReapedIsGone /\ OrphanInv => ReceiptIsWhole
  <2> SUFFICES ASSUME ProcessIInv, ReapedIsGone, OrphanInv PROVE ReceiptIsWhole
    OBVIOUS
  <2>1. ASSUME phase = "done", result.kind = "receipt"
        PROVE  /\ reaped /\ kept = written
               /\ \A q \in Group : Alive(q) => q \in signalled /\ \A p \in Pipes : q \notin ends[p]
    <3>1. reaped /\ ~exceeded /\ \A p \in Pipes : stream[p] = "done"
      BY <2>1 DEF ProcessIInv, ReleaseInv
    <3>2. \A p \in Pipes : kept[p] + unread[p] = written[p] /\ unread[p] = 0 /\ ends[p] = {}
      BY <3>1 DEF ProcessIInv, AccountInv
    <3>3. \A q \in Group : Alive(q) => q \in signalled
      BY <3>1 DEF ReapedIsGone, OrphanInv, Group
    <3>4. kept \in [Pipes -> Nat] /\ written \in [Pipes -> Nat] /\ unread \in [Pipes -> Nat]
      BY DEF ProcessIInv, ProcessTypeOK
    <3>5. kept = written
      BY <3>2, <3>4
    <3>6. QED
      BY <3>1, <3>2, <3>3, <3>5
  <2>2. QED
    BY <2>1 DEF ProcessIInv, ReleaseInv, ReceiptIsWhole
<1>2. QED
  BY <1>1, ProcessInvariance, ReapedInvariance, OrphanInvariance, PTL

\* No SIGKILL is sent to a process group whose leader was already reaped.
THEOREM SignalsOwnGroup == ProcessSpec => NeverSignalsReaped
<1>1. ProcessIInv /\ ReapedIsGone /\ [ProcessNext]_processVars => [reaped => UNCHANGED signalled]_processVars
  <2> SUFFICES ASSUME ProcessIInv, ReapedIsGone, ProcessNext, reaped PROVE UNCHANGED signalled
    OBVIOUS
  <2>1. phase \in {"settle", "done"} /\ state["child"] \notin {"run", "D"}
    BY DEF ReapedIsGone, Alive
  <2>2. CASE Supervisor
    BY <2>1, <2>2 DEF Supervisor, Preflight, Spawn, Capture, Witness, WaitReaps, WaitSeesD, WaitKills,
        WaitFails, ReapEnds, ReapSeesD, ReapKills, Settle, SettleHandsOver, CommitOutput, procVars
  <2>3. CASE Worker \/ Capturer \/ Tick \/ Quiet
    BY <2>3 DEF Worker, WorkerReaps, WorkerCollects, Capturer, StdinEnds, ReadPipe, RaiseFlag, PipeEnds,
        Tick, Quiet, processVars, procVars
  <2>4. CASE Kernel
    BY <2>1, <2>4 DEF Kernel, Fork, Write, Redirect, EnterIO, LeaveIO, Exit
  <2>5. QED
    BY <2>2, <2>3, <2>4 DEF ProcessNext
<1>2. QED
  BY <1>1, ProcessInvariance, ReapedInvariance, PTL DEF ProcessSpec, NeverSignalsReaped

=============================================================================
