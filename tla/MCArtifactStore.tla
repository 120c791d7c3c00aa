--------------------------- MODULE MCArtifactStore ---------------------------
(* Two processes on one root; capabilities are small, so that both count     *)
(* through the same temporary names.  What no guard and no property reads is *)
(* left out of the VIEW: the result of a call, the retention policies, the   *)
(* bytes of a free inode, the contents confirmed once a root was adopted,    *)
(* and of the capabilities of a store everything but whether there is one    *)
(* and whether it minted the token.                                          *)
EXTENDS ArtifactStore, TLC

CONSTANTS p1, p2, c1, i1, i2, i3

StoreSymmetry == Permutations(Procs) \union Permutations(Inodes)

WhatMatters ==
    <<dir, disk, root, rootDisk, adopted, IF adopted THEN {} ELSE confirmed,
      [i \in Inodes \ Free |-> data[i]],
      [p \in Procs |-> <<proc[p].pc, proc[p].next, proc[p].store = 0, proc[p].content,
                         proc[p].temp, proc[p].handle, proc[p].owner = proc[p].store>>]>>
=============================================================================
