------------------------------- MODULE Merkle -------------------------------
(***************************************************************************)
(* Epoch trees (recorder/merkle.py) and the two verifiers of a proof: the  *)
(* one that is told each sibling's side, and the one that works the sides  *)
(* out from an index and a size (recorder/anchor.py, for Rekor).  A hash   *)
(* is the term it was computed from, so that no two differ only in hash.   *)
(***************************************************************************)
EXTENDS Naturals, SequencesExt

CONSTANTS
    Checkpoints,    \* checkpoint documents
    MaxLeaves       \* bound: checkpoints in an epoch

ASSUME MerkleAssumption == MaxLeaves \in Nat

VARIABLE epoch      \* the checkpoints received, in order

LeafHash(data) == <<"leaf", data>>
NodeHash(left, right) == <<"node", left, right>>

-----------------------------------------------------------------------------
(* MerkleTree                                                              *)

\* Mutant: the odd node is paired with itself.
BuildNextLevelTwice(level) ==
    [i \in 1..((Len(level) + 1) \div 2) |->
        IF 2 * i <= Len(level) THEN NodeHash(level[2 * i - 1], level[2 * i])
        ELSE NodeHash(level[2 * i - 1], level[2 * i - 1])]

\* _build_next_level: an odd node is promoted unchanged.
BuildNextLevel(level) ==
    [i \in 1..((Len(level) + 1) \div 2) |->
        IF 2 * i <= Len(level) THEN NodeHash(level[2 * i - 1], level[2 * i])
        ELSE level[2 * i - 1]]

\* __init__
RECURSIVE Levels(_)
Levels(level) == IF Len(level) = 1 THEN <<level>> ELSE <<level>> \o Levels(BuildNextLevel(level))

Root(levels) == Last(levels)[1]

\* proof: the steps from position i (from 0) of the first of these levels.
RECURSIVE Steps(_, _)
Steps(levels, i) ==
    IF Len(levels) = 1 THEN <<>>
    ELSE LET level == Head(levels)
             step == IF i % 2 = 1 THEN <<[sibling |-> level[i], side |-> "left"]>>
                     ELSE IF i + 1 < Len(level)
                     THEN <<[sibling |-> level[i + 2], side |-> "right"]>>
                     ELSE <<>>
         IN  step \o Steps(Tail(levels), i \div 2)

\* build_epoch_tree
Leaves == [i \in DOMAIN epoch |-> LeafHash(epoch[i])]
EpochTree == Levels(Leaves)
Proof(tree, i) == [leaf |-> tree[1][i + 1], steps |-> Steps(tree, i), root |-> Root(tree)]

\* verify_inclusion
VerifyInclusion(proof) ==
    LET up(hash, step) == IF step.side = "right" THEN NodeHash(hash, step.sibling)
                          ELSE NodeHash(step.sibling, hash)
    IN  FoldLeft(up, proof.leaf, proof.steps) = proof.root

\* verify_checkpoint_epoch_inclusion
VerifyCheckpoint(checkpoint, proof, root) ==
    LeafHash(checkpoint) = proof.leaf /\ proof.root = root /\ VerifyInclusion(proof)

-----------------------------------------------------------------------------
(* anchor.py                                                               *)

\* _largest_power_of_two_less_than
LargestPowerOfTwoLessThan(n) ==
    CHOOSE k \in 1..n : (\E e \in 0..n : k = 2^e) /\ (k < n \/ k = 1) /\ 2 * k >= n

\* _max_audit_path_len
MaxAuditPathLen(size) == CHOOSE b \in 0..size : 2^b >= size /\ (b = 0 \/ 2^(b - 1) < size)

Malformed == <<"malformed">>

\* _root_from_audit_path: the last element of the path belongs to the topmost
\* split; a path that is too short or too long is malformed.
RECURSIVE RootFromAuditPath(_, _, _, _)
RootFromAuditPath(leaf, index, size, path) ==
    IF size = 1 THEN IF path = <<>> THEN leaf ELSE Malformed
    ELSE IF path = <<>> THEN Malformed
    ELSE LET k == LargestPowerOfTwoLessThan(size)
             below == IF index < k THEN RootFromAuditPath(leaf, index, k, Front(path))
                      ELSE RootFromAuditPath(leaf, index - k, size - k, Front(path))
         IN  IF below = Malformed THEN Malformed
             ELSE IF index < k THEN NodeHash(below, Last(path)) ELSE NodeHash(Last(path), below)

\* verify_rekor_receipt, without the timestamp's signature.
VerifyRekorReceipt(leaf, index, size, path, root) ==
    /\ size >= 1 /\ index < size
    /\ Len(path) <= MaxAuditPathLen(size)
    /\ RootFromAuditPath(leaf, index, size, path) = root

-----------------------------------------------------------------------------
MerkleInit == epoch = <<>>

\* A checkpoint is received in this epoch.
Receive(checkpoint) == Len(epoch) < MaxLeaves /\ epoch' = Append(epoch, checkpoint)

MerkleNext == \E checkpoint \in Checkpoints : Receive(checkpoint)

-----------------------------------------------------------------------------
(* Properties.                                                             *)

\* RFC 6962, 2.1: the tree head by splitting at the largest power of two.
RECURSIVE TreeHead(_)
TreeHead(leaves) ==
    IF Len(leaves) = 1 THEN leaves[1]
    ELSE LET k == CHOOSE k \in 1..(Len(leaves) - 1) :
                    (\E e \in 0..k : k = 2^e) /\ 2 * k >= Len(leaves)
         IN  NodeHash(TreeHead(SubSeq(leaves, 1, k)), TreeHead(SubSeq(leaves, k + 1, Len(leaves))))

PathOf(steps) == [i \in DOMAIN steps |-> steps[i].sibling]

\* merkle.py, anchor.py: the tree is RFC 6962's; both verifiers accept every
\* proof of it; and neither can be talked into a checkpoint that is not where
\* the proof puts it, nor into another epoch's size.
ProofsAreSound ==
    epoch # <<>> =>
        LET tree == EpochTree
            root == Root(tree)
            size == Len(epoch)
        IN  /\ root = TreeHead(Leaves)
            /\ \A i \in 0..(size - 1) :
                 LET proof == Proof(tree, i)
                     path == PathOf(proof.steps)
                 IN  /\ \A c \in Checkpoints :
                          VerifyCheckpoint(c, [proof EXCEPT !.leaf = LeafHash(c)], root)
                            <=> c = epoch[i + 1]
                     /\ VerifyRekorReceipt(LeafHash(epoch[i + 1]), i, size, path, root)
                     /\ \A c \in Checkpoints, j \in 0..(size - 1) :
                          VerifyRekorReceipt(LeafHash(c), j, size, path, root)
                            => c = epoch[j + 1]
=============================================================================
