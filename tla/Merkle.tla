------------------------------- MODULE Merkle -------------------------------
(***************************************************************************)
(* until/merkle: the trees of a block's transactions and of a script's     *)
(* writes.                                                                 *)
(*                                                                         *)
(* Hashing is injective, so a hash is written as what was hashed: <<data>> *)
(* for a leaf and <<left, right>> for a branch.  With that a tree is the   *)
(* hash of its root.  Data is a sequence of three, which no hash is.       *)
(*                                                                         *)
(* The search for a proof appends to one slice twice.  Go's append writes  *)
(* to the slice's array where that has room, over what an earlier append   *)
(* of the same slice has written; therefore slices and arrays are modelled *)
(* here.                                                                   *)
(***************************************************************************)
EXTENDS Integers, SequencesExt
LOCAL INSTANCE Bitwise

CONSTANT MaxLeaves  \* bound on the leaves of a tree

ASSUME MerkleAssumption == MaxLeaves \in Nat

VARIABLE leafData  \* what the tree is made from (New)

(***************************************************************************)
(* Slices.  mem has the arrays, a slice is a place in mem and a length.    *)
(***************************************************************************)

Blank == <<>>
NoPath == [at |-> 0, len |-> 0]   \* MerkleProof{}

Room(mem, s) == IF s.at = 0 THEN 0 ELSE Len(mem[s.at])
Elements(mem, s) == IF s.len = 0 THEN <<>> ELSE SubSeq(mem[s.at], 1, s.len)

\* append of elems to s; an array that is too short is copied to one of twice
\* the length, or as long as needed.
AppendAll(mem, s, elems) ==
    LET n == s.len + Len(elems) IN
    IF n <= Room(mem, s)
    THEN [mem |-> IF elems = <<>> THEN mem
                  ELSE [mem EXCEPT ![s.at] = [i \in DOMAIN @ |->
                          IF i \in s.len + 1 .. n THEN elems[i - s.len] ELSE @[i]]],
          slice |-> [at |-> s.at, len |-> n]]
    ELSE LET array == Elements(mem, s) \o elems
             spare == [i \in 1 .. (IF 2 * Room(mem, s) > n THEN 2 * Room(mem, s) - n ELSE 0) |-> Blank]
         IN [mem |-> Append(mem, array \o spare),
             slice |-> [at |-> Len(mem) + 1, len |-> n]]

(***************************************************************************)
(* The tree.                                                               *)
(***************************************************************************)

mkLeaf(d) == <<d>>
mkBranch(l, r) == <<l, r>>
isLeafNode(node) == Len(node) = 1

RECURSIVE powerOfTwo0(_)
powerOfTwo0(n) == IF n & (n - 1) = 0 THEN n ELSE powerOfTwo0(n & (n - 1))

\* The greatest power of two below n.
powerOfTwo(n) == IF n & (n - 1) = 0 THEN n \div 2 ELSE powerOfTwo0(n)

RECURSIVE mkMerkleTreeRoot(_)
mkMerkleTreeRoot(ds) ==
    LET n == Len(ds)
        i == powerOfTwo(n)
    IN IF n = 1 THEN mkLeaf(ds[1])
       ELSE mkBranch(mkMerkleTreeRoot(SubSeq(ds, 1, i)), mkMerkleTreeRoot(SubSeq(ds, i + 1, n)))

(***************************************************************************)
(* Proofs.                                                                 *)
(***************************************************************************)

ProofElem(isLeft, node, sibling) ==
    [isLeft |-> isLeft, nodeRoot |-> node, siblingRoot |-> sibling]

\* Looks for node in both halves of the tree, with the path to it appended to
\* proof, which both searches share.
RECURSIVE constructPath(_, _, _, _)
constructPath(mem, proof, tree, node) ==
    IF isLeafNode(tree)
    THEN [mem |-> mem, slice |-> IF tree = node THEN proof ELSE NoPath]
    ELSE LET l  == AppendAll(mem, proof, <<ProofElem(TRUE, tree[1], tree[2])>>)
             lp == constructPath(l.mem, l.slice, tree[1], node)
             r  == AppendAll(lp.mem, proof, <<ProofElem(FALSE, tree[2], tree[1])>>)
             rp == constructPath(r.mem, r.slice, tree[2], node)
         IN AppendAll(rp.mem, lp.slice, Elements(rp.mem, rp.slice))

merkleProof(tree, node) ==
    LET found == constructPath(<<>>, NoPath, tree, node)
    IN Elements(found.mem, found.slice)

\* A changed validate that takes every node for a left one.
RECURSIVE validateFromLeft(_, _, _)
validateFromLeft(proof, root, node) ==
    IF proof = <<>> THEN node = root
    ELSE /\ Last(proof).nodeRoot = node
         /\ validateFromLeft(Front(proof), root,
                             mkBranch(Last(proof).nodeRoot, Last(proof).siblingRoot))

RECURSIVE validate(_, _, _)
validate(proof, root, node) ==
    IF proof = <<>> THEN node = root
    ELSE LET e == Last(proof)
         IN /\ e.nodeRoot = node
            /\ validate(Front(proof), root, IF e.isLeft THEN mkBranch(e.nodeRoot, e.siblingRoot)
                                            ELSE mkBranch(e.siblingRoot, e.nodeRoot))

VerifyNode(tree, d) == validate(merkleProof(tree, mkLeaf(d)), tree, mkLeaf(d))

-----------------------------------------------------------------------------

\* The bytes of the i-th of the transactions that are tried.
Bytes(i) == <<"tx", i, "bytes">>

MerkleInit == leafData = <<>>

\* New over one more datum: another one, or, once, one that is there already.
\* Which is immaterial, as only equality counts.
MerkleNext ==
    /\ Len(leafData) < MaxLeaves
    /\ \/ leafData' = Append(leafData, Bytes(Len(leafData) + 1))
       \/ IsInjective(leafData) /\ \E d \in ToSet(leafData) : leafData' = Append(leafData, d)

(***************************************************************************)
(* Properties.                                                             *)
(***************************************************************************)

\* "detects whether the data exists in the tree" (merkle.go:121): VerifyNode
\* finds nothing that is not in the tree, and all of up to eight different
\* data.  Of nine to sixteen it misses those that are left of their siblings on
\* the fourth level, where the search of the right half writes over the path
\* that was found in the left one.  And a block's root, which VerifyBlcok looks
\* for (txpool.go:401), is never found.
VerifyFindsLeaves ==
    leafData # <<>> =>
      LET tree == mkMerkleTreeRoot(leafData) IN
      /\ \A i \in 1 .. MaxLeaves :
           /\ VerifyNode(tree, Bytes(i)) => Bytes(i) \in ToSet(leafData)
           /\ (Bytes(i) \in ToSet(leafData) /\ IsInjective(leafData) /\ Len(leafData) <= 8) =>
                VerifyNode(tree, Bytes(i))
      /\ ~VerifyNode(tree, tree)
=============================================================================
