-------------------------------- MODULE Merkle ---------------------------------
(***************************************************************************)
(* The Merkle tree of a daily batch and the proofs of its leaves           *)
(* (packages/shared/src/merkle.ts), and the check of a proof by the open   *)
(* verifier (packages/verifier/src/primitives.ts).                         *)
(*                                                                         *)
(* The leaves of a batch, sorted and without duplicates, are numbered; the *)
(* hash of a pair is the set of the two, tagged: it does not depend on     *)
(* their order, since the code sorts them, and equals no other hash.       *)
(***************************************************************************)
EXTENDS Integers, Sequences

Leaf(i) == <<"leaf", i>>
Leaves(n) == [i \in 1 .. n |-> Leaf(i)]

HashPair(a, b) == <<"node", {a, b}>>

\* An odd node is promoted unchanged.
NextLevel(level) ==
  [i \in 1 .. (Len(level) + 1) \div 2 |->
     IF 2 * i <= Len(level) THEN HashPair(level[2 * i - 1], level[2 * i])
                            ELSE level[Len(level)]]

\* The levels from the leaves up; a level of one node is its own next level.
Levels(n) ==
  LET level[k \in 0 .. n] == IF k = 0 THEN Leaves(n) ELSE NextLevel(level[k - 1])
  IN level

ComputeMerkleRoot(n) == Levels(n)[n][1]

Sibling(index) == IF index % 2 = 1 THEN index + 1 ELSE index - 1

\* One level up the path of a leaf: its sibling joins the proof; a promoted node
\* has none.
Climb(level, path) ==
  LET s == Sibling(path.index) IN
  [index |-> (path.index + 1) \div 2,
   proof |-> IF s <= Len(level) THEN Append(path.proof, level[s]) ELSE path.proof]

Path(n, p) ==
  LET path[k \in 0 .. n] ==
        IF k = 0 THEN [index |-> p, proof |-> <<>>] ELSE Climb(Levels(n)[k - 1], path[k - 1])
  IN path

ComputeMerkleProof(n, p) == Path(n, p)[n].proof

\* What a leaf and the hashes of a proof make, one after the other.
Hashes(leaf, proof) ==
  LET current[i \in 0 .. Len(proof)] ==
        IF i = 0 THEN leaf ELSE HashPair(current[i - 1], proof[i])
  IN current

VerifyMerkleProof(leaf, proof, root) == Hashes(leaf, proof)[Len(proof)] = root
===============================================================================
