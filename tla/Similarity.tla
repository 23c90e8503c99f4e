----------------------------- MODULE Similarity -----------------------------
(***************************************************************************)
(* When two perceptual hashes count as "the same picture".                 *)
(*                                                                         *)
(* A perceptual hash is a 64-bit word (engine/hasher/phash.go); here it is *)
(* the set of its one-bits.  The L2 cache compares two of them by Hamming  *)
(* distance, the L3 vector index by the cosine of the 0/1 vectors that     *)
(* PHashVector makes of them.                                              *)
(***************************************************************************)
EXTENDS Integers, FiniteSets

\* Mutant: a wider threshold.
HammingThresholdWider == 8

\* HammingThreshold of engine/hasher/phash.go.
HammingThreshold == 5

\* bits.OnesCount64(p ^ q) of the L2 scan.
Hamming(p, q) == Cardinality((p \ q) \cup (q \ p))

\* A stored hash the L2 scan keeps as a candidate.
L2Match(p, q) == Hamming(p, q) <= HammingThreshold

\* Mutant: a certainty of 0.84, the cosine that 0.92 stands for.
CertaintyOfCosine(i, m, n) == m * n > 0 /\ 10000 * i * i >= 4624 * m * n

\* What certainty: 0.92 asks of two vectors with i ones in common and m and n
\* ones each.  Weaviate's certainty is (1 + cosine) / 2 and the cosine of two
\* 0/1 vectors is i / sqrt(m * n), so the bound is cosine >= 0.84, squared to
\* stay in the integers.  A zero vector has no direction and matches nothing.
CertaintyReached(i, m, n) == m * n > 0 /\ 10000 * i * i >= 7056 * m * n

\* A stored object a nearVector query for q may return.
L3Match(p, q) ==
    CertaintyReached(Cardinality(p \cap q), Cardinality(p), Cardinality(q))
=============================================================================
