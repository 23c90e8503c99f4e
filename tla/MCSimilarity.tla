---------------------------- MODULE MCSimilarity ----------------------------
(***************************************************************************)
(* The two pure algorithms a verdict goes through, side by side; one call  *)
(* works on one part.                                                      *)
(*                                                                         *)
(* "hashes": every pair of 64-bit perceptual hashes, up to the position of *)
(* the bits: the two similarity levels only see how many ones are common   *)
(* and how many belong to one hash.  The pair grows bit by bit, so that    *)
(* each combination of the three counts is reached.                        *)
(* "scores": every scoring of up to MaxImages frames.                      *)
(***************************************************************************)
EXTENDS Similarity, Scoring

CONSTANT Bits   \* the width of a hash

VARIABLES part, p, q

hashVars == <<p, q>>
vars == <<part, p, q, scoringVars>>

Free == (0 .. Bits - 1) \ (p \cup q)

\* Two categories with up to three prompts, each with a threshold of its own, of
\* two names or of one.
TwoCategories ==
    {cs \in [{1, 2} -> [name : Names, threshold : 1 .. MaxScore, prompts : 1 .. 2]] :
        cs[1].prompts + cs[2].prompts <= 3}

\* A float32 that knows 0 and 2 only: 1 is rounded up to 2, 3 down to 2.
Coarse == [s \in Scores |-> IF s = 0 THEN 0 ELSE Min({2, MaxScore})]

Init ==
    /\ part \in {"hashes", "scores"} /\ p = {} /\ q = {} /\ ScoringInit
    /\ part = "hashes" => cats = CHOOSE cs \in Configs : TRUE

\* The pair takes the lowest free bit, in both hashes or in one.
SetBoth == Free # {} /\ p = q
           /\ p' = p \cup {Min(Free)} /\ q' = q \cup {Min(Free)}
SetFirst == Free # {} /\ q \subseteq p
            /\ p' = p \cup {Min(Free)} /\ UNCHANGED q
SetSecond == Free # {} /\ q' = q \cup {Min(Free)} /\ UNCHANGED p

Next ==
    /\ \/ part = "hashes" /\ (SetBoth \/ SetFirst \/ SetSecond)
          /\ UNCHANGED scoringVars
       \/ part = "scores" /\ (ScoreFrame \/ Respond) /\ UNCHANGED hashVars
    /\ UNCHANGED part

Spec == Init /\ [][Next]_vars
-----------------------------------------------------------------------------
\* What the L2 cache takes for the same picture the index takes too, once the
\* hashes have 14 ones in common.  With fewer the index is not "broader than L2's
\* Hamming distance" as phash.go, lines 83-85, says of it, and an L2 hit lost to an
\* eviction may not come back (executeStandard, lines 576-614).
NearIsIndexed ==
    (L2Match(p, q) /\ Cardinality(p \cap q) >= 14) => L3Match(p, q)

\* How far the index reaches: at a certainty of 0.92 no hit is on a picture
\* that differs in more than 18 of the 64 bits (SearchSimilar, lines 67-95).
IndexReach == L3Match(p, q) => Hamming(p, q) <= 18
=============================================================================
