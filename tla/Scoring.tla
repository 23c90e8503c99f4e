------------------------------- MODULE Scoring -------------------------------
(***************************************************************************)
(* How the Inference service turns what the model scores into a verdict.   *)
(*                                                                         *)
(* A category has a threshold and some prompts.  The prompts of all        *)
(* categories go to the model as the rows of one matrix and come back as   *)
(* one row of scores per frame, which is cut by position into categories   *)
(* again (inference/classifier).  The best score of a category over its    *)
(* prompts and over the frames decides whether it triggers                 *)
(* (inference/server), and the Engine's client blocks if any did           *)
(* (engine/analyzer).  The score of a prompt on a frame, a sigmoid in the  *)
(* code, is a number of Scores; tensors and pixels are left out.           *)
(*                                                                         *)
(* Scores are kept by the name of a category, and nothing in the           *)
(* configuration keeps two categories from having one name.  The best      *)
(* score over the frames is kept as a float32 of what the model says as a  *)
(* float64, and is what the threshold, a float64, is compared with: Single *)
(* is that rounding.                                                       *)
(***************************************************************************)
EXTENDS Integers, Sequences, SequencesExt, FiniteSetsExt

CONSTANTS
    Names,      \* the names of categories
    Configs,    \* the sequences of categories a configuration may list
    MaxScore,   \* the highest score
    Single,     \* the nearest float32 of each score
    MaxImages   \* bound on the frames of one call

Scores == 0 .. MaxScore

\* There is a category, and each has a prompt (validate of inference/config.go).
Category == [name : Names, threshold : Nat, prompts : Nat \ {0}]

ASSUME ScoringAssumption ==
    /\ Configs \subseteq Seq(Category) \ {<<>>} /\ MaxScore \in Nat
    /\ Single \in [Scores -> Scores] /\ Single[0] = 0
    /\ \A s, t \in Scores : s <= t => Single[s] <= Single[t]

VARIABLES
    cats,       \* the categories of the call's configuration
    frames,     \* what the model says of each frame, prompt by prompt
    aggScores,  \* the best score of each name over the frames so far
    result      \* the answer after convertClassifyResponse, or NoResult

scoringVars == <<cats, frames, aggScores, result>>

NoResult == [decision |-> FALSE, confidence |-> -1, flagged |-> {}]

\* The prompts of one category, as the configuration lists them.
Prompts(cs, c) == [i \in 1 .. cs[c].prompts |-> <<c, i>>]

NamesOf(cs) == {cs[c].name : c \in DOMAIN cs}

\* The last category of a name: the classifier's map keeps its score only.
LastNamed(cs, n) == Max({c \in DOMAIN cs : cs[c].name = n})

AllPrompts(cs) == UNION {ToSet(Prompts(cs, c)) : c \in DOMAIN cs}

ScoringInit ==
    /\ cats \in Configs
    /\ frames = <<>>
    /\ aggScores = [n \in NamesOf(cats) |-> 0]
    /\ result = NoResult
-----------------------------------------------------------------------------
\* The rows of the text matrix: the prompts of one category after the other.
FlattenInputIDs(cs) == FlattenSeq([c \in DOMAIN cs |-> Prompts(cs, c)])

\* Mutant: the offset is never advanced.
OffsetStuck(cs, c) == 0

\* Where the columns of a category begin.
Offset(cs, c) ==
    LET before[d \in DOMAIN cs] ==
            IF d = 1 THEN 0 ELSE before[d - 1] + cs[d - 1].prompts
    IN  before[c]

\* Classify of the classifier: the best of a category's columns.
Classify(logits, cs) ==
    [n \in NamesOf(cs) |->
        LET c == LastNamed(cs, n)
        IN  Max({0} \cup {logits[Offset(cs, c) + i] : i \in 1 .. cs[c].prompts})]

\* Mutant: the last frame decides.
AggregateLast(agg, scores) == [n \in DOMAIN agg |-> Single[scores[n]]]

\* The loop over the frames keeps the better score of each name, as a float32.
Aggregate(agg, scores) == [n \in DOMAIN agg |-> Max({agg[n], Single[scores[n]]})]

\* The names of the categories whose threshold is reached.
Triggered ==
    {cats[c].name : c \in {d \in DOMAIN cats :
                              aggScores[cats[d].name] >= cats[d].threshold}}

\* The confidence: the best score of all, of a name that triggered or not.
TopScore == Max({0} \cup Range(aggScores))

\* One frame goes through the loop of Classify.
ScoreFrame ==
    /\ result = NoResult /\ Len(frames) < MaxImages
    /\ \E said \in [AllPrompts(cats) -> Scores] :
        LET rows   == FlattenInputIDs(cats)
            logits == [k \in DOMAIN rows |-> said[rows[k]]]
        IN  /\ frames' = Append(frames, said)
            /\ aggScores' = Aggregate(aggScores, Classify(logits, cats))
    /\ UNCHANGED <<cats, result>>

\* The response, and what convertClassifyResponse makes of it.
Respond ==
    /\ result = NoResult /\ frames # <<>>
    /\ result' = [decision   |-> Triggered # {},
                  confidence |-> TopScore,
                  flagged    |-> Triggered]
    /\ UNCHANGED <<cats, frames, aggScores>>
-----------------------------------------------------------------------------
\* Some frame scored, on a prompt of the last category named like c and as a
\* float32, at least the threshold of c.
Reached(c) ==
    LET d == LastNamed(cats, cats[c].name)
    IN  \E k \in DOMAIN frames : \E i \in 1 .. cats[d].prompts :
            Single[frames[k][<<d, i>>]] >= cats[c].threshold

\* Content is blocked exactly when a category was reached, and the flagged names
\* are those of the categories reached (handler.go, lines 185-218, and Classify's
\* cut by position).  While names differ, the prompts that count are the
\* category's own; of two categories with one name, which the configuration does
\* not refuse (config.go, lines 143-160), the first is judged by the prompts of
\* the second.
BlockedByAPrompt ==
    result # NoResult =>
        LET reached == {cats[c].name : c \in {d \in DOMAIN cats : Reached(d)}}
        IN  result.flagged = reached /\ (result.decision <=> reached # {})
=============================================================================
