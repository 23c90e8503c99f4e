-------------------------- MODULE RefinementProofs --------------------------
(***************************************************************************)
(* The pipeline keeps the promise of Moderation, for any requests,         *)
(* contents, analyzer, frame lists and faults: each step of Pipeline is a  *)
(* step of Moderation under the mapping of PipelineRefinement, or none.    *)
(***************************************************************************)
EXTENDS PipelineRefinement, PipelineProofs

\* The promise knows no unset decision, so only its proof needs this: neither an
\* answer nor a frame that was merged leaves the decision unset.
NeverUnset ==
    \A r \in Request :
       /\ acc[r].any => acc[r].worst # "UNSPECIFIED"
       /\ resp[r] # None => resp[r].decision # "UNSPECIFIED"

-----------------------------------------------------------------------------
(* The steps of a request, by what callers can tell of them.               *)

\* It takes in what it is about.
TakesInput(r) ==
    /\ pc[r] \in {"idle", "extract"}
    /\ \E list \in Seq(Input) : frames' = [frames EXCEPT ![r] = list]
    /\ UNCHANGED <<idx, acc, resp, verdicts>>

\* It comes to an answer, at least for a frame.
Answers(r) ==
    /\ pc[r] \in Running /\ UNCHANGED verdicts
    /\ \E answer \in Response :
          /\ answer.decision # "UNSPECIFIED"
          /\ frames[r] = <<>> => answer.decision # "ALLOW"
          /\ Return(r, answer)

Skips(r) == pc[r] \in Analyzing /\ ReturnError(r) /\ UNCHANGED verdicts

Hidden == UNCHANGED <<frames, acc, resp, verdicts>>

LEMMA StepKinds ==
    ASSUME TypeInv, NEW r \in Request, Submit(r) \/ Step(r)
    PROVE  TakesInput(r) \/ Answers(r) \/ Skips(r) \/ Hidden \/ Analyze(r)
<1>1. CASE \E input \in Input : SubmitContent(r, input)
  <2>1. PICK input \in Input : SubmitContent(r, input)
    BY <1>1
  <2>2. <<input>> \in Seq(Input)
    OBVIOUS
  <2>3. TakesInput(r)
    BY <2>1, <2>2 DEF TakesInput, SubmitContent
  <2>4. QED
    BY <2>3
<1>2. CASE \E list \in Extractions : Extract(r, list)
  <2>1. PICK list \in Extractions : Extract(r, list)
    BY <1>2
  <2>2. list \in Seq(Input) /\ <<Undecodable>> \in Seq(Input)
    BY PipelineAssumption DEF PipelineAssumption, Input
  <2>3. TakesInput(r)
    BY <2>1, <2>2 DEF TakesInput, Extract
  <2>4. QED
    BY <2>3
<1>3. CASE \/ SubmitUrl(r) \/ TakeFrames(r) \/ ExtractFails(r) \/ Normalize(r)
           \/ Miss(r) \/ AnalyzeFails(r) \/ RecheckMiss(r)
           \/ BackPopulate(r) \/ BackPopulateFails(r)
  BY <1>3 DEF SubmitUrl, TakeFrames, ExtractFails, Normalize, Miss, AnalyzeFails,
              RecheckMiss, BackPopulate, BackPopulateFails, Move, Hidden
<1>4. CASE BlockUrl(r) \/ QueueUrl(r) \/ QueueForAnalyzer(r) \/ ReplyError(r)
  <2>1. PICK decision \in {"BLOCK", "QUEUED", "ERROR"}, category \in Category, conf \in Nat :
           Return(r, Bare(decision, category, conf))
    BY <1>4 DEF BlockUrl, QueueUrl, QueueForAnalyzer, ReplyError, Category
  <2>2. Bare(decision, category, conf) \in Response
    BY BareType DEF Decision
  <2>3. Bare(decision, category, conf).decision = decision
    BY DEF Bare
  <2>4. pc[r] \in Running /\ UNCHANGED verdicts
    BY <1>4, Labels DEF BlockUrl, QueueUrl, UrlPassed, QueueForAnalyzer, ReplyError
  <2>5. Answers(r)
    BY <2>1, <2>2, <2>3, <2>4 DEF Answers
  <2>6. QED
    BY <2>5
<1>5. CASE NormalizeFails(r)
  BY <1>5, Labels DEF NormalizeFails, Skips
<1>6. CASE Hit(r) \/ RecheckHit(r)
  <2>1. /\ Cur(r) \in Content /\ pc[r] \in Analyzing /\ pc[r] \in Running
        /\ LevelOf[pc[r]] \in Level
    BY <1>6, Stages, Labels DEF Hit, RecheckHit, Lookup, Recheck, TypeInv, ControlOK
  <2>2. PICK v \in Found(LevelOf[pc[r]], Cur(r)), degraded \in BOOLEAN :
           Return(r, BuildResponse(v, LevelOf[pc[r]], degraded))
    BY <1>6 DEF Hit, RecheckHit
  <2>3. v \in Verdict
    BY <2>1, FoundType DEF TypeInv
  <2>4. /\ BuildResponse(v, LevelOf[pc[r]], degraded) \in Response
        /\ BuildResponse(v, LevelOf[pc[r]], degraded).decision \in {"ALLOW", "BLOCK"}
    BY <2>1, <2>3, BuildResponseType DEF BuildResponse, Verdict
  <2>5. frames[r] # <<>>
    BY <2>1 DEF TypeInv, ControlOK
  <2>6. UNCHANGED verdicts
    BY <1>6 DEF Hit, RecheckHit
  <2>7. Answers(r)
    BY <2>1, <2>2, <2>4, <2>5, <2>6 DEF Answers
  <2>8. QED
    BY <2>7
<1>7. CASE Reply(r)
  <2>1. hand[r] \in Verdict /\ pc[r] \in Analyzing /\ pc[r] \in Running
    BY <1>7, Labels DEF Reply, TypeInv, ControlOK
  <2>2. /\ BuildResponse(hand[r], "NONE", FALSE) \in Response
        /\ BuildResponse(hand[r], "NONE", FALSE).decision \in {"ALLOW", "BLOCK"}
    BY <2>1, BuildResponseType DEF BuildResponse, Verdict
  <2>3. frames[r] # <<>>
    BY <2>1 DEF TypeInv, ControlOK
  <2>4. Answers(r)
    BY <1>7, <2>1, <2>2, <2>3 DEF Reply, Answers
  <2>5. QED
    BY <2>4
<1>8. CASE Analyze(r)
  BY <1>8
<1>9. QED
  BY <1>1, <1>2, <1>3, <1>4, <1>5, <1>6, <1>7, <1>8 DEF Submit, Step
-----------------------------------------------------------------------------
(* No decision is left unset.                                              *)

LEMMA MergedIsSet ==
    ASSUME NEW a \in Accumulator, NEW answer \in Response,
           answer.decision # "UNSPECIFIED"
    PROVE  Merge(a, answer).worst # "UNSPECIFIED"
<1>1. a.worst \in Decision /\ answer.decision \in Decision
  BY DEF Accumulator, Response
<1>2. CASE IsMoreSevere(answer.decision, a.worst)
  BY <1>2 DEF Merge
<1>3. CASE ~IsMoreSevere(answer.decision, a.worst)
  <2>1. Merge(a, answer).worst = a.worst
    BY <1>3 DEF Merge
  <2>2. Severity[a.worst] # 0
    BY <1>1, <1>3 DEF IsMoreSevere, Severity, Decision
  <2>3. QED
    BY <2>1, <2>2 DEF Severity
<1>4. QED
  BY <1>2, <1>3

\* What an answer or a skipped frame changes.
LEMMA AnswerEffect ==
    ASSUME TypeInv, NEW r \in Request, Answers(r) \/ Skips(r)
    PROVE  /\ UNCHANGED <<mode, frames, verdicts>> /\ resp[r] = None
           /\ \A q \in Request \ {r} : acc'[q] = acc[q] /\ resp'[q] = resp[q]
           /\ idx'[r] \in {idx[r], idx[r] + 1} /\ (idx'[r] # idx[r] => idx[r] < Len(frames[r]))
<1>1. UNCHANGED <<mode, frames, verdicts>>
  BY DEF Answers, Skips, Return, ReturnError
<1>2. resp[r] = None
  BY Labels DEF Answers, Skips, TypeInv, ControlOK
<1>3. (UNCHANGED <<idx, acc>>) \/ \E a : NextFrame(r, a)
  BY DEF Answers, Skips, Return, ReturnError
<1>4. /\ \A q \in Request \ {r} : acc'[q] = acc[q] /\ resp'[q] = resp[q]
      /\ idx'[r] \in {idx[r], idx[r] + 1} /\ (idx'[r] # idx[r] => idx[r] < Len(frames[r]))
  BY DEF Answers, Skips, Return, ReturnError, NextFrame, TypeInv, TypeOK
<1>5. QED
  BY <1>1, <1>2, <1>4

LEMMA NextFrameSet ==
    ASSUME TypeInv, NeverUnset, NEW r \in Request, NEW a, NextFrame(r, a),
           a.any => a.worst # "UNSPECIFIED"
    PROVE  /\ acc'[r].any => acc'[r].worst # "UNSPECIFIED"
           /\ resp'[r] # None => resp'[r].decision # "UNSPECIFIED"
<1>1. acc'[r] = a /\ resp'[r] \in {resp[r], Aggregate(a)}
  BY DEF NextFrame, TypeInv, TypeOK
<1>2. Aggregate(a).decision # "UNSPECIFIED"
  BY DEF Aggregate, Bare
<1>3. QED
  BY <1>1, <1>2 DEF NeverUnset

LEMMA NextNeverUnset ==
    ASSUME TypeInv, NeverUnset, [Next]_vars
    PROVE  NeverUnset'
<1>1. ASSUME UNCHANGED <<acc, resp>>
      PROVE  NeverUnset'
  BY <1>1 DEF NeverUnset
<1>2. ASSUME NEW r \in Request, Answers(r) \/ Skips(r)
      PROVE  NeverUnset'
  <2>1. \A q \in Request \ {r} : acc'[q] = acc[q] /\ resp'[q] = resp[q]
    BY <1>2, AnswerEffect
  <2>2. /\ acc'[r].any => acc'[r].worst # "UNSPECIFIED"
        /\ resp'[r] # None => resp'[r].decision # "UNSPECIFIED"
    <3>1. CASE Skips(r)
      BY <3>1, NextFrameSet DEF Skips, ReturnError, NeverUnset
    <3>2. CASE Answers(r)
      <4>1. PICK answer \in Response :
               answer.decision # "UNSPECIFIED" /\ Return(r, answer)
        BY <3>2 DEF Answers
      <4>2. CASE NextFrame(r, Merge(acc[r], answer))
        BY <4>1, <4>2, MergedIsSet, NextFrameSet DEF TypeInv, TypeOK
      <4>3. CASE resp' = [resp EXCEPT ![r] = answer] /\ UNCHANGED acc
        BY <4>1, <4>3 DEF NeverUnset, TypeInv, TypeOK
      <4>4. QED
        BY <4>1, <4>2, <4>3 DEF Return
    <3>3. QED
      BY <1>2, <3>1, <3>2
  <2>3. QED
    BY <2>1, <2>2 DEF NeverUnset
<1>3. ASSUME NEW r \in Request, Submit(r) \/ Step(r)
      PROVE  NeverUnset'
  BY <1>1, <1>2, <1>3, StepKinds DEF TakesInput, Hidden, Analyze
<1>4. QED
  BY <1>1, <1>3 DEF Next, Cancel, RunHook, Evict, Restart, Quiet, reqVars, vars
-----------------------------------------------------------------------------
(* The promise.                                                            *)

LEMMA InitPromise == Init => Promise!Init
<1> SUFFICES ASSUME Init PROVE Promise!Init
    OBVIOUS
<1>1. Asked = [r \in Request |-> {}]
  BY DEF Init, Asked
<1>2. Judged = {}
  BY DEF Init, Judged
<1>3. Answer = [r \in Request |-> None]
  BY DEF Init, Answer
<1>4. QED
  BY <1>1, <1>2, <1>3 DEF Promise!Init

LEMMA HiddenKeeps ==
    ASSUME UNCHANGED <<frames, resp, verdicts>>
    PROVE  UNCHANGED Promise!vars
BY DEF Promise!vars, Asked, Judged, Answer

LEMMA InputKeeps ==
    ASSUME TypeInv, NEW r \in Request, TakesInput(r)
    PROVE  Promise!Next
<1>1. PICK list \in Seq(Input) : frames' = [frames EXCEPT ![r] = list]
  BY DEF TakesInput
<1> DEFINE contents == {list[i] : i \in DOMAIN list} \cap Content
<1>2. Asked[r] = {} /\ Answer[r] = None
  BY DEF TakesInput, TypeInv, ControlOK, Asked, Answer
<1>3. Asked' = [Asked EXCEPT ![r] = contents]
  <2>1. \A q \in Request : frames'[q] = IF q = r THEN list ELSE frames[q]
    BY <1>1 DEF TypeInv, TypeOK
  <2>2. QED
    BY <2>1 DEF Asked
<1>4. UNCHANGED <<Judged, Answer>>
  BY DEF TakesInput, Judged, Answer
<1>5. contents \in SUBSET Content
  OBVIOUS
<1>6. Promise!Ask(r, contents)
  BY <1>2, <1>3, <1>4 DEF Promise!Ask
<1>7. QED
  BY <1>5, <1>6 DEF Promise!Next

LEMMA AnalyzeKeeps ==
    ASSUME TypeInv, NEW r \in Request, Analyze(r)
    PROVE  Promise!Next
<1>1. PICK result \in Oracle[Cur(r)] :
         verdicts' = verdicts \cup {<<Cur(r), Judge(result)>>}
  BY DEF Analyze
<1> DEFINE j == Judge(result).decision
<1>2. /\ Cur(r) \in Content /\ idx[r] \in 1 .. Len(frames[r])
      /\ frames[r] \in Seq(Input) /\ resp[r] = None
  BY Labels DEF Analyze, TypeInv, TypeOK, ControlOK
<1>3. Judge(result) \in Verdict
  BY <1>1, <1>2, PipelineAssumption, JudgeType DEF PipelineAssumption
<1>4. j \in Promise!Judgement
  BY <1>3 DEF Promise!Judgement, Verdict
<1>5. Answer[r] = None /\ Cur(r) \in Asked[r]
  BY <1>2 DEF Answer, Asked, Cur
<1>6. Judged' = Judged \cup {<<Cur(r), j>>}
  <2>1. Judged' = {<<p[1], p[2].decision>> : p \in verdicts \cup {<<Cur(r), Judge(result)>>}}
    BY <1>1 DEF Judged
  <2>2. /\ <<Cur(r), Judge(result)>>[1] = Cur(r)
        /\ <<Cur(r), Judge(result)>>[2].decision = j
    OBVIOUS
  <2> HIDE DEF j
  <2>3. QED
    BY <2>1, <2>2 DEF Judged
<1>7. UNCHANGED <<Asked, Answer>>
  BY DEF Analyze, Asked, Answer
<1>8. Promise!Judge(r, Cur(r), j)
  BY <1>2, <1>5, <1>6, <1>7 DEF Promise!Judge
<1>9. QED
  BY <1>2, <1>4, <1>8 DEF Promise!Next

\* The heart: what AnswerProvenance says of the answer is what Decide asks for.
LEMMA AnswerIsDecided ==
    ASSUME TypeInv, AnswerProvenance', NEW r \in Request, Answers(r) \/ Skips(r),
           resp'[r] # None, resp'[r] \in Response, frames[r] # <<>>,
           resp'[r].decision \in {"ALLOW", "BLOCK"}
    PROVE  \E p \in Judged, o \in Asked[r] :
              p[2] = resp'[r].decision /\ o \in Content /\ Alike(p[1], o)
<1>1. /\ UNCHANGED <<mode, frames, verdicts>>
      /\ idx'[r] \in {idx[r], idx[r] + 1} /\ (idx'[r] # idx[r] => idx[r] < Len(frames[r]))
  BY AnswerEffect
<1>2. idx'[r] \in DOMAIN frames[r]
  <2>1. pc[r] \in Analyzing
    BY Labels DEF Answers, Skips, TypeInv, ControlOK
  <2>2. idx[r] \in 1 .. Len(frames[r]) /\ frames[r] \in Seq(Input)
    BY <2>1 DEF TypeInv, TypeOK, ControlOK
  <2>3. QED
    BY <1>1, <2>2
<1>3. \E i \in DOMAIN frames[r], level \in Level \cup {"NONE"}, p \in verdicts :
         /\ frames[r][i] \in Content /\ Reaches(level, p[1], frames[r][i])
         /\ p[2].decision = resp'[r].decision
  <2>1. CASE /\ frames[r][idx'[r]] \in Content
             /\ \E p \in verdicts : /\ p[2] = VerdictOf(resp'[r])
                                    /\ Reaches(resp'[r].level, p[1], frames[r][idx'[r]])
    <3>1. PICK p \in verdicts : /\ p[2] = VerdictOf(resp'[r])
                               /\ Reaches(resp'[r].level, p[1], frames[r][idx'[r]])
      BY <2>1
    <3>2. p[2].decision = resp'[r].decision
      BY <3>1 DEF VerdictOf
    <3>3. resp'[r].level \in Level \cup {"NONE"}
      BY DEF Response
    <3>4. QED
      BY <1>2, <2>1, <3>1, <3>2, <3>3
  <2>2. CASE \E i \in DOMAIN frames[r], level \in Level \cup {"NONE"}, p \in verdicts :
                /\ frames[r][i] \in Content
                /\ \E q \in verdicts : q[2] = p[2] /\ Reaches(level, q[1], frames[r][i])
                /\ p[2].decision = resp'[r].decision
    BY <2>2
  <2>3. QED
    BY <1>1, <2>1, <2>2
       DEF AnswerProvenance, FrameSupports, Supported, Cur, VerdictOf
<1>4. PICK i \in DOMAIN frames[r], level \in Level \cup {"NONE"}, p \in verdicts :
         /\ frames[r][i] \in Content /\ Reaches(level, p[1], frames[r][i])
         /\ p[2].decision = resp'[r].decision
  BY <1>3
<1>5. <<p[1], p[2].decision>> \in Judged
  BY DEF Judged
<1>6. frames[r][i] \in Asked[r] /\ Alike(p[1], frames[r][i])
  BY <1>4 DEF Asked, Alike
<1>7. QED
  BY <1>4, <1>5, <1>6

LEMMA AnswerKeeps ==
    ASSUME TypeInv, TypeInv', AnswerProvenance', NeverUnset', NEW r \in Request,
           Answers(r) \/ Skips(r)
    PROVE  Promise!Next \/ UNCHANGED Promise!vars
<1>1. /\ UNCHANGED <<mode, frames, verdicts>> /\ resp[r] = None
      /\ \A q \in Request \ {r} : resp'[q] = resp[q]
  BY AnswerEffect
<1>2. UNCHANGED <<Asked, Judged>>
  BY <1>1 DEF Asked, Judged
<1>3. CASE resp'[r] = None
  <2>1. resp' = resp
    BY <1>1, <1>3 DEF TypeInv, TypeOK
  <2>2. QED
    BY <1>1, <2>1, HiddenKeeps
<1>4. CASE resp'[r] # None
  <2> DEFINE d == resp'[r].decision
  <2>1. resp'[r] \in Response /\ d \in Decision \ {"UNSPECIFIED"}
    BY <1>4 DEF TypeInv, TypeOK, NeverUnset, Response
  <2>2. Answer[r] = None /\ Answer' = [Answer EXCEPT ![r] = d]
    <3>1. Answer[r] = None
      BY <1>1 DEF Answer
    <3>2. \A q \in Request :
             Answer'[q] = IF resp'[q] = None THEN None ELSE resp'[q].decision
      BY DEF Answer
    <3>3. Answer'[r] = d /\ \A q \in Request \ {r} : Answer'[q] = Answer[q]
      BY <1>1, <1>4, <3>2 DEF Answer
    <3>4. Answer' = [q \in Request |-> Answer'[q]] /\ Answer = [q \in Request |-> Answer[q]]
      BY DEF Answer
    <3> HIDE DEF d
    <3>5. QED
      BY <3>1, <3>3, <3>4
  <2>3. CASE d \in {"QUEUED", "ERROR"}
    <3>1. Promise!PutOff(r)
      BY <1>2, <2>2, <2>3 DEF Promise!PutOff
    <3>2. QED
      BY <3>1 DEF Promise!Next
  <2>4. CASE d \in {"ALLOW", "BLOCK"} /\ frames[r] # <<>>
    <3>1. Promise!Decide(r, d)
      BY <1>2, <1>4, <2>1, <2>2, <2>4, AnswerIsDecided DEF Promise!Decide
    <3>2. QED
      BY <2>4, <3>1 DEF Promise!Next, Promise!Judgement
  <2>5. CASE d \in {"ALLOW", "BLOCK"} /\ frames[r] = <<>>
    <3>1. Asked[r] = {}
      BY <2>5 DEF Asked
    <3>2. pc[r] \notin Analyzing
      BY <2>5 DEF TypeInv, ControlOK
    <3>3. Answers(r) /\ mode[r] = "single"
      BY <3>2, Labels DEF Skips, Answers, TypeInv, ControlOK
    <3>4. d = "BLOCK"
      BY <2>5, <3>3 DEF Answers, Return, TypeInv, TypeOK
    <3>5. Promise!Refuse(r)
      BY <1>2, <2>2, <3>1, <3>4 DEF Promise!Refuse
    <3>6. QED
      BY <3>5 DEF Promise!Next
  <2>6. QED
    BY <2>1, <2>3, <2>4, <2>5 DEF Decision
<1>5. QED
  BY <1>3, <1>4

LEMMA NextKeepsPromise ==
    ASSUME TypeInv, TypeInv', Provenance', NeverUnset', [Next]_vars
    PROVE  [Promise!Next]_Promise!vars
<1>1. ASSUME NEW r \in Request, Submit(r) \/ Step(r)
      PROVE  Promise!Next \/ UNCHANGED Promise!vars
  BY <1>1, StepKinds, InputKeeps, AnswerKeeps, AnalyzeKeeps, HiddenKeeps
     DEF Hidden, Provenance
<1>2. CASE UNCHANGED <<frames, resp, verdicts>>
  BY <1>2, HiddenKeeps
<1>3. QED
  BY <1>1, <1>2 DEF Next, Cancel, RunHook, Evict, Restart, Quiet, reqVars, vars

LEMMA NeverUnsetInvariant == Spec => []NeverUnset
<1>1. Init => NeverUnset
  <2> SUFFICES ASSUME Init, NEW r \in Request
               PROVE  ~acc[r].any /\ resp[r] = None
    BY DEF NeverUnset
  <2>1. acc[r] = NewAccumulator /\ resp[r] = None
    BY DEF Init
  <2>2. NewAccumulator.any = FALSE
    BY DEF NewAccumulator
  <2>3. QED
    BY <2>1, <2>2
<1>2. TypeInv /\ NeverUnset /\ [Next]_vars => NeverUnset'
  BY NextNeverUnset
<1>3. QED
  BY <1>1, <1>2, TypeInvariant, PTL DEF Spec

\* Execute and everything it calls implement the promise of Moderation: an ALLOW
\* or BLOCK rests on a judgement of content alike to what was asked about, a
\* link alone is refused or put off, and no answer is taken back, whatever the
\* caches, the frame loop, the recheck and the faults do in between
\* (pipeline.go, lines 173-676).
THEOREM PromiseKept == Spec => KeepsPromise
<1>1. Init => Promise!Init
  BY InitPromise
<1>2. TypeInv /\ TypeInv' /\ Provenance' /\ NeverUnset' /\ [Next]_vars
         => [Promise!Next]_Promise!vars
  BY NextKeepsPromise
<1>3. QED
  BY <1>1, <1>2, TypeInvariant, ProvenanceInvariant, NeverUnsetInvariant, PTL
     DEF Spec, KeepsPromise, Promise!Spec
=============================================================================
