--------------------------- MODULE PipelineProofs ---------------------------
(***************************************************************************)
(* Proofs about the pipeline, for any number of requests and contents, any *)
(* analyzer, any frame lists and any set of faults.                        *)
(***************************************************************************)
EXTENDS Pipeline, TLAPS

\* A request that has its inputs, and one whose input is decoded.
Analyzing == Running \ {"url", "extract"}
Decoded == Analyzing \ {"norm"}
Verdictful == Store \cup {"reply"}

\* What the place a request stands at says about its other variables.
ControlOK ==
    \A r \in Request :
       /\ pc[r] \in {"idle", "url", "extract"} =>
             /\ frames[r] = <<>> /\ idx[r] = 1 /\ mode[r] = "single"
             /\ resp[r] = None /\ acc[r] = NewAccumulator
       /\ pc[r] \in Analyzing => idx[r] \in 1 .. Len(frames[r])
       /\ pc[r] \in Running => resp[r] = None
       /\ pc[r] \in Decoded => Cur(r) \in Content
       /\ pc[r] \in Verdictful => hand[r] \in Verdict

TypeInv == TypeOK /\ ControlOK
-----------------------------------------------------------------------------
(* What the helpers return.                                                *)

LEMMA JudgeType ==
    ASSUME NEW result \in Result
    PROVE  Judge(result) \in Verdict
<1>1. DominantCategory(result.categories) \in Category
  <2> DEFINE found == {i \in 1 .. 5 : Priority[i] \in result.categories}
             first == CHOOSE i \in found : \A j \in found : i <= j
  <2>1. CASE found = {}
    BY <2>1 DEF DominantCategory, Category
  <2>2. CASE found # {}
    <3>1. \E i \in found : \A j \in found : i <= j
      <4>1. CASE 1 \in found  BY <4>1
      <4>2. CASE 1 \notin found /\ 2 \in found  BY <4>2
      <4>3. CASE {1, 2} \cap found = {} /\ 3 \in found  BY <4>3
      <4>4. CASE {1, 2, 3} \cap found = {} /\ 4 \in found  BY <4>4
      <4>5. CASE {1, 2, 3, 4} \cap found = {}  BY <4>5, <2>2
      <4>6. QED  BY <4>1, <4>2, <4>3, <4>4, <4>5
    <3>2. first \in 1 .. 5
      BY <3>1
    <3>3. \A i \in 1 .. 5 : Priority[i] \in Harmful
      BY DEF Priority, Harmful
    <3>4. DominantCategory(result.categories) = Priority[first]
      BY <2>2 DEF DominantCategory
    <3>5. QED
      BY <3>2, <3>3, <3>4 DEF Category
  <2>3. QED
    BY <2>1, <2>2
<1>2. DecisionFromBool(result.flagged) \in {"ALLOW", "BLOCK"}
  BY DEF DecisionFromBool
<1>3. result.conf \in Nat
  BY DEF Result
<1>4. QED
  BY <1>1, <1>2, <1>3 DEF Judge, Verdict

LEMMA BuildResponseType ==
    ASSUME NEW v \in Verdict, NEW level \in Level \cup {"NONE"},
           NEW degraded \in BOOLEAN
    PROVE  BuildResponse(v, level, degraded) \in Response
BY DEF BuildResponse, Verdict, Response, Decision

LEMMA BareType ==
    ASSUME NEW decision \in Decision, NEW category \in Category, NEW conf \in Nat
    PROVE  Bare(decision, category, conf) \in Response
BY DEF Bare, Response

LEMMA MergeType ==
    ASSUME NEW a \in Accumulator, NEW answer \in Response
    PROVE  Merge(a, answer) \in Accumulator
BY DEF Merge, Accumulator, Response

LEMMA AggregateType ==
    ASSUME NEW a \in Accumulator
    PROVE  Aggregate(a) \in Response
BY BareType DEF Aggregate, Accumulator, Decision, Category

\* The stages name their level and what follows them.
LEMMA Stages ==
    /\ \A s \in Lookup \cup Recheck \cup Store :
          LevelOf[s] \in Level
    /\ \A s \in Lookup : Following[s] \in {"L2", "L3", "analyze"}
    /\ \A s \in Recheck : Following[s] \in {"reL2", "reL3", "error"}
    /\ \A s \in Store : Following[s] \in {"setL2", "setL3", "reply"}
BY DEF Lookup, Recheck, Store, LevelOf, Following, Level

\* A verdict read back from the index is the one stored.
LEMMA ReadBack ==
    ASSUME NEW v \in Verdict
    PROVE  [v EXCEPT !.decision = DecisionFromString(@)] = v
BY DEF Verdict, DecisionFromString

\* Whatever a lookup finds is a cached verdict.
LEMMA FoundType ==
    ASSUME TypeOK, NEW level \in Level, NEW c \in Content, NEW v \in Found(level, c)
    PROVE  v \in Verdict
<1>1. CASE level = "L1"
  BY <1>1 DEF Found, TypeOK
<1>2. CASE level = "L2"
  BY <1>2 DEF Found, Scanned, Nearest, Near, TypeOK
<1>3. CASE level = "L3"
  <2>1. PICK o \in Indexed(PHashOf[c]) :
           v = [l3[o] EXCEPT !.decision = DecisionFromString(@)]
    BY <1>3 DEF Found
  <2>2. l3[o] \in Verdict
    BY <2>1 DEF Indexed, TypeOK
  <2>3. QED
    BY <2>1, <2>2, ReadBack
<1>4. QED
  BY <1>1, <1>2, <1>3 DEF Level
-----------------------------------------------------------------------------
(* Type correctness.  A step changes the variables of one request through  *)
(* a few helpers; each helper preserves the request part of the invariant. *)

ReqTypes ==
    /\ pc \in [Request -> Running \cup Final \cup {"idle"}]
    /\ mode \in [Request -> {"single", "frames"}]
    /\ frames \in [Request -> Seq(Input)]
    /\ idx \in [Request -> Nat \ {0}]
    /\ acc \in [Request -> Accumulator]
    /\ hand \in [Request -> Verdict \cup {None}]
    /\ resp \in [Request -> Response \cup {None}]

StoreTypes ==
    /\ l1 \in [Content -> Verdict \cup {None}]
    /\ l2 \in [PHashes -> Verdict \cup {None}]
    /\ l3 \in [Content -> Verdict \cup {None}]

HookTypes == fired \subseteq Hook /\ ran \subseteq fired /\ dropped \subseteq fired

OtherTypes ==
    /\ gone \subseteq Request
    /\ verdicts \subseteq Content \X Verdict
    /\ analyzer \in BOOLEAN /\ restarts \in 0 .. MaxRestarts

ReqInv == ReqTypes /\ ControlOK

LEMMA TypeParts == TypeOK <=> ReqTypes /\ StoreTypes /\ HookTypes /\ OtherTypes
BY DEF TypeOK, ReqTypes, StoreTypes, HookTypes, OtherTypes

\* Where a request can stand, one label at a time.
LEMMA Labels ==
    /\ Running = {"url", "extract", "norm", "analyze", "reply", "error",
                  "L1", "L2", "L3", "reL1", "reL2", "reL3",
                  "setL1", "setL2", "setL3"}
    /\ Analyzing = {"norm", "analyze", "reply", "error", "L1", "L2", "L3",
                    "reL1", "reL2", "reL3", "setL1", "setL2", "setL3"}
    /\ Decoded = {"analyze", "reply", "error", "L1", "L2", "L3",
                  "reL1", "reL2", "reL3", "setL1", "setL2", "setL3"}
    /\ Verdictful = {"setL1", "setL2", "setL3", "reply"}
BY DEF Running, Analyzing, Decoded, Verdictful, Lookup, Recheck, Store

LEMMA MoveInv ==
    ASSUME ReqInv, NEW r \in Request, NEW label, Move(r, label),
           pc[r] \in Running \cup {"idle"},
           label \in Running \cup {"failed"},
           label \in {"url", "extract"} => pc[r] \in {"idle", "url"},
           label \in Analyzing => pc[r] \in Analyzing,
           label \in Decoded => Cur(r) \in Content,
           label \in Verdictful => pc[r] \in Verdictful
    PROVE  ReqInv'
<1>1. ReqTypes'
  BY DEF ReqInv, ReqTypes, Move, Goto, Final
<1>2. ASSUME NEW q \in Request, q # r
      PROVE  pc'[q] = pc[q]
  BY <1>2 DEF ReqInv, ReqTypes, Move, Goto
<1>3. pc'[r] = label
  BY DEF ReqInv, ReqTypes, Move, Goto
<1>4. UNCHANGED <<mode, frames, idx, acc, hand, resp>>
  BY DEF Move
<1>5. ControlOK'
  BY <1>2, <1>3, <1>4, Labels DEF ReqInv, ControlOK, Cur
<1>6. QED
  BY <1>1, <1>5 DEF ReqInv

LEMMA NextFrameInv ==
    ASSUME ReqInv, NEW r \in Request, NEW a \in Accumulator, NextFrame(r, a),
           UNCHANGED <<mode, frames, hand>>, pc[r] \in Analyzing
    PROVE  ReqInv'
<1>1. Aggregate(a) \in Response
  BY AggregateType
<1>2. ReqTypes'
  <2>1. acc' \in [Request -> Accumulator]
    BY DEF ReqInv, ReqTypes, NextFrame
  <2>2. CASE idx' = [idx EXCEPT ![r] = @ + 1] /\ Goto(r, "norm") /\ UNCHANGED resp
    <3>1. pc' \in [Request -> Running \cup Final \cup {"idle"}]
      BY <2>2, Labels DEF ReqInv, ReqTypes, Goto
    <3>2. idx' \in [Request -> Nat \ {0}]
      BY <2>2 DEF ReqInv, ReqTypes
    <3>3. QED
      BY <2>1, <2>2, <3>1, <3>2 DEF ReqInv, ReqTypes
  <2>3. CASE /\ resp' = [resp EXCEPT ![r] = Aggregate(a)]
             /\ Goto(r, "done") /\ UNCHANGED idx
    <3>1. pc' \in [Request -> Running \cup Final \cup {"idle"}]
      BY <2>3 DEF ReqInv, ReqTypes, Goto, Final
    <3>2. resp' \in [Request -> Response \cup {None}]
      BY <1>1, <2>3 DEF ReqInv, ReqTypes
    <3>3. QED
      BY <2>1, <2>3, <3>1, <3>2 DEF ReqInv, ReqTypes
  <2>4. QED
    BY <2>2, <2>3 DEF NextFrame
<1>3. idx[r] \in 1 .. Len(frames[r])
  BY DEF ReqInv, ControlOK
<1>4. /\ \/ pc'[r] = "norm" /\ idx'[r] \in 1 .. Len(frames[r]) /\ resp'[r] = resp[r]
         \/ pc'[r] = "done"
      /\ \A q \in Request \ {r} : /\ pc'[q] = pc[q] /\ idx'[q] = idx[q]
                                  /\ resp'[q] = resp[q] /\ acc'[q] = acc[q]
  BY <1>3 DEF ReqInv, ReqTypes, NextFrame, Goto
<1>5. ControlOK'
  BY <1>4, Labels DEF ReqInv, ControlOK, Cur
<1>6. QED
  BY <1>2, <1>5 DEF ReqInv

LEMMA ReturnInv ==
    ASSUME ReqInv, NEW r \in Request, NEW answer \in Response,
           Return(r, answer), pc[r] \in Running
    PROVE  ReqInv'
<1>1. CASE mode[r] = "single"
  <2>1. ReqTypes'
    <3>1. pc' \in [Request -> Running \cup Final \cup {"idle"}]
      BY <1>1 DEF ReqInv, ReqTypes, Return, Goto, Final
    <3>2. resp' \in [Request -> Response \cup {None}]
      BY <1>1 DEF ReqInv, ReqTypes, Return
    <3>3. UNCHANGED <<mode, frames, idx, acc, hand>>
      BY <1>1 DEF Return
    <3>4. QED
      BY <3>1, <3>2, <3>3 DEF ReqInv, ReqTypes
  <2>2. /\ pc'[r] = "done"
        /\ \A q \in Request \ {r} : pc'[q] = pc[q] /\ resp'[q] = resp[q]
        /\ UNCHANGED <<mode, frames, idx, acc, hand>>
    BY <1>1 DEF ReqInv, ReqTypes, Return, Goto
  <2>3. ControlOK'
    BY <2>2, Labels DEF ReqInv, ControlOK, Cur
  <2>4. QED
    BY <2>1, <2>3 DEF ReqInv
<1>2. CASE mode[r] = "frames"
  <2>1. NextFrame(r, Merge(acc[r], answer)) /\ UNCHANGED <<mode, frames, hand>>
    BY <1>2 DEF Return
  <2>2. Merge(acc[r], answer) \in Accumulator
    BY MergeType DEF ReqInv, ReqTypes
  <2>3. pc[r] \in Analyzing
    BY <1>2 DEF ReqInv, ControlOK, Analyzing
  <2>4. QED
    BY <2>1, <2>2, <2>3, NextFrameInv
<1>3. QED
  BY <1>1, <1>2 DEF ReqInv, ReqTypes

LEMMA ReturnErrorInv ==
    ASSUME ReqInv, NEW r \in Request, ReturnError(r), pc[r] \in Analyzing
    PROVE  ReqInv'
<1>1. CASE mode[r] = "single"
  <2>1. Move(r, "failed")
    BY <1>1 DEF ReturnError, Move
  <2>2. /\ pc[r] \in Running
        /\ "failed" \notin Analyzing \cup Decoded \cup Verdictful
    BY Labels
  <2>3. QED
    BY <2>1, <2>2, MoveInv
<1>2. CASE mode[r] = "frames"
  <2>1. NextFrame(r, acc[r]) /\ UNCHANGED <<mode, frames, hand>>
    BY <1>2 DEF ReturnError
  <2>2. QED
    BY <2>1, NextFrameInv DEF ReqInv, ReqTypes
<1>3. QED
  BY <1>1, <1>2 DEF ReqInv, ReqTypes

LEMMA FireHooksTypes ==
    ASSUME HookTypes, NEW r \in Request, NEW v \in Verdict, FireHooks(r, v),
           idx[r] \in Nat, Cur(r) \in Content
    PROVE  HookTypes'
BY DEF HookTypes, FireHooks, Hook

\* A step that touches no request.
LEMMA IdleInv ==
    ASSUME ReqInv, UNCHANGED reqVars
    PROVE  ReqInv'
BY DEF ReqInv, ReqTypes, ControlOK, Cur, reqVars

LEMMA InitTypeInv ==
    ASSUME Init
    PROVE  TypeInv
<1>1. /\ NewAccumulator \in Accumulator
      /\ <<>> \in Seq(Input)
  BY DEF NewAccumulator, Accumulator, Decision, Category
<1>2. /\ analyzer \in BOOLEAN
      /\ 0 \in 0 .. MaxRestarts
  BY PipelineAssumption DEF Init, PipelineAssumption
<1>3. TypeOK
  BY <1>1, <1>2 DEF Init, TypeOK
<1>4. ControlOK
  BY Labels DEF Init, ControlOK
<1>5. QED
  BY <1>3, <1>4 DEF TypeInv

LEMMA InvParts == TypeInv <=> ReqInv /\ StoreTypes /\ HookTypes /\ OtherTypes
BY TypeParts DEF TypeInv, ReqInv

LEMMA InvPartsPrimed ==
    TypeInv' <=> ReqInv' /\ StoreTypes' /\ HookTypes' /\ OtherTypes'
BY DEF TypeInv, TypeOK, ReqInv, ReqTypes, StoreTypes, HookTypes, OtherTypes

\* A step that changes the variables of requests only.
LEMMA ReqStep ==
    ASSUME TypeInv, ReqInv',
           UNCHANGED <<gone, cacheVars, verdicts, hookVars, procVars>>
    PROVE  TypeInv'
<1>1. StoreTypes' /\ HookTypes' /\ OtherTypes'
  BY InvParts DEF StoreTypes, HookTypes, OtherTypes, cacheVars, hookVars, procVars
<1>2. QED
  BY <1>1, InvPartsPrimed

\* A step that changes those and the hooks.
LEMMA HookStep ==
    ASSUME TypeInv, ReqInv', HookTypes',
           UNCHANGED <<gone, cacheVars, verdicts, procVars>>
    PROVE  TypeInv'
<1>1. StoreTypes' /\ OtherTypes'
  BY InvParts DEF StoreTypes, OtherTypes, cacheVars, procVars
<1>2. QED
  BY <1>1, InvPartsPrimed

LEMMA SubmitInv ==
    ASSUME TypeInv, NEW r \in Request, Submit(r)
    PROVE  TypeInv'
<1>1. ReqInv
  BY InvParts
<1>2. ASSUME NEW input \in Input, SubmitContent(r, input)
      PROVE  TypeInv'
  <2>1. <<input>> \in Seq(Input) /\ Len(<<input>>) = 1
    OBVIOUS
  <2>2. ReqTypes'
    BY <1>1, <1>2, <2>1, Labels DEF SubmitContent, Goto, ReqInv, ReqTypes
  <2>3. /\ pc'[r] = "norm" /\ frames'[r] = <<input>> /\ idx[r] = 1 /\ resp[r] = None
        /\ \A q \in Request \ {r} : pc'[q] = pc[q] /\ frames'[q] = frames[q]
        /\ UNCHANGED <<mode, idx, acc, hand, resp>>
    BY <1>1, <1>2 DEF SubmitContent, Goto, ReqInv, ReqTypes, ControlOK
  <2>4. ControlOK'
    BY <1>1, <2>1, <2>3, Labels DEF ReqInv, ControlOK, Cur
  <2>5. QED
    BY <1>2, <2>2, <2>4, ReqStep DEF ReqInv, SubmitContent
<1>3. CASE SubmitUrl(r)
  <2>1. ReqInv'
    BY <1>1, <1>3, Labels, MoveInv DEF SubmitUrl
  <2>2. QED
    BY <1>3, <2>1, ReqStep DEF SubmitUrl
<1>4. QED
  BY <1>2, <1>3 DEF Submit

\* The steps before executeStandard.
LEMMA UrlStepInv ==
    ASSUME TypeInv, NEW r \in Request,
           \/ BlockUrl(r) \/ TakeFrames(r) \/ QueueUrl(r) \/ ExtractFails(r)
           \/ \E list \in Extractions : Extract(r, list)
    PROVE  TypeInv'
<1>1. ReqInv
  BY InvParts
<1>2. CASE BlockUrl(r)
  <2>1. Bare("BLOCK", "url_malicious", 1) \in Response
    BY BareType DEF Decision, Category
  <2>2. ReqInv'
    BY <1>1, <1>2, <2>1, Labels, ReturnInv DEF BlockUrl
  <2>3. QED
    BY <1>2, <2>2, ReqStep DEF BlockUrl
<1>3. CASE TakeFrames(r)
  <2>1. ReqInv'
    BY <1>1, <1>3, Labels, MoveInv DEF TakeFrames, UrlPassed
  <2>2. QED
    BY <1>3, <2>1, ReqStep DEF TakeFrames
<1>4. CASE QueueUrl(r)
  <2>1. Bare("QUEUED", "", 0) \in Response
    BY BareType DEF Decision, Category
  <2>2. ReqInv'
    BY <1>1, <1>4, <2>1, Labels, ReturnInv DEF QueueUrl, UrlPassed
  <2>3. QED
    BY <1>4, <2>2, ReqStep DEF QueueUrl
<1>5. CASE ExtractFails(r)
  <2>1. ReqInv'
    BY <1>1, <1>5, Labels, MoveInv DEF ExtractFails
  <2>2. QED
    BY <1>5, <2>1, ReqStep DEF ExtractFails
<1>6. ASSUME NEW list \in Extractions, Extract(r, list)
      PROVE  TypeInv'
  <2>1. /\ list \in Seq(Input)
        /\ <<Undecodable>> \in Seq(Input) /\ Len(<<Undecodable>>) = 1
    BY PipelineAssumption DEF PipelineAssumption, Input
  <2>2. PICK new \in Seq(Input), m \in {"single", "frames"} :
           /\ frames' = [frames EXCEPT ![r] = new] /\ mode' = [mode EXCEPT ![r] = m]
           /\ new # <<>>
    <3>1. CASE list = <<>>
      <4>1. mode' = [mode EXCEPT ![r] = mode[r]]
        BY <1>1, <1>6, <3>1 DEF Extract, ReqInv, ReqTypes
      <4>2. mode[r] \in {"single", "frames"}
        BY <1>1 DEF ReqInv, ReqTypes
      <4>3. QED
        BY <1>6, <2>1, <3>1, <4>1, <4>2 DEF Extract
    <3>2. CASE list # <<>>
      BY <1>6, <2>1, <3>2 DEF Extract
    <3>3. QED
      BY <3>1, <3>2
  <2>3. Len(new) >= 1
    BY <2>2
  <2>4. ReqTypes'
    BY <1>1, <1>6, <2>2, Labels DEF Extract, Goto, ReqInv, ReqTypes
  <2>5. /\ pc'[r] = "norm" /\ frames'[r] = new /\ idx[r] = 1 /\ resp[r] = None
        /\ \A q \in Request \ {r} : /\ pc'[q] = pc[q] /\ frames'[q] = frames[q]
                                    /\ mode'[q] = mode[q]
        /\ UNCHANGED <<idx, acc, hand, resp>>
    BY <1>1, <1>6, <2>2 DEF Extract, Goto, ReqInv, ReqTypes, ControlOK
  <2>6. ControlOK'
    BY <1>1, <2>3, <2>5, Labels DEF ReqInv, ControlOK, Cur
  <2>7. QED
    BY <1>6, <2>4, <2>6, ReqStep DEF ReqInv, Extract
<1>7. QED
  BY <1>2, <1>3, <1>4, <1>5, <1>6

LEMMA PutTypes ==
    ASSUME StoreTypes, NEW level, NEW c \in Content, NEW v \in Verdict,
           Put(level, c, v)
    PROVE  StoreTypes'
BY DEF StoreTypes, Put, PHashes

\* The steps of executeStandard that look something up or normalize.
LEMMA LookupStepInv ==
    ASSUME TypeInv, NEW r \in Request,
           \/ Normalize(r) \/ NormalizeFails(r) \/ Hit(r) \/ Miss(r)
           \/ RecheckHit(r) \/ RecheckMiss(r)
    PROVE  TypeInv'
<1>1. ReqInv /\ HookTypes /\ TypeOK
  BY InvParts DEF TypeInv
<1>2. CASE Normalize(r)
  <2>1. Cur(r) \in Content
    BY <1>1, <1>2, Labels DEF Normalize, ReqInv, ReqTypes, ControlOK, Cur, Input
  <2>2. ReqInv'
    BY <1>1, <1>2, <2>1, Labels, MoveInv DEF Normalize
  <2>3. QED
    BY <1>2, <2>2, ReqStep DEF Normalize
<1>3. CASE NormalizeFails(r)
  <2>1. ReqInv'
    BY <1>1, <1>3, Labels, ReturnErrorInv DEF NormalizeFails
  <2>2. QED
    BY <1>3, <2>1, ReqStep DEF NormalizeFails
<1>4. CASE Hit(r)
  <2>1. /\ Cur(r) \in Content /\ pc[r] \in Running /\ idx[r] \in Nat
        /\ LevelOf[pc[r]] \in Level
    BY <1>1, <1>4, Stages, Labels DEF Hit, Lookup, ReqInv, ReqTypes, ControlOK
  <2>2. PICK v \in Found(LevelOf[pc[r]], Cur(r)) :
           /\ FireHooks(r, v)
           /\ Return(r, BuildResponse(v, LevelOf[pc[r]], FALSE))
    BY <1>4 DEF Hit
  <2>3. v \in Verdict
    BY <1>1, <2>1, FoundType
  <2>4. BuildResponse(v, LevelOf[pc[r]], FALSE) \in Response
    BY <2>1, <2>3, BuildResponseType
  <2>5. ReqInv'
    BY <1>1, <2>1, <2>2, <2>4, ReturnInv
  <2>6. HookTypes'
    BY <1>1, <2>1, <2>2, <2>3, FireHooksTypes
  <2>7. QED
    BY <1>4, <2>5, <2>6, HookStep DEF Hit
<1>5. CASE Miss(r)
  <2>1. /\ Cur(r) \in Content /\ pc[r] \in Analyzing
        /\ Following[pc[r]] \in {"L2", "L3", "analyze"}
    BY <1>1, <1>5, Stages, Labels DEF Miss, Lookup, ReqInv, ControlOK
  <2>2. ReqInv'
    BY <1>1, <1>5, <2>1, Labels, MoveInv DEF Miss
  <2>3. QED
    BY <1>5, <2>2, ReqStep DEF Miss
<1>6. CASE RecheckHit(r)
  <2>1. /\ Cur(r) \in Content /\ pc[r] \in Running /\ LevelOf[pc[r]] \in Level
    BY <1>1, <1>6, Stages, Labels DEF RecheckHit, Recheck, ReqInv, ControlOK
  <2>2. PICK v \in Found(LevelOf[pc[r]], Cur(r)) :
           Return(r, BuildResponse(v, LevelOf[pc[r]], TRUE))
    BY <1>6 DEF RecheckHit
  <2>3. BuildResponse(v, LevelOf[pc[r]], TRUE) \in Response
    BY <1>1, <2>1, FoundType, BuildResponseType
  <2>4. ReqInv'
    BY <1>1, <2>1, <2>2, <2>3, ReturnInv
  <2>5. QED
    BY <1>6, <2>4, ReqStep DEF RecheckHit
<1>7. CASE RecheckMiss(r)
  <2>1. /\ Cur(r) \in Content /\ pc[r] \in Analyzing
        /\ Following[pc[r]] \in {"reL2", "reL3", "error"}
    BY <1>1, <1>7, Stages, Labels DEF RecheckMiss, Recheck, ReqInv, ControlOK
  <2>2. ReqInv'
    BY <1>1, <1>7, <2>1, Labels, MoveInv DEF RecheckMiss
  <2>3. QED
    BY <1>7, <2>2, ReqStep DEF RecheckMiss
<1>8. QED
  BY <1>2, <1>3, <1>4, <1>5, <1>6, <1>7

\* Those that call the analyzer, store what it said and answer.
LEMMA AnalyzeStepInv ==
    ASSUME TypeInv, NEW r \in Request,
           \/ QueueForAnalyzer(r) \/ Analyze(r) \/ AnalyzeFails(r)
           \/ BackPopulate(r) \/ BackPopulateFails(r) \/ Reply(r) \/ ReplyError(r)
    PROVE  TypeInv'
<1>1. ReqInv /\ StoreTypes /\ HookTypes /\ OtherTypes
  BY InvParts
<1>2. CASE QueueForAnalyzer(r)
  <2>1. Bare("QUEUED", "", 0) \in Response
    BY BareType DEF Decision, Category
  <2>2. ReqInv'
    BY <1>1, <1>2, <2>1, Labels, ReturnInv DEF QueueForAnalyzer
  <2>3. QED
    BY <1>2, <2>2, ReqStep DEF QueueForAnalyzer
<1>3. CASE Analyze(r)
  <2>1. PICK result \in Oracle[Cur(r)] :
           /\ hand' = [hand EXCEPT ![r] = Judge(result)]
           /\ verdicts' = verdicts \cup {<<Cur(r), Judge(result)>>}
    BY <1>3 DEF Analyze
  <2>2. Cur(r) \in Content
    BY <1>1, <1>3, Labels DEF Analyze, ReqInv, ControlOK
  <2>3. Judge(result) \in Verdict
    BY <2>1, <2>2, PipelineAssumption, JudgeType DEF PipelineAssumption
  <2>4. ReqTypes'
    BY <1>1, <1>3, <2>1, <2>3, Labels DEF Analyze, Goto, ReqInv, ReqTypes
  <2>5. /\ pc'[r] = "setL1" /\ hand'[r] \in Verdict
        /\ \A q \in Request \ {r} : pc'[q] = pc[q] /\ hand'[q] = hand[q]
        /\ UNCHANGED <<mode, frames, idx, acc, resp>>
    BY <1>1, <1>3, <2>1, <2>3 DEF Analyze, Goto, ReqInv, ReqTypes
  <2>6. ControlOK'
    BY <1>1, <1>3, <2>5, Labels DEF Analyze, ReqInv, ControlOK, Cur
  <2>7. StoreTypes' /\ HookTypes'
    BY <1>1, <1>3 DEF Analyze, StoreTypes, HookTypes, cacheVars, hookVars
  <2>8. OtherTypes'
    BY <1>1, <1>3, <2>1, <2>2, <2>3 DEF Analyze, OtherTypes, procVars
  <2>9. QED
    BY <2>4, <2>6, <2>7, <2>8, InvPartsPrimed DEF ReqInv
<1>4. CASE AnalyzeFails(r)
  <2>1. Cur(r) \in Content
    BY <1>1, <1>4, Labels DEF AnalyzeFails, ReqInv, ControlOK
  <2>2. ReqInv'
    BY <1>1, <1>4, <2>1, Labels, MoveInv DEF AnalyzeFails
  <2>3. QED
    BY <1>4, <2>2, ReqStep DEF AnalyzeFails
<1>5. ASSUME pc[r] \in Store, Move(r, Following[pc[r]])
      PROVE  ReqInv' /\ Cur(r) \in Content /\ hand[r] \in Verdict
  <2>1. /\ Cur(r) \in Content /\ pc[r] \in Verdictful /\ pc[r] \in Analyzing
        /\ hand[r] \in Verdict /\ Following[pc[r]] \in {"setL2", "setL3", "reply"}
    BY <1>1, <1>5, Stages, Labels DEF Store, ReqInv, ControlOK
  <2>2. QED
    BY <1>1, <1>5, <2>1, Labels, MoveInv
<1>6. CASE BackPopulate(r)
  <2>1. ReqInv' /\ Cur(r) \in Content /\ hand[r] \in Verdict
    BY <1>5, <1>6 DEF BackPopulate
  <2>2. StoreTypes'
    BY <1>1, <1>6, <2>1, PutTypes DEF BackPopulate
  <2>3. HookTypes' /\ OtherTypes'
    BY <1>1, <1>6 DEF BackPopulate, HookTypes, OtherTypes, hookVars, procVars
  <2>4. QED
    BY <2>1, <2>2, <2>3, InvPartsPrimed
<1>7. CASE BackPopulateFails(r)
  BY <1>5, <1>7, ReqStep DEF BackPopulateFails
<1>8. CASE Reply(r)
  <2>1. /\ Cur(r) \in Content /\ hand[r] \in Verdict /\ idx[r] \in Nat
    BY <1>1, <1>8, Labels DEF Reply, ReqInv, ReqTypes, ControlOK
  <2>2. BuildResponse(hand[r], "NONE", FALSE) \in Response
    BY <2>1, BuildResponseType
  <2>3. ReqInv'
    BY <1>1, <1>8, <2>2, Labels, ReturnInv DEF Reply
  <2>4. HookTypes'
    BY <1>1, <1>8, <2>1, FireHooksTypes DEF Reply
  <2>5. QED
    BY <1>8, <2>3, <2>4, HookStep DEF Reply
<1>9. CASE ReplyError(r)
  <2>1. Bare("ERROR", "", 0) \in Response
    BY BareType DEF Decision, Category
  <2>2. ReqInv'
    BY <1>1, <1>9, <2>1, Labels, ReturnInv DEF ReplyError
  <2>3. QED
    BY <1>9, <2>2, ReqStep DEF ReplyError
<1>10. QED
  BY <1>2, <1>3, <1>4, <1>6, <1>7, <1>8, <1>9

\* The steps around the requests, and stuttering.
LEMMA EnvStepInv ==
    ASSUME TypeInv,
           \/ \E r \in Request : Cancel(r)
           \/ \E r \in Request, k \in Hooks : RunHook(r, k)
           \/ \E c \in Content : Evict(c)
           \/ Restart
           \/ UNCHANGED vars
    PROVE  TypeInv'
<1>1. ReqInv /\ StoreTypes /\ HookTypes /\ OtherTypes
  BY InvParts
<1>2. ASSUME NEW r \in Request, Cancel(r)
      PROVE  TypeInv'
  <2>1. ReqInv'
    BY <1>1, <1>2, IdleInv DEF Cancel
  <2>2. StoreTypes' /\ HookTypes' /\ OtherTypes'
    BY <1>1, <1>2
       DEF Cancel, StoreTypes, HookTypes, OtherTypes, cacheVars, hookVars, procVars
  <2>3. QED
    BY <2>1, <2>2, InvPartsPrimed
<1>3. ASSUME NEW r \in Request, NEW k \in Hooks, RunHook(r, k)
      PROVE  TypeInv'
  <2>1. ReqInv'
    BY <1>1, <1>3, IdleInv DEF RunHook
  <2>2. HookTypes'
    BY <1>1, <1>3 DEF RunHook, HookTypes
  <2>3. QED
    BY <1>3, <2>1, <2>2, HookStep DEF RunHook
<1>4. ASSUME NEW c \in Content, Evict(c)
      PROVE  TypeInv'
  <2>1. ReqInv'
    BY <1>1, <1>4, IdleInv DEF Evict
  <2>2. StoreTypes'
    BY <1>1, <1>4 DEF Evict, StoreTypes
  <2>3. HookTypes' /\ OtherTypes'
    BY <1>1, <1>4 DEF Evict, HookTypes, OtherTypes, hookVars, procVars
  <2>4. QED
    BY <2>1, <2>2, <2>3, InvPartsPrimed
<1>5. CASE Restart
  <2>1. ReqTypes'
    BY <1>1, <1>5, Labels DEF Restart, ReqInv, ReqTypes, Final
  <2>2. \A r \in Request : pc'[r] = pc[r] \/ pc'[r] = "lost"
    BY <1>5 DEF Restart
  <2>3. UNCHANGED <<mode, frames, idx, acc, hand, resp>>
    BY <1>5 DEF Restart
  <2>4. ControlOK'
    BY <1>1, <2>2, <2>3, Labels DEF ReqInv, ControlOK, Cur
  <2>5. StoreTypes' /\ HookTypes'
    BY <1>1, <1>5 DEF Restart, StoreTypes, HookTypes, cacheVars
  <2>6. OtherTypes'
    BY <1>1, <1>5, PipelineAssumption DEF Restart, OtherTypes, PipelineAssumption
  <2>7. QED
    BY <2>1, <2>4, <2>5, <2>6, InvPartsPrimed DEF ReqInv
<1>6. CASE UNCHANGED vars
  BY <1>1, <1>6, IdleInv, ReqStep DEF vars
<1>7. QED
  BY <1>2, <1>3, <1>4, <1>5, <1>6

LEMMA NextTypeInv ==
    ASSUME TypeInv, [Next]_vars
    PROVE  TypeInv'
<1>1. ASSUME NEW r \in Request, Submit(r) \/ Step(r)
      PROVE  TypeInv'
  BY <1>1, SubmitInv, UrlStepInv, LookupStepInv, AnalyzeStepInv DEF Step
<1>2. CASE \/ \E r \in Request : Cancel(r)
           \/ \E r \in Request, k \in Hooks : RunHook(r, k)
           \/ \E c \in Content : Evict(c)
           \/ Restart \/ Quiet \/ UNCHANGED vars
  BY <1>2, EnvStepInv DEF Quiet
<1>3. QED
  BY <1>1, <1>2 DEF Next

LEMMA TypeInvariant == Spec => []TypeInv
<1>1. Init => TypeInv
  BY InitTypeInv
<1>2. TypeInv /\ [Next]_vars => TypeInv'
  BY NextTypeInv
<1>3. QED
  BY <1>1, <1>2, PTL DEF Spec

\* Every variable keeps its type in every behaviour of the pipeline, whose
\* frame loop never indexes past its list (executeFrameExtraction,
\* lines 455-544).
THEOREM TypeCorrect == Spec => []TypeOK
BY TypeInvariant, PTL DEF TypeInv
-----------------------------------------------------------------------------
(* Provenance.  AnswerProvenance is not inductive: it needs to know where  *)
(* the verdict in a request's hands and the frame loop's worst came from.  *)

HandOK ==
    \A r \in Request : pc[r] \in Verdictful => <<Cur(r), hand[r]>> \in verdicts

AccOK ==
    \A r \in Request :
       (mode[r] = "frames" /\ acc[r].worst \in {"ALLOW", "BLOCK"}) =>
          FrameSupports(r, acc[r].worst, acc[r].category)

Provenance == CacheProvenance /\ HandOK /\ AccOK /\ AnswerProvenance

\* A judgement is never forgotten.
LEMMA SupportedStays ==
    ASSUME verdicts \subseteq verdicts', NEW v, NEW level, NEW c,
           Supported(v, level, c)
    PROVE  Supported(v, level, c)'
BY DEF Supported

LEMMA FrameSupportStays ==
    ASSUME verdicts \subseteq verdicts', NEW r \in Request,
           frames'[r] = frames[r], NEW d, NEW g, FrameSupports(r, d, g)
    PROVE  FrameSupports(r, d, g)'
BY DEF FrameSupports, Supported

\* A hit at any level is a judgement of content similar enough for the level.
LEMMA FoundSupported ==
    ASSUME TypeOK, CacheProvenance, NEW level \in Level, NEW c \in Content,
           NEW v \in Found(level, c)
    PROVE  Supported(v, level, c)
<1>1. CASE level = "L1"
  <2>1. v = l1[c] /\ <<c, v>> \in verdicts
    BY <1>1 DEF Found, CacheProvenance
  <2>2. QED
    BY <1>1, <2>1 DEF Supported, Reaches
<1>2. CASE level = "L2"
  <2>1. PICK q \in PHashes : /\ v = l2[q] /\ l2[q] # None
                             /\ L2Match(PHashOf[c], q)
    BY <1>2 DEF Found, Scanned, Nearest, Near
  <2>2. PICK o \in Content : PHashOf[o] = q /\ <<o, v>> \in verdicts
    BY <2>1 DEF CacheProvenance
  <2>3. QED
    BY <1>2, <2>1, <2>2 DEF Supported, Reaches
<1>3. CASE level = "L3"
  <2>1. PICK o \in Indexed(PHashOf[c]) :
           v = [l3[o] EXCEPT !.decision = DecisionFromString(@)]
    BY <1>3 DEF Found
  <2>2. o \in Content /\ l3[o] # None /\ L3Match(PHashOf[o], PHashOf[c])
    BY <2>1 DEF Indexed
  <2>3. v = l3[o] /\ <<o, v>> \in verdicts
    BY <2>1, <2>2, ReadBack DEF TypeOK, CacheProvenance
  <2>4. QED
    BY <1>3, <2>2, <2>3 DEF Supported, Reaches
<1>4. QED
  BY <1>1, <1>2, <1>3 DEF Level

\* An answer built from a verdict carries that verdict.
LEMMA VerdictOfBuilt ==
    ASSUME NEW v \in Verdict, NEW level, NEW degraded
    PROVE  /\ VerdictOf(BuildResponse(v, level, degraded)) = v
           /\ BuildResponse(v, level, degraded).level = level
BY DEF VerdictOf, BuildResponse, Verdict

\* A step that gives no answer and merges no frame.
LEMMA ProvenanceStays ==
    ASSUME AccOK, AnswerProvenance, verdicts \subseteq verdicts',
           UNCHANGED <<mode, frames, idx, acc, resp>>
    PROVE  AccOK' /\ AnswerProvenance'
<1>1. AccOK'
  BY FrameSupportStays DEF AccOK
<1>2. AnswerProvenance'
  BY FrameSupportStays, SupportedStays DEF AnswerProvenance, Cur, VerdictOf
<1>3. QED
  BY <1>1, <1>2

LEMMA NextFrameProvenance ==
    ASSUME TypeInv, AccOK, AnswerProvenance, NEW r \in Request, mode[r] = "frames",
           NEW a \in Accumulator, NextFrame(r, a),
           a.worst \in {"ALLOW", "BLOCK"} => FrameSupports(r, a.worst, a.category),
           UNCHANGED <<mode, frames, verdicts>>
    PROVE  AccOK' /\ AnswerProvenance'
<1>1. /\ acc'[r] = a
      /\ \/ resp'[r] = resp[r] /\ idx'[r] = idx[r] + 1
         \/ resp'[r] = Aggregate(a) /\ idx'[r] = idx[r]
      /\ \A q \in Request \ {r} : /\ idx'[q] = idx[q] /\ resp'[q] = resp[q]
                                  /\ acc'[q] = acc[q]
  BY DEF NextFrame, TypeInv, TypeOK
<1>2. AccOK'
  BY <1>1, FrameSupportStays DEF AccOK
<1>3. ASSUME NEW q \in Request, resp'[q] # None, frames'[q] # <<>>,
             resp'[q].decision \in {"ALLOW", "BLOCK"}
      PROVE  \/ /\ mode'[q] = "single" /\ Cur(q)' \in Content
                /\ Supported(VerdictOf(resp[q]), resp[q].level, Cur(q))'
             \/ mode'[q] = "frames"
                /\ FrameSupports(q, resp[q].decision, resp[q].category)'
  <2>1. CASE q # r
    BY <1>1, <1>3, <2>1, FrameSupportStays, SupportedStays
       DEF AnswerProvenance, Cur, VerdictOf
  <2>2. CASE q = r /\ resp'[r] = resp[r]
    BY <1>3, <2>2, FrameSupportStays DEF AnswerProvenance
  <2>3. CASE q = r /\ resp'[r] = Aggregate(a)
    <3>1. Aggregate(a).decision \in {"ALLOW", "BLOCK"} =>
             Aggregate(a).decision = a.worst /\ Aggregate(a).category = a.category
      BY DEF Aggregate, Bare
    <3>2. Aggregate(a).decision \in {"ALLOW", "BLOCK"}
      BY <1>3, <2>3
    <3>3. FrameSupports(r, a.worst, a.category)
      BY <3>2, <3>1
    <3>4. FrameSupports(r, a.worst, a.category)'
      BY <3>3, FrameSupportStays
    <3>5. QED
      BY <2>3, <3>2, <3>1, <3>4
  <2>4. QED
    BY <1>1, <2>1, <2>2, <2>3
<1>4. AnswerProvenance'
  BY <1>3 DEF AnswerProvenance
<1>5. QED
  BY <1>2, <1>4

\* An answer the analyzer stands behind, or one that judges nothing.
LEMMA ReturnProvenance ==
    ASSUME TypeInv, AccOK, AnswerProvenance, NEW r \in Request, pc[r] \in Running,
           NEW answer \in Response, Return(r, answer), UNCHANGED verdicts,
           (frames[r] # <<>> /\ answer.decision \in {"ALLOW", "BLOCK"}) =>
              /\ Cur(r) \in Content
              /\ Supported(VerdictOf(answer), answer.level, Cur(r))
    PROVE  AccOK' /\ AnswerProvenance'
<1>1. CASE mode[r] = "single"
  <2>1. /\ resp'[r] = answer
        /\ \A q \in Request \ {r} : resp'[q] = resp[q]
        /\ UNCHANGED <<mode, frames, idx, acc>>
    BY <1>1 DEF Return, TypeInv, TypeOK
  <2>2. AccOK'
    BY <2>1, FrameSupportStays DEF AccOK
  <2>3. AnswerProvenance'
    BY <1>1, <2>1, FrameSupportStays, SupportedStays
       DEF AnswerProvenance, Cur, VerdictOf
  <2>4. QED
    BY <2>2, <2>3
<1>2. CASE mode[r] = "frames"
  <2> DEFINE a == Merge(acc[r], answer)
  <2>1. NextFrame(r, a) /\ UNCHANGED <<mode, frames>>
    BY <1>2 DEF Return
  <2>2. acc[r] \in Accumulator /\ a \in Accumulator
    BY MergeType DEF TypeInv, TypeOK
  <2>3. idx[r] \in 1 .. Len(frames[r]) /\ frames[r] \in Seq(Input)
    BY <1>2, Labels DEF TypeInv, TypeOK, ControlOK
  <2>4. ASSUME a.worst \in {"ALLOW", "BLOCK"}
        PROVE  FrameSupports(r, a.worst, a.category)
    <3>1. CASE a.worst = acc[r].worst /\ a.category = acc[r].category
      BY <1>2, <2>4, <3>1 DEF AccOK
    <3>2. CASE a.worst = answer.decision /\ a.category = answer.category
      <4>1. frames[r] # <<>>
        BY <2>3
      <4>2. Cur(r) \in Content /\ Supported(VerdictOf(answer), answer.level, Cur(r))
        BY <2>4, <3>2, <4>1
      <4>3. PICK p \in verdicts : /\ p[2] = VerdictOf(answer)
                                  /\ Reaches(answer.level, p[1], Cur(r))
        BY <4>2 DEF Supported
      <4>4. p[2].decision = a.worst /\ p[2].category = a.category
        BY <3>2, <4>3 DEF VerdictOf
      <4>5. Supported(p[2], answer.level, frames[r][idx[r]])
        BY <4>3 DEF Supported, Cur
      <4>6. idx[r] \in DOMAIN frames[r] /\ answer.level \in Level \cup {"NONE"}
        BY <2>3 DEF Response
      <4>7. QED
        BY <4>2, <4>4, <4>5, <4>6 DEF FrameSupports, Cur
    <3>3. QED
      BY <3>1, <3>2 DEF Merge
  <2>5. QED
    BY <1>2, <2>1, <2>2, <2>4, NextFrameProvenance
<1>3. QED
  BY <1>1, <1>2 DEF TypeInv, TypeOK

LEMMA ReturnErrorProvenance ==
    ASSUME TypeInv, AccOK, AnswerProvenance, NEW r \in Request, ReturnError(r),
           UNCHANGED verdicts
    PROVE  AccOK' /\ AnswerProvenance'
<1>1. CASE mode[r] = "single"
  BY <1>1, ProvenanceStays DEF ReturnError
<1>2. CASE mode[r] = "frames"
  <2>1. acc[r] \in Accumulator /\ NextFrame(r, acc[r]) /\ UNCHANGED <<mode, frames>>
    BY <1>2 DEF ReturnError, TypeInv, TypeOK
  <2>2. QED
    BY <1>2, <2>1, NextFrameProvenance DEF AccOK
<1>3. QED
  BY <1>1, <1>2 DEF TypeInv, TypeOK

LEMMA CacheStays ==
    ASSUME CacheProvenance, verdicts \subseteq verdicts', UNCHANGED cacheVars
    PROVE  CacheProvenance'
BY DEF CacheProvenance, cacheVars

LEMMA PutProvenance ==
    ASSUME TypeOK, CacheProvenance, NEW level, NEW c \in Content, NEW v \in Verdict,
           <<c, v>> \in verdicts, Put(level, c, v), UNCHANGED verdicts
    PROVE  CacheProvenance'
<1>1. \A o \in Content : l1'[o] # None => <<o, l1'[o]>> \in verdicts
  BY DEF Put, CacheProvenance, TypeOK
<1>2. \A q \in PHashes : l2'[q] # None =>
         \E o \in Content : PHashOf[o] = q /\ <<o, l2'[q]>> \in verdicts
  BY DEF Put, CacheProvenance, TypeOK
<1>3. \A o \in Content : l3'[o] # None => <<o, l3'[o]>> \in verdicts
  BY DEF Put, CacheProvenance, TypeOK
<1>4. QED
  BY <1>1, <1>2, <1>3 DEF CacheProvenance

\* A request that moves on holds what it held; one that returns, nothing.
LEMMA MoveHand ==
    ASSUME TypeInv, HandOK, NEW r \in Request, NEW label, Move(r, label),
           verdicts \subseteq verdicts',
           label \in Verdictful => pc[r] \in Verdictful
    PROVE  HandOK'
<1>1. pc'[r] = label /\ \A q \in Request \ {r} : pc'[q] = pc[q]
  BY DEF Move, Goto, TypeInv, TypeOK
<1>2. QED
  BY <1>1 DEF Move, HandOK, Cur

LEMMA ReturnHand ==
    ASSUME TypeInv, HandOK, NEW r \in Request, verdicts \subseteq verdicts',
           (\E answer : Return(r, answer)) \/ ReturnError(r)
    PROVE  HandOK'
<1>1. /\ pc'[r] \in {"norm", "done", "failed"}
      /\ \A q \in Request \ {r} : pc'[q] = pc[q] /\ idx'[q] = idx[q]
      /\ UNCHANGED <<frames, hand>>
  BY DEF Return, ReturnError, NextFrame, Goto, TypeInv, TypeOK
<1>2. QED
  BY <1>1, Labels DEF HandOK, Cur

\* A step of a request that leaves caches and judgements alone.
LEMMA MoveProvenance ==
    ASSUME TypeInv, Provenance, NEW r \in Request, NEW label, Move(r, label),
           UNCHANGED <<cacheVars, verdicts>>,
           label \in Verdictful => pc[r] \in Verdictful
    PROVE  Provenance'
<1>1. CacheProvenance'
  BY CacheStays DEF Provenance
<1>2. HandOK'
  BY MoveHand DEF Provenance
<1>3. AccOK' /\ AnswerProvenance'
  BY ProvenanceStays DEF Provenance, Move
<1>4. QED
  BY <1>1, <1>2, <1>3 DEF Provenance

LEMMA AnswerStep ==
    ASSUME TypeInv, Provenance, NEW r \in Request, pc[r] \in Running,
           NEW answer \in Response, Return(r, answer),
           UNCHANGED <<cacheVars, verdicts>>,
           (frames[r] # <<>> /\ answer.decision \in {"ALLOW", "BLOCK"}) =>
              /\ Cur(r) \in Content
              /\ Supported(VerdictOf(answer), answer.level, Cur(r))
    PROVE  Provenance'
<1>1. CacheProvenance' /\ HandOK'
  BY CacheStays, ReturnHand DEF Provenance
<1>2. AccOK' /\ AnswerProvenance'
  BY ReturnProvenance DEF Provenance
<1>3. QED
  BY <1>1, <1>2 DEF Provenance

\* A hit, at its first look or at the last one.
LEMMA HitProvenance ==
    ASSUME TypeInv, Provenance, NEW r \in Request, pc[r] \in Lookup \cup Recheck,
           NEW v \in Found(LevelOf[pc[r]], Cur(r)), NEW degraded \in BOOLEAN,
           Return(r, BuildResponse(v, LevelOf[pc[r]], degraded)),
           UNCHANGED <<cacheVars, verdicts>>
    PROVE  Provenance'
<1> DEFINE level == LevelOf[pc[r]]
           answer == BuildResponse(v, level, degraded)
<1>1. /\ Cur(r) \in Content /\ pc[r] \in Running /\ level \in Level
  BY Labels, Stages DEF Lookup, Recheck, TypeInv, ControlOK
<1>2. v \in Verdict
  BY <1>1, FoundType DEF TypeInv
<1>3. Supported(v, level, Cur(r))
  BY <1>1, FoundSupported DEF TypeInv, Provenance
<1>4. answer \in Response /\ VerdictOf(answer) = v /\ answer.level = level
  BY <1>1, <1>2, BuildResponseType, VerdictOfBuilt
<1>5. QED
  BY <1>1, <1>3, <1>4, AnswerStep

LEMMA InitProvenance ==
    ASSUME Init
    PROVE  Provenance
<1>1. CacheProvenance
  BY DEF Init, CacheProvenance
<1>2. HandOK
  BY Labels DEF Init, HandOK
<1>3. AccOK /\ AnswerProvenance
  BY DEF Init, AccOK, AnswerProvenance
<1>4. QED
  BY <1>1, <1>2, <1>3 DEF Provenance

\* A request gets its inputs: nothing was merged or answered yet.
LEMMA TakeInputProvenance ==
    ASSUME TypeInv, Provenance, NEW r \in Request, pc[r] \in {"idle", "extract"},
           \/ \E input \in Input : SubmitContent(r, input)
           \/ \E list \in Extractions : Extract(r, list)
    PROVE  Provenance'
<1>1. /\ pc'[r] = "norm" /\ \A q \in Request \ {r} : pc'[q] = pc[q]
      /\ \A q \in Request \ {r} : frames'[q] = frames[q] /\ mode'[q] = mode[q]
      /\ UNCHANGED <<idx, acc, hand, resp, cacheVars, verdicts>>
  BY DEF SubmitContent, Extract, Goto, TypeInv, TypeOK
<1>2. resp[r] = None /\ acc[r] = NewAccumulator
  BY DEF TypeInv, ControlOK
<1>3. CacheProvenance'
  BY <1>1, CacheStays DEF Provenance
<1>4. HandOK'
  BY <1>1, Labels DEF Provenance, HandOK, Cur
<1>5. AccOK'
  <2>1. acc'[r].worst \notin {"ALLOW", "BLOCK"}
    <3>1. acc' = acc /\ NewAccumulator.worst = "UNSPECIFIED"
      BY <1>1 DEF NewAccumulator
    <3>2. QED
      BY <1>2, <3>1
  <2>2. ASSUME NEW q \in Request \ {r}, mode'[q] = "frames",
               acc'[q].worst \in {"ALLOW", "BLOCK"}
        PROVE  FrameSupports(q, acc[q].worst, acc[q].category)'
    <3>1. FrameSupports(q, acc[q].worst, acc[q].category)
      BY <1>1, <2>2 DEF Provenance, AccOK
    <3>2. QED
      BY <1>1, <3>1 DEF FrameSupports, Supported
  <2>3. QED
    BY <2>1, <2>2 DEF AccOK
<1>6. AnswerProvenance'
  BY <1>1, <1>2, FrameSupportStays, SupportedStays
     DEF Provenance, AnswerProvenance, Cur, VerdictOf
<1>7. QED
  BY <1>3, <1>4, <1>5, <1>6 DEF Provenance

\* The analyzer's verdict reaches the request's hands.
LEMMA AnalyzeProvenance ==
    ASSUME TypeInv, Provenance, NEW r \in Request, Analyze(r)
    PROVE  Provenance'
<1>1. /\ <<Cur(r), hand'[r]>> \in verdicts' /\ verdicts \subseteq verdicts'
      /\ pc'[r] = "setL1"
      /\ \A q \in Request \ {r} : pc'[q] = pc[q] /\ hand'[q] = hand[q]
      /\ UNCHANGED <<mode, frames, idx, acc, resp, cacheVars>>
  BY DEF Analyze, Goto, TypeInv, TypeOK
<1>2. CacheProvenance'
  BY <1>1, CacheStays DEF Provenance
<1>3. HandOK'
  BY <1>1 DEF Provenance, HandOK, Cur
<1>4. AccOK' /\ AnswerProvenance'
  BY <1>1, ProvenanceStays DEF Provenance
<1>5. QED
  BY <1>2, <1>3, <1>4 DEF Provenance

LEMMA BackPopulateProvenance ==
    ASSUME TypeInv, Provenance, NEW r \in Request, BackPopulate(r)
    PROVE  Provenance'
<1>1. /\ Cur(r) \in Content /\ hand[r] \in Verdict /\ pc[r] \in Verdictful
      /\ UNCHANGED verdicts
  BY Labels DEF BackPopulate, TypeInv, ControlOK, Verdictful
<1>2. <<Cur(r), hand[r]>> \in verdicts
  BY <1>1 DEF Provenance, HandOK
<1>3. CacheProvenance'
  BY <1>1, <1>2, PutProvenance DEF BackPopulate, Provenance, TypeInv
<1>4. HandOK'
  BY <1>1, MoveHand DEF BackPopulate, Provenance
<1>5. AccOK' /\ AnswerProvenance'
  BY <1>1, ProvenanceStays DEF BackPopulate, Move, Provenance
<1>6. QED
  BY <1>3, <1>4, <1>5 DEF Provenance

LEMMA ReplyProvenance ==
    ASSUME TypeInv, Provenance, NEW r \in Request, Reply(r)
    PROVE  Provenance'
<1> DEFINE answer == BuildResponse(hand[r], "NONE", FALSE)
<1>1. /\ Cur(r) \in Content /\ hand[r] \in Verdict /\ pc[r] \in Verdictful
      /\ pc[r] \in Running /\ Return(r, answer) /\ UNCHANGED <<cacheVars, verdicts>>
  BY Labels DEF Reply, TypeInv, ControlOK
<1>2. answer \in Response /\ VerdictOf(answer) = hand[r] /\ answer.level = "NONE"
  BY <1>1, BuildResponseType, VerdictOfBuilt
<1>3. Supported(hand[r], "NONE", Cur(r))
  BY <1>1 DEF Provenance, HandOK, Supported, Reaches
<1>4. QED
  BY <1>1, <1>2, <1>3, AnswerStep

\* An answer that judges nothing: the URL gate's, QUEUED, or ERROR.
LEMMA BareProvenance ==
    ASSUME TypeInv, Provenance, NEW r \in Request,
           BlockUrl(r) \/ QueueUrl(r) \/ QueueForAnalyzer(r) \/ ReplyError(r)
    PROVE  Provenance'
<1>1. /\ Bare("BLOCK", "url_malicious", 1) \in Response
      /\ Bare("QUEUED", "", 0) \in Response /\ Bare("ERROR", "", 0) \in Response
  BY BareType DEF Decision, Category
<1>2. Bare("QUEUED", "", 0).decision = "QUEUED" /\ Bare("ERROR", "", 0).decision = "ERROR"
  BY DEF Bare
<1>3. pc[r] \in Running /\ UNCHANGED <<cacheVars, verdicts>>
  BY Labels DEF BlockUrl, QueueUrl, UrlPassed, QueueForAnalyzer, ReplyError
<1>4. CASE BlockUrl(r)
  <2>1. frames[r] = <<>>
    BY <1>4 DEF BlockUrl, TypeInv, ControlOK
  <2>2. QED
    BY <1>1, <1>3, <1>4, <2>1, AnswerStep DEF BlockUrl
<1>5. CASE QueueUrl(r) \/ QueueForAnalyzer(r)
  <2>1. Return(r, Bare("QUEUED", "", 0))
    BY <1>5 DEF QueueUrl, QueueForAnalyzer
  <2>2. QED
    BY <1>1, <1>2, <1>3, <2>1, AnswerStep
<1>6. CASE ReplyError(r)
  BY <1>1, <1>2, <1>3, <1>6, AnswerStep DEF ReplyError
<1>7. QED
  BY <1>4, <1>5, <1>6

LEMMA StepProvenance ==
    ASSUME TypeInv, Provenance, NEW r \in Request, Submit(r) \/ Step(r)
    PROVE  Provenance'
<1>1. CASE \E input \in Input : SubmitContent(r, input)
  BY <1>1, TakeInputProvenance DEF SubmitContent
<1>2. CASE \E list \in Extractions : Extract(r, list)
  BY <1>2, TakeInputProvenance DEF Extract
<1>3. CASE \/ SubmitUrl(r) \/ TakeFrames(r) \/ ExtractFails(r) \/ Normalize(r)
           \/ Miss(r) \/ AnalyzeFails(r) \/ RecheckMiss(r) \/ BackPopulateFails(r)
  <2>1. PICK label : /\ Move(r, label) /\ UNCHANGED <<cacheVars, verdicts>>
                     /\ label \in Verdictful => pc[r] \in Verdictful
    BY <1>3, Labels, Stages
       DEF SubmitUrl, TakeFrames, ExtractFails, Normalize, Miss, AnalyzeFails,
           RecheckMiss, BackPopulateFails, Verdictful
  <2>2. QED
    BY <2>1, MoveProvenance
<1>4. CASE BlockUrl(r) \/ QueueUrl(r) \/ QueueForAnalyzer(r) \/ ReplyError(r)
  BY <1>4, BareProvenance
<1>5. CASE NormalizeFails(r)
  <2>1. ReturnError(r) /\ UNCHANGED <<cacheVars, verdicts>>
    BY <1>5 DEF NormalizeFails
  <2>2. CacheProvenance' /\ HandOK'
    BY <2>1, CacheStays, ReturnHand DEF Provenance
  <2>3. AccOK' /\ AnswerProvenance'
    BY <2>1, ReturnErrorProvenance DEF Provenance
  <2>4. QED
    BY <2>2, <2>3 DEF Provenance
<1>6. CASE Hit(r)
  BY <1>6, HitProvenance DEF Hit
<1>7. CASE RecheckHit(r)
  BY <1>7, HitProvenance DEF RecheckHit
<1>8. CASE Analyze(r)
  BY <1>8, AnalyzeProvenance
<1>9. CASE BackPopulate(r)
  BY <1>9, BackPopulateProvenance
<1>10. CASE Reply(r)
  BY <1>10, ReplyProvenance
<1>11. QED
  BY <1>1, <1>2, <1>3, <1>4, <1>5, <1>6, <1>7, <1>8, <1>9, <1>10
     DEF Submit, Step

LEMMA NextProvenance ==
    ASSUME TypeInv, Provenance, [Next]_vars
    PROVE  Provenance'
<1>1. ASSUME NEW r \in Request, Submit(r) \/ Step(r)
      PROVE  Provenance'
  BY <1>1, StepProvenance
<1>2. ASSUME UNCHANGED <<reqVars, cacheVars, verdicts>>
      PROVE  Provenance'
  <2>1. CacheProvenance' /\ AccOK' /\ AnswerProvenance'
    BY <1>2, CacheStays, ProvenanceStays DEF Provenance, reqVars
  <2>2. HandOK'
    BY <1>2 DEF Provenance, HandOK, Cur, reqVars
  <2>3. QED
    BY <2>1, <2>2 DEF Provenance
<1>3. ASSUME NEW c \in Content, Evict(c)
      PROVE  Provenance'
  <2>1. CacheProvenance'
    BY <1>3 DEF Evict, Provenance, CacheProvenance, TypeInv, TypeOK
  <2>2. AccOK' /\ AnswerProvenance'
    BY <1>3, ProvenanceStays DEF Evict, Provenance, reqVars
  <2>3. HandOK'
    BY <1>3 DEF Evict, Provenance, HandOK, Cur, reqVars
  <2>4. QED
    BY <2>1, <2>2, <2>3 DEF Provenance
<1>4. CASE Restart
  <2>1. \A r \in Request : pc'[r] \in Verdictful => pc[r] \in Verdictful
    BY <1>4, Labels DEF Restart
  <2>2. CacheProvenance' /\ AccOK' /\ AnswerProvenance'
    BY <1>4, CacheStays, ProvenanceStays DEF Restart, Provenance
  <2>3. HandOK'
    BY <1>4, <2>1 DEF Restart, Provenance, HandOK, Cur
  <2>4. QED
    BY <2>2, <2>3 DEF Provenance
<1>5. QED
  BY <1>1, <1>2, <1>3, <1>4 DEF Next, Cancel, RunHook, Quiet, vars

LEMMA ProvenanceInvariant == Spec => []Provenance
<1>1. Init => Provenance
  BY InitProvenance
<1>2. TypeInv /\ Provenance /\ [Next]_vars => Provenance'
  BY NextProvenance
<1>3. QED
  BY <1>1, <1>2, TypeInvariant, PTL DEF Spec

\* Every ALLOW or BLOCK a caller sees rests on the analyzer's verdict on
\* content similar enough for the level that answered, however many requests
\* run, whatever fails and whenever the process restarts (Execute and
\* executeStandard).
THEOREM AnswersRestOnVerdicts == Spec => []AnswerProvenance
BY ProvenanceInvariant, PTL DEF Provenance

\* No cache level ever holds a verdict the analyzer did not give for it
\* (backPopulate).
THEOREM CachesHoldVerdicts == Spec => []CacheProvenance
BY ProvenanceInvariant, PTL DEF Provenance

=============================================================================
