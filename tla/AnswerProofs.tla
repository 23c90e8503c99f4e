---------------------------- MODULE AnswerProofs ----------------------------
(***************************************************************************)
(* What follows from an answer of the pipeline, and what leads to one: the *)
(* hooks, the cache levels, and the answer cached content is sure of, for  *)
(* any requests, contents, analyzer and frame lists.                       *)
(***************************************************************************)
EXTENDS PipelineProofs
-----------------------------------------------------------------------------
(* Hooks and answers.  HooksMatchAnswers and BlockedFrameBlocksVideo speak *)
(* of finished requests: what makes them inductive is that a request at    *)
(* work has fired hooks for the parts before its frame index only, and     *)
(* that a frame loop remembers a BLOCK it reported.                        *)

\* Hooks are those of parts the request is past, so a single content has none
\* before its answer.
HooksBehind ==
    /\ \A r \in Request : mode[r] = "single" => idx[r] = 1
    /\ \A h \in fired : pc[h.req] \in Running \cup {"idle"} => h.part \in 1 .. idx[h.req] - 1

OneVerdict ==
    \A g, h \in fired : (g.req = h.req /\ g.part = h.part) =>
       g.verdict = h.verdict /\ g.content = h.content

\* What a single answer asks of the hooks.
Reportable(r) ==
    frames[r] # <<>> /\ ~resp[r].degraded /\ resp[r].decision \in {"ALLOW", "BLOCK"}

Reported(r) ==
    IF Reportable(r)
    THEN /\ \A k \in Hooks : \E h \in fired : h.req = r /\ h.kind = k
         /\ \A h \in fired : h.req = r => h.verdict = VerdictOf(resp[r])
    ELSE \A h \in fired : h.req # r

BlockKept ==
    \A h \in fired :
       (/\ mode[h.req] = "frames" /\ pc[h.req] \in Running
        /\ h.verdict.decision = "BLOCK")
          => acc[h.req].any /\ acc[h.req].worst = "BLOCK"

HookInv ==
    /\ HooksBehind
    /\ OneVerdict
    /\ \A r \in Request : (pc[r] = "done" /\ mode[r] = "single") => Reported(r)
    /\ BlockKept
    /\ BlockedFrameBlocksVideo

LEMMA HookInvSuffices ==
    ASSUME TypeOK, HookInv
    PROVE  HooksMatchAnswers
<1>1. ASSUME NEW r \in Request, pc[r] = "done", mode[r] = "single"
      PROVE  LET mine == {h \in fired : h.req = r}
             IN  IF Reportable(r)
                 THEN /\ {h.kind : h \in mine} = Hooks
                      /\ \A h \in mine : h.verdict = VerdictOf(resp[r])
                 ELSE mine = {}
  <2>1. Reported(r)
    BY <1>1 DEF HookInv
  <2>2. \A h \in fired : h.kind \in Hooks
    BY DEF TypeOK, Hook
  <2>3. QED
    BY <2>1, <2>2 DEF Reported
<1>2. QED
  BY <1>1 DEF HooksMatchAnswers, HookInv, OneVerdict, Reportable

\* A BLOCK outranks every other decision.
LEMMA BlockOutranks ==
    ASSUME NEW a \in Accumulator, NEW answer \in Response,
           a.worst = "BLOCK" \/ answer.decision = "BLOCK"
    PROVE  Merge(a, answer).any /\ Merge(a, answer).worst = "BLOCK"
<1>1. a.worst \in Decision /\ answer.decision \in Decision
  BY DEF Accumulator, Response
<1>2. IF IsMoreSevere(answer.decision, a.worst)
      THEN answer.decision = "BLOCK" ELSE a.worst = "BLOCK"
  BY <1>1 DEF IsMoreSevere, Severity, Decision
<1>3. Merge(a, answer).worst =
         IF IsMoreSevere(answer.decision, a.worst) THEN answer.decision ELSE a.worst
  BY DEF Merge
<1>4. Merge(a, answer).any = TRUE
  BY DEF Merge
<1>5. QED
  BY <1>2, <1>3, <1>4

\* The requests a step does not touch keep their part of the invariant.
LEMMA OthersReported ==
    ASSUME HookInv, NEW r \in Request, NEW q \in Request \ {r},
           \A h \in fired' : h \in fired \/ h.req = r, fired \subseteq fired',
           pc'[q] = pc[q], mode'[q] = mode[q], frames'[q] = frames[q],
           resp'[q] = resp[q], pc'[q] = "done", mode'[q] = "single"
    PROVE  Reported(q)'
<1>1. Reported(q)
  BY DEF HookInv
<1>2. Reportable(q)' <=> Reportable(q)
  BY DEF Reportable
<1>3. QED
  BY <1>1, <1>2 DEF Reported, VerdictOf

\* A step that moves a request on and fires nothing.
LEMMA MoveHooks ==
    ASSUME TypeInv, HookInv, NEW r \in Request, UNCHANGED <<idx, acc, resp, fired>>,
           \A q \in Request \ {r} : /\ pc'[q] = pc[q] /\ mode'[q] = mode[q]
                                    /\ frames'[q] = frames[q],
           pc[r] \in Running \cup {"idle"}, pc'[r] \in Running \cup {"failed"},
           UNCHANGED mode \/ pc[r] = "extract"
    PROVE  HookInv'
<1>1. \A h \in fired : h.req \in Request
  BY DEF TypeInv, TypeOK, Hook
<1>2. pc[r] \in {"idle", "extract"} => idx[r] = 1 /\ mode[r] = "single"
  BY DEF TypeInv, ControlOK
<1>3. "failed" \notin Running \cup {"idle", "done"} /\ "done" \notin Running
  BY Labels
<1>4. HooksBehind'
  BY <1>1, <1>2, <1>3 DEF HookInv, HooksBehind
<1>5. OneVerdict'
  BY DEF HookInv, OneVerdict
<1>6. ASSUME NEW q \in Request, pc'[q] = "done", mode'[q] = "single"
      PROVE  Reported(q)'
  BY <1>3, <1>6, OthersReported
<1>7. BlockKept'
  <2>1. pc[r] \in {"idle", "extract"} => \A h \in fired : h.req # r
    BY <1>2, Labels DEF HookInv, HooksBehind
  <2>2. QED
    BY <1>1, <1>2, <1>3, <2>1 DEF HookInv, BlockKept
<1>8. BlockedFrameBlocksVideo'
  BY <1>1, <1>3 DEF HookInv, BlockedFrameBlocksVideo
<1>9. QED
  BY <1>4, <1>5, <1>6, <1>7, <1>8 DEF HookInv

\* The frame loop takes its next frame or answers, after at most one report.
LEMMA NextFrameHooks ==
    ASSUME TypeInv, HookInv, NEW r \in Request, NEW a \in Accumulator, NEW v,
           NextFrame(r, a), UNCHANGED <<mode, frames>>, mode[r] = "frames",
           pc[r] \in Running, fired \subseteq fired',
           \A h \in fired' : \/ h \in fired
                             \/ /\ h.req = r /\ h.part = idx[r]
                                /\ h.content = Cur(r) /\ h.verdict = v,
           \A h \in fired' : (h.req = r /\ h.verdict.decision = "BLOCK")
                                => a.any /\ a.worst = "BLOCK"
    PROVE  HookInv'
<1>1. \A h \in fired : h.req \in Request /\ h.part \in Nat
  BY DEF TypeInv, TypeOK, Hook
<1>2. /\ \/ idx'[r] = idx[r] + 1 /\ pc'[r] = "norm"
         \/ idx'[r] = idx[r] /\ pc'[r] = "done" /\ resp'[r] = Aggregate(a)
      /\ acc'[r] = a /\ idx[r] \in Nat \ {0}
      /\ \A q \in Request \ {r} : /\ pc'[q] = pc[q] /\ idx'[q] = idx[q]
                                  /\ acc'[q] = acc[q] /\ resp'[q] = resp[q]
  BY DEF NextFrame, Goto, TypeInv, TypeOK
<1>3. \A h \in fired : h.req = r => h.part \in 1 .. idx[r] - 1
  BY DEF HookInv, HooksBehind
<1>4. HooksBehind'
  <2>1. \A q \in Request : mode'[q] = "single" => idx'[q] = 1
    BY <1>2 DEF HookInv, HooksBehind
  <2>2. ASSUME NEW h \in fired', pc'[h.req] \in Running \cup {"idle"}
        PROVE  h.part \in 1 .. idx'[h.req] - 1
    <3>1. CASE h.req = r
      BY <1>2, <1>3, <2>2, <3>1, Labels
    <3>2. CASE h.req # r
      BY <1>1, <1>2, <2>2, <3>2 DEF HookInv, HooksBehind
    <3>3. QED
      BY <3>1, <3>2
  <2>3. QED
    BY <2>1, <2>2 DEF HooksBehind
<1>5. OneVerdict'
  BY <1>2, <1>3 DEF HookInv, OneVerdict
<1>6. ASSUME NEW q \in Request, pc'[q] = "done", mode'[q] = "single"
      PROVE  Reported(q)'
  BY <1>2, <1>6, OthersReported
<1>7. BlockKept'
  BY <1>1, <1>2 DEF HookInv, BlockKept
<1>8. BlockedFrameBlocksVideo'
  <2>1. a.any /\ a.worst = "BLOCK" => Aggregate(a).decision = "BLOCK"
    BY DEF Aggregate, Bare
  <2>2. QED
    BY <1>1, <1>2, <2>1, Labels DEF HookInv, BlockedFrameBlocksVideo
<1>9. QED
  BY <1>4, <1>5, <1>6, <1>7, <1>8 DEF HookInv

\* A request comes to an answer and fires every hook with its verdict, or none.
LEMMA ReturnHooks ==
    ASSUME TypeInv, HookInv, NEW r \in Request, NEW answer \in Response,
           Return(r, answer), pc[r] \in Running,
           \/ /\ FireHooks(r, VerdictOf(answer)) /\ ~answer.degraded
              /\ frames[r] # <<>> /\ answer.decision \in {"ALLOW", "BLOCK"}
           \/ /\ UNCHANGED fired
              /\ \/ answer.degraded \/ frames[r] = <<>>
                 \/ answer.decision \notin {"ALLOW", "BLOCK"}
    PROVE  HookInv'
<1> DEFINE v == VerdictOf(answer)
<1>1. /\ fired \subseteq fired'
      /\ \A h \in fired' : \/ h \in fired
                           \/ /\ h.req = r /\ h.part = idx[r]
                              /\ h.content = Cur(r) /\ h.verdict = v
  BY DEF FireHooks
<1>2. \A h \in fired : h.req = r => h.part \in 1 .. idx[r] - 1
  BY DEF HookInv, HooksBehind
<1>3. CASE mode[r] = "single"
  <2>1. /\ pc'[r] = "done" /\ resp'[r] = answer /\ UNCHANGED <<mode, frames, idx, acc>>
        /\ \A q \in Request \ {r} : pc'[q] = pc[q] /\ resp'[q] = resp[q]
    BY <1>3 DEF Return, Goto, TypeInv, TypeOK
  <2>2. /\ idx[r] = 1 /\ \A h \in fired : h.req # r
        /\ \A h \in fired : h.req \in Request
    BY <1>2, <1>3 DEF HookInv, HooksBehind, TypeInv, TypeOK, Hook
  <2>3. HooksBehind'
    BY <1>1, <2>1, <2>2, Labels DEF HookInv, HooksBehind
  <2>4. OneVerdict'
    BY <1>1, <2>2 DEF HookInv, OneVerdict
  <2>5. Reported(r)'
    <3>1. VerdictOf(resp[r])' = v
      BY <2>1 DEF VerdictOf
    <3>2. CASE /\ FireHooks(r, v) /\ ~answer.degraded
               /\ frames[r] # <<>> /\ answer.decision \in {"ALLOW", "BLOCK"}
      <4>1. Reportable(r)'
        BY <2>1, <3>2 DEF Reportable
      <4>2. ASSUME NEW k \in Hooks
            PROVE  \E h \in fired' : h.req = r /\ h.kind = k
        <5> DEFINE h == [kind |-> k, req |-> r, part |-> idx[r],
                         content |-> Cur(r), verdict |-> v]
        <5>1. h \in fired' /\ h.req = r /\ h.kind = k
          BY <3>2 DEF FireHooks
        <5>2. QED
          BY <5>1
      <4>3. \A h \in fired' : h.req = r => h.verdict = v
        BY <1>1, <2>2
      <4>4. QED
        BY <3>1, <4>1, <4>2, <4>3 DEF Reported
    <3>3. CASE /\ UNCHANGED fired
               /\ \/ answer.degraded \/ frames[r] = <<>>
                  \/ answer.decision \notin {"ALLOW", "BLOCK"}
      <4>1. ~Reportable(r)'
        BY <2>1, <3>3 DEF Reportable
      <4>2. QED
        BY <2>2, <3>3, <4>1 DEF Reported
    <3>4. QED
      BY <3>2, <3>3
  <2>6. ASSUME NEW q \in Request, pc'[q] = "done", mode'[q] = "single"
        PROVE  Reported(q)'
    BY <1>1, <2>1, <2>5, <2>6, OthersReported
  <2>7. BlockKept'
    BY <1>1, <1>3, <2>1, <2>2 DEF HookInv, BlockKept
  <2>8. BlockedFrameBlocksVideo'
    <3>1. \A h \in fired' : h.req = r => h.verdict.decision = answer.decision
      BY <1>1, <2>2 DEF VerdictOf
    <3>2. QED
      BY <1>1, <2>1, <2>2, <3>1 DEF HookInv, BlockedFrameBlocksVideo
  <2>9. QED
    BY <2>3, <2>4, <2>6, <2>7, <2>8 DEF HookInv
<1>4. CASE mode[r] = "frames"
  <2> DEFINE a == Merge(acc[r], answer)
  <2>1. NextFrame(r, a) /\ UNCHANGED <<mode, frames>>
    BY <1>4 DEF Return
  <2>2. acc[r] \in Accumulator /\ a \in Accumulator
    BY MergeType DEF TypeInv, TypeOK
  <2>3. ASSUME NEW h \in fired', h.req = r, h.verdict.decision = "BLOCK"
        PROVE  a.any /\ a.worst = "BLOCK"
    <3>1. CASE h \in fired
      <4>1. acc[r].worst = "BLOCK"
        BY <1>4, <2>3, <3>1 DEF HookInv, BlockKept
      <4>2. QED
        BY <2>2, <4>1, BlockOutranks
    <3>2. CASE h.verdict = v
      <4>1. answer.decision = "BLOCK"
        BY <2>3, <3>2 DEF VerdictOf
      <4>2. QED
        BY <2>2, <4>1, BlockOutranks
    <3>3. QED
      BY <1>1, <3>1, <3>2
  <2> HIDE DEF a, v
  <2>4. QED
    BY <1>1, <1>4, <2>1, <2>2, <2>3, NextFrameHooks
<1>5. QED
  BY <1>3, <1>4 DEF TypeInv, TypeOK

LEMMA SkipHooks ==
    ASSUME TypeInv, HookInv, NEW r \in Request, ReturnError(r), pc[r] \in Running,
           UNCHANGED fired
    PROVE  HookInv'
<1>1. CASE mode[r] = "single"
  <2>1. /\ UNCHANGED <<mode, frames, idx, acc, resp>> /\ pc'[r] = "failed"
        /\ \A q \in Request \ {r} : pc'[q] = pc[q]
    BY <1>1 DEF ReturnError, Goto, TypeInv, TypeOK
  <2>2. QED
    BY <2>1, MoveHooks
<1>2. CASE mode[r] = "frames"
  <2>1. NextFrame(r, acc[r]) /\ UNCHANGED <<mode, frames>>
    BY <1>2 DEF ReturnError
  <2>2. acc[r] \in Accumulator
    BY DEF TypeInv, TypeOK
  <2>3. \A h \in fired : (h.req = r /\ h.verdict.decision = "BLOCK")
                            => acc[r].any /\ acc[r].worst = "BLOCK"
    BY <1>2 DEF HookInv, BlockKept
  <2>4. QED
    BY <1>2, <2>1, <2>2, <2>3, NextFrameHooks
<1>3. QED
  BY <1>1, <1>2 DEF TypeInv, TypeOK

LEMMA StepHooks ==
    ASSUME TypeInv, HookInv, NEW r \in Request, Submit(r) \/ Step(r)
    PROVE  HookInv'
<1>1. CASE \/ \E input \in Input : SubmitContent(r, input)
           \/ \E list \in Extractions : Extract(r, list)
  <2>1. /\ pc[r] \in {"idle", "extract"} /\ pc'[r] = "norm"
        /\ UNCHANGED mode \/ pc[r] = "extract"
        /\ UNCHANGED <<idx, acc, resp, fired>>
        /\ \A q \in Request \ {r} : /\ pc'[q] = pc[q] /\ mode'[q] = mode[q]
                                    /\ frames'[q] = frames[q]
    BY <1>1 DEF SubmitContent, Extract, Goto, TypeInv, TypeOK, hookVars
  <2>2. QED
    BY <2>1, MoveHooks, Labels
<1>2. CASE \/ SubmitUrl(r) \/ TakeFrames(r) \/ ExtractFails(r) \/ Normalize(r)
           \/ Miss(r) \/ AnalyzeFails(r) \/ RecheckMiss(r) \/ BackPopulateFails(r)
           \/ BackPopulate(r) \/ Analyze(r)
  <2>1. PICK label \in Running \cup {"failed"} :
           /\ pc[r] \in Running \cup {"idle"} /\ Goto(r, label)
           /\ UNCHANGED <<mode, frames, idx, acc, resp, fired>>
    BY <1>2, Labels, Stages
       DEF SubmitUrl, TakeFrames, UrlPassed, ExtractFails, Normalize, Miss,
           AnalyzeFails, RecheckMiss, BackPopulateFails, BackPopulate, Analyze,
           Move, hookVars, Lookup, Recheck, Store
  <2>2. pc'[r] = label /\ \A q \in Request \ {r} : pc'[q] = pc[q]
    BY <2>1 DEF Goto, TypeInv, TypeOK
  <2>3. QED
    BY <2>1, <2>2, MoveHooks
<1>3. CASE BlockUrl(r) \/ QueueUrl(r) \/ QueueForAnalyzer(r) \/ ReplyError(r)
  <2>1. PICK decision \in {"BLOCK", "QUEUED", "ERROR"}, category \in Category, conf \in Nat :
           /\ Return(r, Bare(decision, category, conf))
           /\ decision = "BLOCK" => pc[r] = "url"
    BY <1>3 DEF BlockUrl, QueueUrl, QueueForAnalyzer, ReplyError, Category
  <2>2. Bare(decision, category, conf) \in Response
    BY BareType DEF Decision
  <2>3. Bare(decision, category, conf).decision = decision
    BY DEF Bare
  <2>4. decision = "BLOCK" => frames[r] = <<>>
    BY <2>1 DEF TypeInv, ControlOK
  <2>5. pc[r] \in Running /\ UNCHANGED fired
    BY <1>3, Labels
       DEF BlockUrl, QueueUrl, UrlPassed, QueueForAnalyzer, ReplyError, hookVars
  <2>6. QED
    BY <2>1, <2>2, <2>3, <2>4, <2>5, ReturnHooks
<1>4. CASE NormalizeFails(r)
  BY <1>4, Labels, SkipHooks DEF NormalizeFails, hookVars
<1>5. CASE Hit(r) \/ RecheckHit(r)
  <2>1. /\ Cur(r) \in Content /\ pc[r] \in Analyzing /\ pc[r] \in Running
        /\ LevelOf[pc[r]] \in Level
    BY <1>5, Stages, Labels DEF Hit, RecheckHit, Lookup, Recheck, TypeInv, ControlOK
  <2>2. PICK v \in Found(LevelOf[pc[r]], Cur(r)), degraded \in BOOLEAN :
           /\ Return(r, BuildResponse(v, LevelOf[pc[r]], degraded))
           /\ \/ degraded = TRUE /\ UNCHANGED fired
              \/ degraded = FALSE /\ FireHooks(r, v)
    <3>1. CASE Hit(r)
      BY <3>1 DEF Hit
    <3>2. CASE RecheckHit(r)
      BY <3>2 DEF RecheckHit, hookVars
    <3>3. QED
      BY <1>5, <3>1, <3>2
  <2> DEFINE answer == BuildResponse(v, LevelOf[pc[r]], degraded)
  <2>3. v \in Verdict
    BY <2>1, FoundType DEF TypeInv
  <2>4. /\ answer \in Response /\ VerdictOf(answer) = v
        /\ answer.decision \in {"ALLOW", "BLOCK"}
    BY <2>1, <2>3, BuildResponseType, VerdictOfBuilt DEF BuildResponse, Verdict
  <2>5. answer.degraded = degraded
    BY DEF BuildResponse
  <2>6. frames[r] # <<>>
    BY <2>1 DEF TypeInv, ControlOK
  <2> HIDE DEF answer
  <2>7. QED
    BY <2>1, <2>2, <2>4, <2>5, <2>6, ReturnHooks DEF answer
<1>6. CASE Reply(r)
  <2> DEFINE answer == BuildResponse(hand[r], "NONE", FALSE)
  <2>1. hand[r] \in Verdict /\ pc[r] \in Analyzing /\ pc[r] \in Running
    BY <1>6, Labels DEF Reply, TypeInv, ControlOK
  <2>2. /\ answer \in Response /\ VerdictOf(answer) = hand[r]
        /\ answer.decision \in {"ALLOW", "BLOCK"}
    <3>1. answer \in Response
      BY <2>1, BuildResponseType
    <3>2. VerdictOf(answer) = hand[r]
      BY <2>1, VerdictOfBuilt
    <3>3. answer.decision = hand[r].decision
      BY DEF BuildResponse
    <3>4. QED
      BY <2>1, <3>1, <3>2, <3>3 DEF Verdict
  <2>3. answer.degraded = FALSE
    BY DEF BuildResponse
  <2>4. frames[r] # <<>>
    BY <2>1 DEF TypeInv, ControlOK
  <2>5. Return(r, answer) /\ FireHooks(r, VerdictOf(answer))
    BY <1>6, <2>2 DEF Reply
  <2> HIDE DEF answer
  <2>6. QED
    BY <2>1, <2>2, <2>3, <2>4, <2>5, ReturnHooks
<1>7. QED
  BY <1>1, <1>2, <1>3, <1>4, <1>5, <1>6 DEF Submit, Step

LEMMA NextHooks ==
    ASSUME TypeInv, HookInv, [Next]_vars
    PROVE  HookInv'
<1>1. ASSUME NEW r \in Request, Submit(r) \/ Step(r)
      PROVE  HookInv'
  BY <1>1, StepHooks
<1>2. CASE UNCHANGED <<reqVars, fired>>
  <2>1. \A r \in Request : Reported(r)' <=> Reported(r)
    BY <1>2 DEF Reported, Reportable, VerdictOf, reqVars
  <2>2. HooksBehind' /\ OneVerdict' /\ BlockKept' /\ BlockedFrameBlocksVideo'
    BY <1>2 DEF HookInv, HooksBehind, OneVerdict, BlockKept,
                BlockedFrameBlocksVideo, reqVars
  <2>3. QED
    BY <1>2, <2>1, <2>2 DEF HookInv, reqVars
<1>3. CASE Restart
  <2>1. /\ \A r \in Request : pc'[r] = IF pc[r] \in Running THEN "lost" ELSE pc[r]
        /\ UNCHANGED <<mode, frames, idx, acc, resp, fired>>
    BY <1>3 DEF Restart
  <2>2. \A r \in Request : /\ pc'[r] = "done" => pc[r] = "done"
                           /\ pc'[r] \in Running \cup {"idle"} => pc[r] = "idle"
    BY <2>1, Labels
  <2>3. \A h \in fired : h.req \in Request
    BY DEF TypeInv, TypeOK, Hook
  <2>4. \A r \in Request : Reported(r)' <=> Reported(r)
    BY <2>1 DEF Reported, Reportable, VerdictOf
  <2>5. HooksBehind' /\ OneVerdict' /\ BlockedFrameBlocksVideo'
    BY <2>1, <2>2, <2>3 DEF HookInv, HooksBehind, OneVerdict, BlockedFrameBlocksVideo
  <2>6. BlockKept'
    BY <2>1, <2>2, <2>3, Labels DEF BlockKept
  <2>7. QED
    BY <2>1, <2>2, <2>4, <2>5, <2>6 DEF HookInv
<1>4. QED
  BY <1>1, <1>2, <1>3 DEF Next, Cancel, RunHook, Evict, Quiet, reqVars, hookVars, vars

LEMMA HookInvariant == Spec => []HookInv
<1>1. Init => HookInv
  <2> SUFFICES ASSUME Init
               PROVE  HookInv
    OBVIOUS
  <2>1. /\ fired = {} /\ idx = [r \in Request |-> 1]
        /\ \A r \in Request : pc[r] # "done"
    BY DEF Init
  <2>2. HooksBehind /\ OneVerdict /\ BlockKept /\ BlockedFrameBlocksVideo
    BY <2>1 DEF HooksBehind, OneVerdict, BlockKept, BlockedFrameBlocksVideo
  <2>3. QED
    BY <2>1, <2>2 DEF HookInv
<1>2. TypeInv /\ HookInv /\ [Next]_vars => HookInv'
  BY NextHooks
<1>3. QED
  BY <1>1, <1>2, TypeInvariant, PTL DEF Spec

\* The hooks a request launched and the answer it gave tell one story, in every
\* interleaving of requests (fireHooks and its callers).
THEOREM HooksTellTheAnswer == Spec => []HooksMatchAnswers
<1>1. TypeInv /\ HookInv => HooksMatchAnswers
  BY HookInvSuffices DEF TypeInv
<1>2. QED
  BY <1>1, TypeInvariant, HookInvariant, PTL

\* A video whose frame was reported as BLOCK is answered BLOCK, however many
\* frames it has and whatever became of the others (executeFrameExtraction).
THEOREM VideosStayBlocked == Spec => []BlockedFrameBlocksVideo
BY HookInvariant, PTL DEF HookInv
-----------------------------------------------------------------------------
(* The levels.  While the stores are up and nothing evicts, a request at   *)
(* its L3 write has made its L2 write: the cascade is never cut in two.    *)

StoresUp == Faults \subseteq {"normalizer", "analyzer"}

\* What a content in L1 is owed.
Levelled(c) ==
    \/ l2[PHashOf[c]] # None /\ (l3[c] # None \/ ~Weaviate)
    \/ \E r \in Request : \/ pc[r] \in Store /\ Cur(r) = c
                          \/ pc[r] = "lost"

LevelInv ==
    /\ gone = {}
    /\ \A r \in Request : pc[r] = "setL3" => l2[PHashOf[Cur(r)]] # None
    /\ \A c \in Content : l1[c] # None => Levelled(c)

\* A step of one request that stores nothing, and is not storing.
LEMMA LevelStays ==
    ASSUME TypeInv, LevelInv, NEW r \in Request, UNCHANGED <<gone, cacheVars>>,
           pc[r] \notin Store \cup {"lost"},
           pc'[r] # "setL3",
           \A q \in Request \ {r} : pc'[q] = pc[q] /\ frames'[q] = frames[q]
                                                  /\ idx'[q] = idx[q]
    PROVE  LevelInv'
<1>1. \A q \in Request : pc[q] \in Store \cup {"lost"} => pc'[q] = pc[q] /\ Cur(q)' = Cur(q)
  BY DEF Cur
<1>2. \A c \in Content : Levelled(c) => Levelled(c)'
  BY <1>1 DEF Levelled, cacheVars
<1>3. \A q \in Request : pc'[q] = "setL3" => pc[q] = "setL3" /\ Cur(q)' = Cur(q)
  BY DEF Cur
<1>4. QED
  BY <1>2, <1>3 DEF LevelInv, cacheVars

\* A write of the cascade, which leads to the next one or to the reply.
LEMMA StoreLevels ==
    ASSUME TypeInv, LevelInv, NEW r \in Request, BackPopulate(r)
    PROVE  LevelInv'
<1>0. hand[r] \in Verdict /\ Cur(r) \in Content
  BY Labels DEF BackPopulate, TypeInv, ControlOK, Store
<1> PICK c \in Content : c = Cur(r)
  BY <1>0
<1>1. /\ pc[r] \in Store /\ hand[r] # None /\ PHashOf[c] \in PHashes
      /\ Put(LevelOf[pc[r]], c, hand[r])
      /\ UNCHANGED <<frames, idx, gone>>
  BY <1>0, PipelineAssumption DEF BackPopulate, Move, PipelineAssumption, PHashes
<1>2. pc'[r] = Following[pc[r]] /\ \A q \in Request \ {r} : pc'[q] = pc[q]
  BY DEF BackPopulate, Move, Goto, TypeInv, TypeOK
<1>3. /\ \A o \in Content : /\ PHashOf[o] \in PHashes
                            /\ l2[PHashOf[o]] # None => l2'[PHashOf[o]] # None
                            /\ l3[o] # None => l3'[o] # None
                            /\ o # c => l1'[o] = l1[o]
  BY <1>1 DEF Put, TypeInv, TypeOK, PHashes
<1>4. \A q \in Request : Cur(q)' = Cur(q)
  BY <1>1 DEF Cur
<1>5. CASE pc[r] = "setL1" \/ pc[r] = "setL2"
  <2>1. pc'[r] \in Store /\ (pc'[r] = "setL3" => l2'[PHashOf[c]] # None)
    BY <1>1, <1>2, <1>5 DEF Following, Store, Put, LevelOf, TypeInv, TypeOK
  <2>2. Levelled(c)'
    BY <1>4, <2>1 DEF Levelled
  <2>3. \A o \in Content : Levelled(o) => Levelled(o)'
    <3>1. \A q \in Request : /\ pc[q] \in Store => pc'[q] \in Store
                             /\ pc[q] = "lost" => pc'[q] = "lost"
      BY <1>2, <1>5, <2>1
    <3>2. QED
      BY <1>3, <1>4, <3>1 DEF Levelled
  <2>4. (\A q \in Request : pc[q] = "setL3" => l2[PHashOf[Cur(q)]] # None)'
    <3>1. \A q \in Request : pc[q] = "setL3" => Cur(q) \in Content
      BY Labels DEF TypeInv, ControlOK
    <3>2. QED
      BY <1>2, <1>3, <1>4, <2>1, <3>1 DEF LevelInv
  <2>5. QED
    <3>1. ASSUME NEW o \in Content, l1'[o] # None
          PROVE  Levelled(o)'
      <4>1. CASE o = c
        BY <2>2, <4>1
      <4>2. CASE o # c
        BY <1>3, <2>3, <3>1, <4>2 DEF LevelInv
      <4>3. QED
        BY <4>1, <4>2
    <3>2. gone' = {}
      BY <1>1 DEF LevelInv
    <3>3. QED
      BY <2>4, <3>1, <3>2 DEF LevelInv
<1>6. CASE pc[r] = "setL3"
  <2>1. /\ l2[PHashOf[c]] # None /\ (l3'[c] # None \/ ~Weaviate)
        /\ pc'[r] = "reply" /\ UNCHANGED <<l1, l2>>
    BY <1>1, <1>2, <1>6 DEF LevelInv, Following, Put, LevelOf, TypeInv, TypeOK
  <2>2. \A o \in Content : Levelled(o) => Levelled(o)'
    BY <1>2, <1>3, <1>4, <1>6, <2>1 DEF Levelled
  <2>3. QED
    BY <1>1, <1>2, <1>4, <2>1, <2>2 DEF LevelInv
<1>7. QED
  BY <1>1, <1>5, <1>6 DEF Store

LEMMA NextLevels ==
    ASSUME StoresUp, TypeInv, LevelInv, [Next]_vars
    PROVE  LevelInv'
<1>1. ASSUME NEW r \in Request, Submit(r) \/ Step(r)
      PROVE  LevelInv'
  <2>1. CASE BackPopulate(r)
    BY <2>1, StoreLevels
  <2>2. CASE BackPopulateFails(r)
    <3>1. LevelOf[pc[r]] \in Level
      BY <2>2, Stages DEF BackPopulateFails
    <3>2. FALSE
      BY <2>2, <3>1 DEF BackPopulateFails, MayFail, StoresUp, Level, LevelInv
    <3>3. QED
      BY <3>2
  <2>3. CASE Submit(r) \/ \E list \in Extractions : Extract(r, list)
    <3>1. /\ pc[r] \in {"idle", "extract"} /\ pc'[r] \in {"url", "norm"}
          /\ UNCHANGED <<idx, gone, cacheVars>>
          /\ \A q \in Request \ {r} : pc'[q] = pc[q] /\ frames'[q] = frames[q]
      BY <2>3 DEF Submit, SubmitUrl, SubmitContent, Extract, Move, Goto, TypeInv, TypeOK
    <3>2. QED
      BY <3>1, LevelStays DEF Store
  <2>4. CASE \/ TakeFrames(r) \/ ExtractFails(r) \/ Normalize(r) \/ Miss(r)
             \/ AnalyzeFails(r) \/ RecheckMiss(r) \/ Analyze(r)
    <3>1. /\ pc[r] \in {"url", "extract", "norm", "analyze"} \cup Lookup \cup Recheck
          /\ pc'[r] \in {"extract", "failed", "analyze", "reL1", "error", "setL1"}
                           \cup Lookup \cup Recheck
          /\ UNCHANGED <<frames, idx, gone, cacheVars>>
          /\ \A q \in Request \ {r} : pc'[q] = pc[q]
      BY <2>4, Stages
         DEF TakeFrames, UrlPassed, ExtractFails, Normalize, Miss, AnalyzeFails,
             RecheckMiss, Analyze, Move, Goto, TypeInv, TypeOK, Lookup, Recheck
    <3>2. QED
      BY <3>1, LevelStays DEF Store, Lookup, Recheck
  <2>5. CASE \/ BlockUrl(r) \/ QueueUrl(r) \/ NormalizeFails(r) \/ Hit(r)
             \/ QueueForAnalyzer(r) \/ Reply(r) \/ RecheckHit(r) \/ ReplyError(r)
    <3>1. /\ pc[r] \in {"url", "norm", "analyze", "reply", "error"} \cup Lookup \cup Recheck
          /\ (\E answer : Return(r, answer)) \/ ReturnError(r)
          /\ UNCHANGED <<gone, cacheVars>>
      BY <2>5
         DEF BlockUrl, QueueUrl, UrlPassed, NormalizeFails, Hit, QueueForAnalyzer,
             Reply, RecheckHit, ReplyError
    <3>2. /\ pc'[r] \in {"norm", "done", "failed"} /\ UNCHANGED frames
          /\ \A q \in Request \ {r} : pc'[q] = pc[q] /\ idx'[q] = idx[q]
      BY <3>1 DEF Return, ReturnError, NextFrame, Goto, TypeInv, TypeOK
    <3>3. QED
      BY <3>1, <3>2, LevelStays DEF Store, Lookup, Recheck
  <2>6. QED
    BY <1>1, <2>1, <2>2, <2>3, <2>4, <2>5 DEF Step
<1>2. CASE UNCHANGED <<reqVars, gone, cacheVars>>
  BY <1>2 DEF LevelInv, Levelled, Cur, reqVars, cacheVars
<1>3. CASE Restart
  <2>1. /\ \A r \in Request : pc'[r] = IF pc[r] \in Running THEN "lost" ELSE pc[r]
        /\ UNCHANGED <<frames, idx, gone, cacheVars>>
    BY <1>3 DEF Restart
  <2>2. \A r \in Request : /\ pc'[r] # "setL3"
                           /\ pc[r] \in Store \cup {"lost"} => pc'[r] = "lost"
    BY <2>1, Labels DEF Store
  <2>3. \A c \in Content : Levelled(c) => Levelled(c)'
    BY <2>1, <2>2 DEF Levelled, cacheVars
  <2>4. QED
    BY <2>1, <2>2, <2>3 DEF LevelInv, cacheVars
<1>4. QED
  BY <1>1, <1>2, <1>3
     DEF Next, Cancel, Evict, RunHook, Quiet, StoresUp, reqVars, cacheVars, vars
LEMMA LevelInvariant ==
    ASSUME StoresUp
    PROVE  Spec => []LevelInv
<1>1. Init => LevelInv
  BY DEF Init, LevelInv
<1>2. TypeInv /\ LevelInv /\ [Next]_vars => LevelInv'
  BY NextLevels
<1>3. QED
  BY <1>1, <1>2, TypeInvariant, PTL DEF Spec

\* While the stores are up and nothing evicts, a verdict that reached L1 reaches
\* the levels below, whatever other requests store meanwhile (backPopulate).
THEOREM CascadeCompletes == Spec => []LevelsFilledTogether
<1>1. CASE StoresUp
  <2>1. LevelInv => LevelsFilledTogether
    BY DEF LevelInv, LevelsFilledTogether, Levelled
  <2>2. QED
    BY <1>1, <2>1, LevelInvariant, PTL
<1>2. CASE ~StoresUp
  <2>1. LevelsFilledTogether
    BY <1>2 DEF LevelsFilledTogether, StoresUp
  <2>2. QED
    BY <2>1, PTL
<1>3. QED
  BY <1>1, <1>2
-----------------------------------------------------------------------------
(* A cached content is answered: being on the way to an answer with a      *)
(* verdict is stable.                                                      *)

DragonflyUp == Faults \cap {"L1", "client", "eviction"} = {}

InCacheAndAsked(r) ==
    /\ pc[r] \in {"L1", "reL1"} \/ (pc[r] = "analyze" /\ analyzer)
    /\ mode[r] = "single" /\ l1[Cur(r)] # None

OnTheWay(r) ==
    \/ InCacheAndAsked(r)
    \/ pc[r] \in Verdictful /\ mode[r] = "single"
    \/ pc[r] = "done" /\ resp[r].decision \in {"ALLOW", "BLOCK"}
    \/ pc[r] = "lost"

Connected == gone = {}

LEMMA NextConnected ==
    ASSUME DragonflyUp, Connected, [Next]_vars
    PROVE  Connected'
BY DEF Connected, DragonflyUp, Next, Submit, SubmitUrl, SubmitContent, Step,
       BlockUrl, TakeFrames, QueueUrl, ExtractFails, Extract, Normalize,
       NormalizeFails, Hit, Miss, QueueForAnalyzer, Analyze, AnalyzeFails,
       BackPopulate, BackPopulateFails, Reply, RecheckHit, RecheckMiss, ReplyError,
       Cancel, RunHook, Evict, Restart, Quiet, vars

\* What is in L1 stays there.
LEMMA L1Stays ==
    ASSUME DragonflyUp, TypeInv, [Next]_vars, NEW c \in Content, l1[c] # None
    PROVE  l1'[c] # None
<1>1. ASSUME NEW r \in Request, BackPopulate(r)
      PROVE  l1'[c] # None
  <2>1. hand[r] \in Verdict /\ Cur(r) \in Content
    BY <1>1, Labels DEF BackPopulate, TypeInv, ControlOK, Store
  <2>2. QED
    BY <1>1, <2>1, PipelineAssumption DEF BackPopulate, Put, TypeInv, TypeOK, PipelineAssumption
<1>2. CASE UNCHANGED l1
  BY <1>2
<1>3. QED
  BY <1>1, <1>2
     DEF DragonflyUp, Next, Submit, SubmitUrl, SubmitContent, Step,
         BlockUrl, TakeFrames, QueueUrl, ExtractFails, Extract, Normalize,
         NormalizeFails, Hit, Miss, QueueForAnalyzer, Analyze, AnalyzeFails,
         BackPopulateFails, Reply, RecheckHit, RecheckMiss, ReplyError,
         Cancel, RunHook, Evict, Restart, Quiet, vars, cacheVars

\* Where a request on its way goes next.
LEMMA StepOnTheWay ==
    ASSUME DragonflyUp, TypeInv, Connected, NEW r \in Request, OnTheWay(r),
           Submit(r) \/ Step(r), [Next]_vars
    PROVE  OnTheWay(r)'
<1>1. CASE InCacheAndAsked(r)
  <2>1. /\ pc[r] \in {"L1", "reL1", "analyze"} /\ Cur(r) \in Content
        /\ l1[Cur(r)] \in Verdict /\ mode[r] = "single"
    BY <1>1, Labels DEF InCacheAndAsked, TypeInv, TypeOK, ControlOK
  <2>2. ASSUME pc[r] \in {"L1", "reL1"}
        PROVE  Found(LevelOf[pc[r]], Cur(r)) = {l1[Cur(r)]}
    <3>1. LevelOf[pc[r]] = "L1"
      BY <2>2 DEF LevelOf
    <3>2. QED
      BY <2>1, <3>1, PipelineAssumption DEF Found, PipelineAssumption
  <2>3. CASE Hit(r) \/ RecheckHit(r)
    <3>1. pc[r] \in {"L1", "reL1"}
      BY <2>1, <2>3 DEF Hit, RecheckHit, Lookup, Recheck
    <3>2. \E level, degraded : Return(r, BuildResponse(l1[Cur(r)], level, degraded))
      BY <2>2, <2>3, <3>1 DEF Hit, RecheckHit
    <3>3. PICK level, degraded : Return(r, BuildResponse(l1[Cur(r)], level, degraded))
      BY <3>2
    <3>4. pc'[r] = "done" /\ resp'[r] = BuildResponse(l1[Cur(r)], level, degraded)
      BY <2>1, <3>3 DEF Return, Goto, TypeInv, TypeOK
    <3>5. resp'[r].decision = l1[Cur(r)].decision
      BY <3>4 DEF BuildResponse
    <3>6. QED
      BY <2>1, <3>4, <3>5 DEF OnTheWay, Verdict
  <2>4. CASE Analyze(r)
    BY <2>1, <2>4 DEF Analyze, Goto, OnTheWay, Verdictful, Store, TypeInv, TypeOK
  <2>5. CASE AnalyzeFails(r)
    BY <1>1, <2>1, <2>5
       DEF AnalyzeFails, Move, Goto, OnTheWay, InCacheAndAsked, Cur, cacheVars,
           TypeInv, TypeOK
  <2>6. ~Miss(r) /\ ~RecheckMiss(r)
    <3>1. ASSUME pc[r] \in {"L1", "reL1"}
          PROVE  ~MayFail(r, LevelOf[pc[r]])
      BY <3>1 DEF LevelOf, MayFail, DragonflyUp, Connected
    <3>2. QED
      BY <2>1, <2>2, <3>1 DEF Miss, RecheckMiss, Lookup, Recheck
  <2>7. ~QueueForAnalyzer(r)
    BY <1>1 DEF InCacheAndAsked, QueueForAnalyzer
  <2>8. QED
    BY <2>1, <2>3, <2>4, <2>5, <2>6, <2>7
       DEF Submit, SubmitUrl, SubmitContent, Step, BlockUrl, TakeFrames, QueueUrl,
           UrlPassed, ExtractFails, Extract, Normalize, NormalizeFails,
           BackPopulate, BackPopulateFails, Reply, ReplyError, Store
<1>2. CASE pc[r] \in Verdictful /\ mode[r] = "single"
  <2>1. hand[r] \in Verdict
    BY <1>2 DEF TypeInv, ControlOK
  <2>2. CASE BackPopulate(r) \/ BackPopulateFails(r)
    BY <1>2, <2>2, Stages
       DEF BackPopulate, BackPopulateFails, Move, Goto, OnTheWay, Verdictful, Store,
           TypeInv, TypeOK
  <2>3. CASE Reply(r)
    <3>1. pc'[r] = "done" /\ resp'[r] = BuildResponse(hand[r], "NONE", FALSE)
      BY <1>2, <2>3 DEF Reply, Return, Goto, TypeInv, TypeOK
    <3>2. resp'[r].decision = hand[r].decision
      BY <3>1 DEF BuildResponse
    <3>3. QED
      BY <2>1, <3>1, <3>2 DEF OnTheWay, Verdict
  <2>4. QED
    BY <1>2, <2>2, <2>3, Labels
       DEF Submit, SubmitUrl, SubmitContent, Step, BlockUrl, TakeFrames, QueueUrl,
           UrlPassed, ExtractFails, Extract, Normalize, NormalizeFails, Hit, Miss,
           QueueForAnalyzer, Analyze, AnalyzeFails, RecheckHit, RecheckMiss,
           ReplyError, Lookup, Recheck
<1>3. CASE pc[r] \in {"done", "lost"}
  BY <1>3, Labels
     DEF Submit, SubmitUrl, SubmitContent, Step, BlockUrl, TakeFrames, QueueUrl,
         UrlPassed, ExtractFails, Extract, Normalize, NormalizeFails, Hit, Miss,
         QueueForAnalyzer, Analyze, AnalyzeFails, RecheckHit, RecheckMiss,
         BackPopulate, BackPopulateFails, Reply, ReplyError, Lookup, Recheck, Store
<1>4. QED
  BY <1>1, <1>2, <1>3 DEF OnTheWay

\* A step of another request, or of none, leaves a request where it is.
LEMMA OtherStep ==
    ASSUME TypeInv, NEW q \in Request, NEW r \in Request \ {q}, Submit(q) \/ Step(q)
    PROVE  /\ pc'[r] = pc[r] /\ mode'[r] = mode[r] /\ resp'[r] = resp[r]
           /\ Cur(r)' = Cur(r) /\ analyzer' = analyzer
<1>1. ASSUME UNCHANGED <<mode, frames>>,
             (\E answer : Return(q, answer)) \/ ReturnError(q)
      PROVE  pc'[r] = pc[r] /\ resp'[r] = resp[r] /\ idx'[r] = idx[r]
  BY <1>1 DEF Return, ReturnError, NextFrame, Goto, TypeInv, TypeOK
<1>2. CASE Submit(q) \/ \E list \in Extractions : Extract(q, list)
  BY <1>2 DEF Submit, SubmitUrl, SubmitContent, Extract, Move, Goto, Cur, TypeInv,
              TypeOK, procVars
<1>3. CASE \/ BlockUrl(q) \/ QueueUrl(q) \/ NormalizeFails(q) \/ Hit(q)
           \/ QueueForAnalyzer(q) \/ Reply(q) \/ RecheckHit(q) \/ ReplyError(q)
  <2>1. /\ (\E answer : Return(q, answer)) \/ ReturnError(q)
        /\ UNCHANGED <<mode, frames, analyzer>>
    BY <1>3
       DEF BlockUrl, QueueUrl, NormalizeFails, Hit, QueueForAnalyzer, Reply,
           RecheckHit, ReplyError, Return, ReturnError, procVars
  <2>2. QED
    BY <1>1, <2>1 DEF Cur
<1>4. CASE \/ TakeFrames(q) \/ ExtractFails(q) \/ Normalize(q) \/ Miss(q)
           \/ AnalyzeFails(q) \/ RecheckMiss(q) \/ Analyze(q)
           \/ BackPopulate(q) \/ BackPopulateFails(q)
  BY <1>4 DEF TakeFrames, ExtractFails, Normalize, Miss, AnalyzeFails, RecheckMiss,
              Analyze, BackPopulate, BackPopulateFails, Move, Goto, Cur, TypeInv,
              TypeOK, procVars
<1>5. QED
  BY <1>2, <1>3, <1>4 DEF Step

LEMMA NextOnTheWay ==
    ASSUME DragonflyUp, TypeInv, Connected, NEW r \in Request, OnTheWay(r),
           [Next]_vars
    PROVE  OnTheWay(r)'
<1>1. CASE Submit(r) \/ Step(r)
  BY <1>1, StepOnTheWay
<1>2. ASSUME /\ pc'[r] = pc[r] /\ mode'[r] = mode[r] /\ resp'[r] = resp[r]
             /\ Cur(r)' = Cur(r) /\ analyzer' = analyzer
      PROVE  OnTheWay(r)'
  <2>1. CASE InCacheAndAsked(r)
    <3>1. Cur(r) \in Content
      BY <2>1, Labels DEF InCacheAndAsked, TypeInv, ControlOK
    <3>2. l1'[Cur(r)'] # None
      BY <1>2, <2>1, <3>1, L1Stays DEF InCacheAndAsked
    <3>3. QED
      BY <1>2, <2>1, <3>2 DEF OnTheWay, InCacheAndAsked
  <2>2. CASE ~InCacheAndAsked(r)
    BY <1>2, <2>2 DEF OnTheWay
  <2>3. QED
    BY <2>1, <2>2
<1>3. ASSUME NEW q \in Request \ {r}, Submit(q) \/ Step(q)
      PROVE  OnTheWay(r)'
  BY <1>2, <1>3, OtherStep
<1>4. CASE UNCHANGED <<reqVars, analyzer>>
  BY <1>2, <1>4 DEF Cur, reqVars
<1>5. CASE Restart
  <2>1. pc'[r] = IF pc[r] \in Running THEN "lost" ELSE pc[r]
    BY <1>5 DEF Restart
  <2>2. resp' = resp
    BY <1>5 DEF Restart
  <2>3. QED
    BY <2>1, <2>2, Labels DEF OnTheWay, InCacheAndAsked
<1>6. QED
  BY <1>1, <1>3, <1>4, <1>5
     DEF Next, Cancel, RunHook, Evict, Quiet, reqVars, procVars, vars

\* While Dragonfly is up and the caller waits, a content that is in L1 when it is
\* looked up, or by the time the analyzer is called for it, is answered with a
\* verdict or lost with the process: no failure of the analyzer or of the other
\* stores turns it into an ERROR (the cascade and lastChanceRecheck).
THEOREM CachedIsAnswered ==
    ASSUME DragonflyUp
    PROVE  Spec => CachedContentIsAnswered
<1> SUFFICES ASSUME NEW r \in Request
             PROVE  Spec => [](InCacheAndAsked(r) =>
                       [](pc[r] = "done" => resp[r].decision \in {"ALLOW", "BLOCK"}))
  BY DEF CachedContentIsAnswered, InCacheAndAsked
<1>1. Init => Connected
  BY DEF Init, Connected
<1>2. Connected /\ [Next]_vars => Connected'
  BY NextConnected
<1>3. InCacheAndAsked(r) => OnTheWay(r)
  BY DEF OnTheWay
<1>4. TypeInv /\ Connected /\ OnTheWay(r) /\ [Next]_vars => OnTheWay(r)'
  BY NextOnTheWay
<1>5. OnTheWay(r) => (pc[r] = "done" => resp[r].decision \in {"ALLOW", "BLOCK"})
  BY Labels DEF OnTheWay, InCacheAndAsked
<1>6. QED
  BY <1>1, <1>2, <1>3, <1>4, <1>5, TypeInvariant, PTL DEF Spec
=============================================================================
