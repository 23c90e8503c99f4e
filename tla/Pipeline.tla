------------------------------ MODULE Pipeline ------------------------------
(***************************************************************************)
(* The Engine's analysis pipeline, engine/pipeline/pipeline.go: concurrent *)
(* calls of Execute over two Dragonfly caches (L1 by content hash, L2 by   *)
(* perceptual hash), the Weaviate index (L3) and the AI analyzer, with the *)
(* hook goroutines each decision launches.                                 *)
(*                                                                         *)
(* A request is a process.  Every cache read, cache write and analyzer     *)
(* call is a step of its own, since other requests run between them.       *)
(* A content stands for the normalized pixels of an input, and so for its  *)
(* BLAKE3 hash, taken to be free of collisions.                            *)
(***************************************************************************)
EXTENDS Similarity, Sequences

CONSTANTS
    Request,      \* calls of Execute, each made at most once
    Content,      \* normalized pixel buffers
    Undecodable,  \* an input FFmpeg cannot decode
    PHashOf,      \* the perceptual hash of a content, as its set of one-bits
    Oracle,       \* what the analyzer may return for a content
    Extractions,  \* frame lists the frame extractor may return
    Hooks,        \* the configured hooks, of "audit", "decision", "quarantine"
    UrlChecker,   \* whether a URL reputation service is wired and enabled
    Frames,       \* whether frame extraction is wired and enabled
    Analyzers,    \* whether a process starts with an analyzer: of TRUE, FALSE
    Weaviate,     \* whether the L3 index is configured
    Faults,       \* what may go wrong, of FaultKinds
    MaxRestarts,  \* bound on process exits
    None          \* no value

FaultKinds ==
    {"L1", "L2", "L3", "normalizer", "analyzer", "client", "eviction"}

MaxFrames == 3

Input == Content \cup {Undecodable}
PHashes == {PHashOf[c] : c \in Content}
Level == {"L1", "L2", "L3"}

\* The v1.Decision enumeration.
Decision == {"UNSPECIFIED", "ALLOW", "QUEUED", "ERROR", "BLOCK"}

\* analyzer.ModerationResult: the flag, the flagged categories, the confidence.
Result == [flagged : BOOLEAN, categories : SUBSET STRING, conf : Nat]

\* What the pipeline calls a category; the empty one is left unset.
Harmful == {"sexual/minors", "violence", "harassment", "hate", "sexual"}
Category == {"", "safe", "url_malicious"} \cup Harmful

\* cache.CachedDecision, as it is stored and handed to the hooks.
Verdict == [decision : {"ALLOW", "BLOCK"}, category : Category, conf : Nat]

\* v1.AnalyzeResponse; degraded tells that degraded_confidence was set.
Response == [decision : Decision, category : Category, conf : Nat,
             level : Level \cup {"NONE"}, degraded : BOOLEAN]

\* One launched hook goroutine: the part is the frame index of the content.
Hook == [kind : Hooks, req : Request, part : Nat,
         content : Content, verdict : Verdict]

\* What executeFrameExtraction keeps between two frames.
Accumulator == [worst : Decision, category : Category, conf : Nat, any : BOOLEAN]

ASSUME PipelineAssumption ==
    /\ Undecodable \notin Content
    /\ PHashOf \in [Content -> SUBSET (0 .. 63)]
    /\ Oracle \in [Content -> SUBSET Result]
    /\ Extractions \subseteq Seq(Input)
    /\ \A list \in Extractions : Len(list) <= MaxFrames
    /\ Hooks \subseteq {"audit", "decision", "quarantine"}
    /\ {UrlChecker, Frames, Weaviate} \cup Analyzers \subseteq BOOLEAN
    /\ Faults \subseteq FaultKinds
    /\ MaxRestarts \in Nat
    /\ None \notin Verdict \cup Response

VARIABLES
    pc,        \* where each request stands
    mode,      \* "single": one content; "frames": the frames of a video
    frames,    \* the inputs a request analyzes, in order
    idx,       \* the one it is at
    acc,       \* the frame loop's accumulator
    hand,      \* the fresh verdict a request is storing
    resp,      \* the response Execute returned
    gone,      \* requests whose context is canceled
    analyzer,  \* whether this process has an analyzer
    l1, l2, l3,
    verdicts,  \* history: what the analyzer said of which content
    fired,     \* history: hook goroutines launched
    ran,       \* hook goroutines that ran to their end
    dropped,   \* hook goroutines a process exit killed
    restarts   \* process exits so far

reqVars == <<pc, mode, frames, idx, acc, hand, resp>>
cacheVars == <<l1, l2, l3>>
hookVars == <<fired, ran, dropped>>
procVars == <<analyzer, restarts>>
vars == <<reqVars, gone, cacheVars, verdicts, hookVars, procVars>>

Final == {"done", "failed", "lost"}
Lookup == {"L1", "L2", "L3"}
Recheck == {"reL1", "reL2", "reL3"}
Store == {"setL1", "setL2", "setL3"}
Running == {"url", "extract", "norm", "analyze", "reply", "error"}
           \cup Lookup \cup Recheck \cup Store

LevelOf == [L1 |-> "L1", L2 |-> "L2", L3 |-> "L3",
            reL1 |-> "L1", reL2 |-> "L2", reL3 |-> "L3",
            setL1 |-> "L1", setL2 |-> "L2", setL3 |-> "L3"]
\* Mutant: storing stops after L1.
FollowingFirstStore ==
    [L1 |-> "L2", L2 |-> "L3", L3 |-> "analyze",
     reL1 |-> "reL2", reL2 |-> "reL3", reL3 |-> "error", setL1 |-> "reply"]

\* Mutant: the recheck goes back to the analyzer for as long as it fails.
FollowingRetry ==
    [L1 |-> "L2", L2 |-> "L3", L3 |-> "analyze",
     reL1 |-> "reL2", reL2 |-> "reL3", reL3 |-> "analyze",
     setL1 |-> "setL2", setL2 |-> "setL3", setL3 |-> "reply"]

Following == [L1 |-> "L2", L2 |-> "L3", L3 |-> "analyze",
              reL1 |-> "reL2", reL2 |-> "reL3", reL3 |-> "error",
              setL1 |-> "setL2", setL2 |-> "setL3", setL3 |-> "reply"]

NewAccumulator ==
    [worst |-> "UNSPECIFIED", category |-> "", conf |-> 0, any |-> FALSE]

Init ==
    /\ pc = [r \in Request |-> "idle"]
    /\ mode = [r \in Request |-> "single"]
    /\ frames = [r \in Request |-> <<>>]
    /\ idx = [r \in Request |-> 1]
    /\ acc = [r \in Request |-> NewAccumulator]
    /\ hand = [r \in Request |-> None]
    /\ resp = [r \in Request |-> None]
    /\ gone = {}
    /\ l1 = [c \in Content |-> None]
    /\ l2 = [p \in PHashes |-> None]
    /\ l3 = [c \in Content |-> None]
    /\ verdicts = {}
    /\ fired = {} /\ ran = {} /\ dropped = {}
    /\ analyzer \in Analyzers
    /\ restarts = 0

Cur(r) == frames[r][idx[r]]
Goto(r, label) == pc' = [pc EXCEPT ![r] = label]
-----------------------------------------------------------------------------
(* From the analyzer's result to a cached decision and a response.         *)

DecisionFromBool(flagged) == IF flagged THEN "BLOCK" ELSE "ALLOW"

\* The order of dominantCategory, spelt as in the code.
Priority == <<"sexual/minors", "violence", "harassment", "hate", "sexual">>

DominantCategory(categories) ==
    LET found == {i \in 1 .. 5 : Priority[i] \in categories}
    IN  IF found = {} THEN "safe"
        ELSE Priority[CHOOSE i \in found : \A j \in found : i <= j]

Judge(result) == [decision |-> DecisionFromBool(result.flagged),
                  category |-> DominantCategory(result.categories),
                  conf     |-> result.conf]

BuildResponse(v, level, degraded) ==
    [decision |-> v.decision, category |-> v.category, conf |-> v.conf,
     level |-> level, degraded |-> degraded]

\* A response no analysis stands behind.
Bare(decision, category, conf) ==
    [decision |-> decision, category |-> category, conf |-> conf,
     level |-> "NONE", degraded |-> FALSE]

Severity == [UNSPECIFIED |-> 0, ALLOW |-> 1, QUEUED |-> 2, ERROR |-> 3,
             BLOCK |-> 4]

\* Mutant: severity is the number of the enumeration.
IsMoreSevereByNumber(new, current) ==
    LET number == [UNSPECIFIED |-> 0, ALLOW |-> 1, BLOCK |-> 2, QUEUED |-> 3,
                   ERROR |-> 4]
    IN  number[new] > number[current]

IsMoreSevere(new, current) == Severity[new] > Severity[current]

\* The body of the frame loop for a frame that was analyzed.
Merge(a, answer) ==
    LET worse == IsMoreSevere(answer.decision, a.worst)
    IN  [worst    |-> IF worse THEN answer.decision ELSE a.worst,
         category |-> IF worse THEN answer.category ELSE a.category,
         conf     |-> IF answer.conf > a.conf THEN answer.conf ELSE a.conf,
         any      |-> TRUE]

Aggregate(a) ==
    IF a.any THEN Bare(a.worst, a.category, a.conf) ELSE Bare("ERROR", "", 0)

\* Mutant: what the client does not know is left unset.
DecisionFromStringUnset(d) ==
    IF d \in {"BLOCK", "QUEUED", "ERROR"} THEN d ELSE "UNSPECIFIED"

\* The weaviate client reads a decision back from its name: what it does not
\* know is ALLOW.
DecisionFromString(d) == IF d \in {"BLOCK", "QUEUED", "ERROR"} THEN d ELSE "ALLOW"
-----------------------------------------------------------------------------
(* The three levels.  A lookup yields one of a set of possible verdicts.   *)

\* Mutant: the scan keeps every stored hash.
NearAny(p) == {q \in PHashes : l2[q] # None}

\* The scan sorts the stored hashes near p; the nearest is first, ties fall
\* anywhere.
Near(p) == {q \in PHashes : l2[q] # None /\ L2Match(p, q)}
Nearest(p) == {q \in Near(p) : \A o \in Near(p) : Hamming(p, q) <= Hamming(p, o)}

\* Mutant: the query sets no certainty.
IndexedAny(p) == {c \in Content : l3[c] # None}

\* The index search is approximate: any object above the bound may come back.
Indexed(p) == {c \in Content : l3[c] # None /\ L3Match(PHashOf[c], p)}

\* It skips the keys it fails to read and returns what it has when it is cut
\* short: then any stored hash near p may be first.
Scanned(p) == IF "L2" \in Faults THEN Near(p) ELSE Nearest(p)

Found(level, c) ==
    CASE level = "L1" -> {l1[c]} \ {None}
      [] level = "L2" -> {l2[q] : q \in Scanned(PHashOf[c])}
      [] level = "L3" -> {[l3[o] EXCEPT !.decision = DecisionFromString(@)] :
                              o \in Indexed(PHashOf[c])}

\* A canceled context fails every call made with it.
MayFail(r, what) == r \in gone \/ what \in Faults

\* A Set of L1 or L2 overwrites; the index answers 422 to an object it has,
\* which IndexDecision takes for success, so its first write stays.
Put(level, c, v) ==
    /\ l1' = IF level = "L1" THEN [l1 EXCEPT ![c] = v] ELSE l1
    /\ l2' = IF level = "L2" THEN [l2 EXCEPT ![PHashOf[c]] = v] ELSE l2
    /\ l3' = IF level = "L3" /\ Weaviate /\ l3[c] = None
             THEN [l3 EXCEPT ![c] = v] ELSE l3
-----------------------------------------------------------------------------
(* Leaving executeStandard: to the caller, or to the frame loop.           *)

NextFrame(r, a) ==
    /\ acc' = [acc EXCEPT ![r] = a]
    /\ \/ /\ idx[r] < Len(frames[r])
          /\ idx' = [idx EXCEPT ![r] = @ + 1]
          /\ Goto(r, "norm")
          /\ UNCHANGED resp
       \/ /\ idx[r] >= Len(frames[r])
          /\ resp' = [resp EXCEPT ![r] = Aggregate(a)]
          /\ Goto(r, "done")
          /\ UNCHANGED idx

Return(r, answer) ==
    /\ \/ /\ mode[r] = "single"
          /\ resp' = [resp EXCEPT ![r] = answer]
          /\ Goto(r, "done")
          /\ UNCHANGED <<idx, acc>>
       \/ /\ mode[r] = "frames"
          /\ NextFrame(r, Merge(acc[r], answer))
    /\ UNCHANGED <<mode, frames, hand>>

\* An error return: Execute fails, the frame loop skips the frame.
ReturnError(r) ==
    /\ \/ mode[r] = "single" /\ Goto(r, "failed") /\ UNCHANGED <<idx, acc, resp>>
       \/ mode[r] = "frames" /\ NextFrame(r, acc[r])
    /\ UNCHANGED <<mode, frames, hand>>

\* Mutant: ALLOW is not worth a hook.
FireHooksOfBlocks(r, v) ==
    /\ fired' = fired \cup {[kind |-> k, req |-> r, part |-> idx[r],
                             content |-> Cur(r), verdict |-> v] :
                               k \in {h \in Hooks : v.decision = "BLOCK"}}
    /\ UNCHANGED <<ran, dropped>>

\* fireHooks: one detached goroutine per configured hook.
FireHooks(r, v) ==
    /\ fired' = fired \cup {[kind |-> k, req |-> r, part |-> idx[r],
                             content |-> Cur(r), verdict |-> v] : k \in Hooks}
    /\ UNCHANGED <<ran, dropped>>

\* A step of a request that only moves it on.
Move(r, label) ==
    /\ Goto(r, label)
    /\ UNCHANGED <<mode, frames, idx, acc, hand, resp>>
-----------------------------------------------------------------------------
(* Execute, up to executeStandard.                                         *)

SubmitContent(r, input) ==
    /\ pc[r] = "idle"
    /\ frames' = [frames EXCEPT ![r] = <<input>>]
    /\ Goto(r, "norm")
    /\ UNCHANGED <<mode, idx, acc, hand, resp, gone, cacheVars, verdicts,
                   hookVars, procVars>>

SubmitUrl(r) ==
    /\ pc[r] = "idle"
    /\ Move(r, "url")
    /\ UNCHANGED <<gone, cacheVars, verdicts, hookVars, procVars>>

\* CheckURL returned an error: a verdict of the service, or its failure.
BlockUrl(r) ==
    /\ pc[r] = "url" /\ UrlChecker
    /\ Return(r, Bare("BLOCK", "url_malicious", 1))
    /\ UNCHANGED <<gone, cacheVars, verdicts, hookVars, procVars>>

\* CheckURL passed the URL, which a canceled context does not let it do.
UrlPassed(r) == pc[r] = "url" /\ ~(UrlChecker /\ r \in gone)

\* A YouTube URL with a timestamp, with extraction wired.
TakeFrames(r) ==
    /\ UrlPassed(r) /\ Frames
    /\ Move(r, "extract")
    /\ UNCHANGED <<gone, cacheVars, verdicts, hookVars, procVars>>

QueueUrl(r) ==
    /\ UrlPassed(r)
    /\ Return(r, Bare("QUEUED", "", 0))
    /\ UNCHANGED <<gone, cacheVars, verdicts, hookVars, procVars>>

\* No frame at all sends the bytes of the URL down the standard path.
Extract(r, list) ==
    /\ pc[r] = "extract" /\ r \notin gone
    /\ Goto(r, "norm")
    /\ \/ /\ list = <<>>
          /\ frames' = [frames EXCEPT ![r] = <<Undecodable>>]
          /\ UNCHANGED mode
       \/ /\ list # <<>>
          /\ frames' = [frames EXCEPT ![r] = list]
          /\ mode' = [mode EXCEPT ![r] = "frames"]
    /\ UNCHANGED <<idx, acc, hand, resp, gone, cacheVars, verdicts, hookVars,
                   procVars>>

ExtractFails(r) ==
    /\ pc[r] = "extract" /\ MayFail(r, "normalizer")
    /\ Move(r, "failed")
    /\ UNCHANGED <<gone, cacheVars, verdicts, hookVars, procVars>>
-----------------------------------------------------------------------------
(* executeStandard.                                                        *)

Normalize(r) ==
    /\ pc[r] = "norm" /\ Cur(r) # Undecodable /\ r \notin gone
    /\ Move(r, "L1")
    /\ UNCHANGED <<gone, cacheVars, verdicts, hookVars, procVars>>

NormalizeFails(r) ==
    /\ pc[r] = "norm"
    /\ Cur(r) = Undecodable \/ MayFail(r, "normalizer")
    /\ ReturnError(r)
    /\ UNCHANGED <<gone, cacheVars, verdicts, hookVars, procVars>>

\* Mutant: a hit is promoted to L1 under the hash of the asking content.
HitPromoting(r) ==
    /\ pc[r] \in Lookup /\ r \notin gone
    /\ \E v \in Found(LevelOf[pc[r]], Cur(r)) :
         /\ FireHooks(r, v)
         /\ Return(r, BuildResponse(v, LevelOf[pc[r]], FALSE))
         /\ l1' = [l1 EXCEPT ![Cur(r)] = v]
    /\ UNCHANGED <<gone, l2, l3, verdicts, procVars>>

Hit(r) ==
    /\ pc[r] \in Lookup /\ r \notin gone
    /\ \E v \in Found(LevelOf[pc[r]], Cur(r)) :
         /\ FireHooks(r, v)
         /\ Return(r, BuildResponse(v, LevelOf[pc[r]], FALSE))
    /\ UNCHANGED <<gone, cacheVars, verdicts, procVars>>

\* A failed read counts as a miss, at every level.
Miss(r) ==
    /\ pc[r] \in Lookup
    /\ \/ Found(LevelOf[pc[r]], Cur(r)) = {}
       \/ MayFail(r, LevelOf[pc[r]])
    /\ Move(r, Following[pc[r]])
    /\ UNCHANGED <<gone, cacheVars, verdicts, hookVars, procVars>>

QueueForAnalyzer(r) ==
    /\ pc[r] = "analyze" /\ ~analyzer
    /\ Return(r, Bare("QUEUED", "", 0))
    /\ UNCHANGED <<gone, cacheVars, verdicts, hookVars, procVars>>

Analyze(r) ==
    /\ pc[r] = "analyze" /\ analyzer /\ r \notin gone
    /\ \E result \in Oracle[Cur(r)] :
         /\ hand' = [hand EXCEPT ![r] = Judge(result)]
         /\ verdicts' = verdicts \cup {<<Cur(r), Judge(result)>>}
    /\ Goto(r, "setL1")
    /\ UNCHANGED <<mode, frames, idx, acc, resp, gone, cacheVars, hookVars,
                   procVars>>

\* Mutant: a failed analysis is an error at once.
AnalyzeFailsOutright(r) ==
    /\ pc[r] = "analyze" /\ analyzer /\ MayFail(r, "analyzer")
    /\ Move(r, "error")
    /\ UNCHANGED <<gone, cacheVars, verdicts, hookVars, procVars>>

AnalyzeFails(r) ==
    /\ pc[r] = "analyze" /\ analyzer /\ MayFail(r, "analyzer")
    /\ Move(r, "reL1")
    /\ UNCHANGED <<gone, cacheVars, verdicts, hookVars, procVars>>

BackPopulate(r) ==
    /\ pc[r] \in Store /\ r \notin gone
    /\ Put(LevelOf[pc[r]], Cur(r), hand[r])
    /\ Move(r, Following[pc[r]])
    /\ UNCHANGED <<gone, verdicts, hookVars, procVars>>

BackPopulateFails(r) ==
    /\ pc[r] \in Store /\ MayFail(r, LevelOf[pc[r]])
    /\ Move(r, Following[pc[r]])
    /\ UNCHANGED <<gone, cacheVars, verdicts, hookVars, procVars>>

Reply(r) ==
    /\ pc[r] = "reply"
    /\ FireHooks(r, hand[r])
    /\ Return(r, BuildResponse(hand[r], "NONE", FALSE))
    /\ UNCHANGED <<gone, cacheVars, verdicts, procVars>>

\* lastChanceRecheck: a hit here fires no hook.
RecheckHit(r) ==
    /\ pc[r] \in Recheck /\ r \notin gone
    /\ \E v \in Found(LevelOf[pc[r]], Cur(r)) :
         Return(r, BuildResponse(v, LevelOf[pc[r]], TRUE))
    /\ UNCHANGED <<gone, cacheVars, verdicts, hookVars, procVars>>

RecheckMiss(r) ==
    /\ pc[r] \in Recheck
    /\ \/ Found(LevelOf[pc[r]], Cur(r)) = {}
       \/ MayFail(r, LevelOf[pc[r]])
    /\ Move(r, Following[pc[r]])
    /\ UNCHANGED <<gone, cacheVars, verdicts, hookVars, procVars>>

ReplyError(r) ==
    /\ pc[r] = "error"
    /\ Return(r, Bare("ERROR", "", 0))
    /\ UNCHANGED <<gone, cacheVars, verdicts, hookVars, procVars>>
-----------------------------------------------------------------------------
(* Around the requests.                                                    *)

\* The goroutine of a hook gets to its end; it has no deadline to get there by.
RunHook(r, k) ==
    /\ \E h \in fired \ (ran \cup dropped) :
         /\ h.req = r /\ h.kind = k
         /\ ran' = ran \cup {h}
    /\ UNCHANGED <<reqVars, gone, cacheVars, verdicts, fired, dropped, procVars>>

\* The caller disconnects or its deadline passes.
Cancel(r) ==
    /\ "client" \in Faults
    /\ pc[r] \in Running /\ r \notin gone
    /\ gone' = gone \cup {r}
    /\ UNCHANGED <<reqVars, cacheVars, verdicts, hookVars, procVars>>

\* Dragonfly runs with --cache_mode=true: a full store evicts.
Evict(c) ==
    /\ "eviction" \in Faults
    /\ \/ l1' = [l1 EXCEPT ![c] = None] /\ UNCHANGED l2
       \/ l2' = [l2 EXCEPT ![PHashOf[c]] = None] /\ UNCHANGED l1
    /\ UNCHANGED <<reqVars, gone, l3, verdicts, hookVars, procVars>>

\* The process exits and starts again: after a signal main waits at most 15
\* seconds for requests and not at all for hooks.
Restart ==
    /\ restarts < MaxRestarts
    /\ restarts' = restarts + 1
    /\ analyzer' \in Analyzers
    /\ pc' = [r \in Request |-> IF pc[r] \in Running THEN "lost" ELSE pc[r]]
    /\ dropped' = fired \ ran
    /\ UNCHANGED <<mode, frames, idx, acc, hand, resp, gone, cacheVars,
                   verdicts, fired, ran>>

\* Every request is over and no goroutine is left.
Quiet ==
    /\ \A r \in Request : pc[r] \in Final
    /\ fired = ran \cup dropped
    /\ UNCHANGED vars

Submit(r) == SubmitUrl(r) \/ \E input \in Input : SubmitContent(r, input)

\* The steps the goroutine of a request takes on its own.
Step(r) ==
    \/ BlockUrl(r) \/ TakeFrames(r) \/ QueueUrl(r)
    \/ ExtractFails(r) \/ \E list \in Extractions : Extract(r, list)
    \/ Normalize(r) \/ NormalizeFails(r)
    \/ Hit(r) \/ Miss(r)
    \/ QueueForAnalyzer(r) \/ Analyze(r) \/ AnalyzeFails(r)
    \/ BackPopulate(r) \/ BackPopulateFails(r) \/ Reply(r)
    \/ RecheckHit(r) \/ RecheckMiss(r) \/ ReplyError(r)

Next ==
    \/ \E r \in Request : Submit(r) \/ Step(r) \/ Cancel(r)
    \/ \E r \in Request, k \in Hooks : RunHook(r, k)
    \/ \E c \in Content : Evict(c)
    \/ Restart
    \/ Quiet

Spec == Init /\ [][Next]_vars

\* A request's goroutine is scheduled and its calls return.  Of the hooks nothing
\* is assumed.
Fairness == \A r \in Request : WF_vars(Step(r))

FairSpec == Spec /\ Fairness
-----------------------------------------------------------------------------
(* Invariants.                                                             *)

\* The shape of every variable, and where the frame index points.
TypeOK ==
    /\ pc \in [Request -> Running \cup Final \cup {"idle"}]
    /\ mode \in [Request -> {"single", "frames"}]
    /\ frames \in [Request -> Seq(Input)]
    /\ idx \in [Request -> Nat \ {0}]
    /\ acc \in [Request -> Accumulator]
    /\ hand \in [Request -> Verdict \cup {None}]
    /\ resp \in [Request -> Response \cup {None}]
    /\ gone \subseteq Request
    /\ l1 \in [Content -> Verdict \cup {None}]
    /\ l2 \in [PHashes -> Verdict \cup {None}]
    /\ l3 \in [Content -> Verdict \cup {None}]
    /\ verdicts \subseteq Content \X Verdict
    /\ fired \subseteq Hook /\ ran \subseteq fired /\ dropped \subseteq fired
    /\ analyzer \in BOOLEAN /\ restarts \in 0 .. MaxRestarts

\* A verdict on content o may be served for content c at this level.
Reaches(level, o, c) ==
    \/ level \in {"NONE", "L1"} /\ o = c
    \/ level = "L2" /\ L2Match(PHashOf[c], PHashOf[o])
    \/ level = "L3" /\ L3Match(PHashOf[o], PHashOf[c])

Supported(v, level, c) ==
    \E p \in verdicts : p[2] = v /\ Reaches(level, p[1], c)

VerdictOf(answer) == [decision |-> answer.decision,
                      category |-> answer.category, conf |-> answer.conf]

\* A video's decision and category are those of one of its frames.
FrameSupports(r, decision, category) ==
    \E i \in DOMAIN frames[r], level \in Level \cup {"NONE"}, p \in verdicts :
       /\ frames[r][i] \in Content
       /\ Supported(p[2], level, frames[r][i])
       /\ p[2].decision = decision /\ p[2].category = category

\* No cache level holds a verdict the analyzer did not give: on the very
\* content for L1 and L3, on a content with that perceptual hash for L2.  In
\* particular QUEUED and ERROR are never cached (backPopulate, lines 302-329).
CacheProvenance ==
    /\ \A c \in Content : l1[c] # None => <<c, l1[c]>> \in verdicts
    /\ \A q \in PHashes : l2[q] # None =>
          \E c \in Content : PHashOf[c] = q /\ <<c, l2[q]>> \in verdicts
    /\ \A c \in Content : l3[c] # None => <<c, l3[c]>> \in verdicts

\* Every ALLOW or BLOCK a caller sees, fresh, cached or degraded, is a verdict
\* the analyzer gave on content similar enough for the level that answered;
\* only the URL gate blocks without one (Execute, lines 173-239, and
\* executeStandard, lines 548-676).
AnswerProvenance ==
    \A r \in Request :
       (resp[r] # None /\ frames[r] # <<>>
          /\ resp[r].decision \in {"ALLOW", "BLOCK"}) =>
         \/ /\ mode[r] = "single" /\ Cur(r) \in Content
            /\ Supported(VerdictOf(resp[r]), resp[r].level, Cur(r))
         \/ /\ mode[r] = "frames"
            /\ FrameSupports(r, resp[r].decision, resp[r].category)

\* Hooks and answers tell one story: the hooks of one part of a request carry
\* one verdict, a single answer that was not degraded has exactly the
\* configured hooks behind it, with its own verdict, and any other answer has
\* none (fireHooks, lines 365-405, and its three callers).
HooksMatchAnswers ==
    /\ \A g, h \in fired : (g.req = h.req /\ g.part = h.part) =>
          g.verdict = h.verdict /\ g.content = h.content
    /\ \A r \in Request : (pc[r] = "done" /\ mode[r] = "single") =>
          LET mine == {h \in fired : h.req = r}
          IN  IF /\ frames[r] # <<>> /\ ~resp[r].degraded
                 /\ resp[r].decision \in {"ALLOW", "BLOCK"}
              THEN /\ {h.kind : h \in mine} = Hooks
                   /\ \A h \in mine : h.verdict = VerdictOf(resp[r])
              ELSE mine = {}

\* A video one of whose frames was reported to the hooks as BLOCK is not
\* answered with anything milder, whatever the other frames and failures
\* (executeFrameExtraction, lines 485-543, and isMoreSevere).
BlockedFrameBlocksVideo ==
    \A h \in fired :
       (pc[h.req] = "done" /\ h.verdict.decision = "BLOCK") =>
         resp[h.req].decision = "BLOCK"

\* While the stores are up and nothing evicts, every verdict that reached L1
\* reaches L2 and L3 too, but for the requests that are still storing theirs
\* or whose process exited (backPopulate, lines 302-329).
LevelsFilledTogether ==
    Faults \subseteq {"normalizer", "analyzer"} => \A c \in Content :
       l1[c] # None =>
         \/ l2[PHashOf[c]] # None /\ (l3[c] # None \/ ~Weaviate)
         \/ \E r \in Request : \/ pc[r] \in Store /\ Cur(r) = c
                               \/ pc[r] = "lost"

\* audit.go, lines 22-23: every moderation decision in the pipeline emits an
\* audit event.  The answers of lastChanceRecheck (lines 640-648) emit none.
EveryDecisionAudited ==
    \A r \in Request :
       (pc[r] = "done" /\ mode[r] = "single" /\ resp[r].decision \in {"ALLOW", "BLOCK"})
          => \E h \in fired : h.req = r /\ h.kind = "audit"

\* pipeline.go, lines 339-340: dominantCategory says "safe" when nothing was
\* flagged.  Of "sexual_minors", as the classifier's configuration spells it,
\* and of "self_harm" it says "safe" too.
BlockedIsNotSafe ==
    \A p \in verdicts : p[2].decision = "BLOCK" => p[2].category # "safe"
-----------------------------------------------------------------------------
(* Temporal properties.                                                    *)

\* A content that is in L1 when its request is looked up, or by the time the
\* analyzer is called for it, is answered with a verdict even if the analyzer
\* fails: neither the cascade nor lastChanceRecheck (lines 241-298) can lose it
\* while Dragonfly is up.
CachedContentIsAnswered ==
    \A r \in Request :
       []( (/\ pc[r] \in {"L1", "reL1"} \/ (pc[r] = "analyze" /\ analyzer)
            /\ mode[r] = "single" /\ l1[Cur(r)] # None)
           => [](pc[r] = "done" => resp[r].decision \in {"ALLOW", "BLOCK"}) )

\* Every call of Execute that started ends: with a response, with an error, or
\* with the process.
EveryRequestEnds ==
    \A r \in Request : pc[r] \in Running ~> pc[r] \in Final
=============================================================================
