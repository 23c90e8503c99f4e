# AurelioMod in TLA+

A verification project for AurelioMod, a content moderation service in Go:
modules that model its concurrent core, TLC configurations that check them on
small instances, and proofs checked by TLAPS.  Every definition follows the
source; `PROJECT.json` maps each one to its lines.

## The system

AurelioMod moderates what users of chat platforms post.  A Discord bot (the
*Edge*) receives messages, asks the *Control API* for quota and the *Engine* for
a decision, and deletes what is blocked.  The Engine answers from three cache
levels or from the *Inference service*.

| component | state | operations | interacts with |
|---|---|---|---|
| Pipeline (`engine/pipeline`) | none of its own but the count of hook goroutines | `Execute`: URL gate, frame loop, `executeStandard` (normalize, L1, L2, L3, analyzer, back-populate, hooks), `lastChanceRecheck` | caches, index, analyzer, hooks |
| L1, L2 (`internal/cache`, Dragonfly with `--cache_mode=true`) | decision by content hash; decision by perceptual hash | get, set, scan by Hamming distance; eviction | pipeline |
| L3 (`internal/weaviate`) | objects by content hash with a 0/1 vector | approximate `SearchSimilar`, `IndexDecision` (first write stays) | pipeline |
| Hashing, normalization, media (`engine/hasher`, `engine/media`, yt-dlp sidecar) | none | FFmpeg and yt-dlp subprocesses, BLAKE3, dHash, MIME check | pipeline |
| URL safety (`engine/safety`) | verdict cache with TTL | `CheckURL`, failing closed | pipeline |
| Inference client (`engine/analyzer`) | circuit breaker | three attempts per call, breaker around them | pipeline, Inference service |
| Inference service (`inference`) | configuration, categories, text embeddings, Triton client | `Classify`; `Reload` on SIGHUP | Triton |
| Quarantine (`engine/quarantine`) | state per content in Dragonfly, 24 h TTL | `Quarantine`, `UpdateStatus`, both get-then-set | pipeline hook |
| Audit (`engine/audit`) | shared error tracker | `Emit` to slog, Neon, R2 | pipeline hook |
| NATS (`engine/nats`, `internal/nats`) | stream | publish decisions, analysis jobs | pipeline hook |
| Engine service, auth, shutdown (`engine/service`, `internal/auth`, `cmd/engine`) | token keys; one-shot readiness result | `Analyze`, interceptor, signal handling | pipeline |
| Discord Edge (`cmd/edge-discord`, `edge/discord`) | breaker, rate limiter | message handling, enforcement, commands | Control API, Engine, Discord |
| Control API (`control/api`) | Postgres: workspaces, decisions, appeals, MFA | quota, stats, appeals, MFA enrollment and verification | Edge, dashboard |
| Billing (`control/billing`) | plan and Stripe ids of a workspace | checkout, webhooks handled after the 200 | Stripe |

The hard behaviours are: many requests sharing caches without any lock; three
stores written one after the other, each of which may fail or evict; the
analyzer failing while other requests succeed; hooks outliving their request and
dying with the process; a frame loop that must not lose a bad frame;
get-then-set updates of shared state (quarantine, appeals, MFA); events handled
out of order (billing); configuration replaced under running calls (inference).

What makes each component correct: the pipeline answers only with what the
analyzer said of similar content, tells the hooks what it answered, and always
ends; the caches never hold anything else; the quarantine never leaves a
terminal state; the breaker opens, probes and closes as configured; a quota is
never overrun, and counts what was asked for, a failed analysis included; a blocked
message disappears with its notice and its audit record; a recovery code works
once; a workspace is on the plan its customer pays for.  Where the code keeps one
of these with reserves only, the property says which, or a run shows the exception.

## The modules

The pipeline and its data:

* `Similarity`: when two perceptual hashes count as one picture, at L2 (Hamming
  distance at most 5) and at L3 (Weaviate's certainty of 0.92).  A hash is the
  set of its one-bits, and the bound is kept in the integers: for 0/1 vectors
  certainty is (1 + cosine) / 2 and the cosine is i / sqrt(m n).
* `Pipeline`: concurrent calls of `Execute`.  A request is a process with a
  label `pc`; every cache read, cache write and analyzer call is a step, because
  other requests run in between.  `frames` and `idx` hold the inputs of a request
  (one for plain content), `acc` the loop's running result, `hand` the fresh
  verdict being stored, `resp` the response.  `l1`, `l2`, `l3` are the stores.
  `verdicts` and `fired` are history variables: what the analyzer said, which
  hook goroutines were launched.
* `Moderation`: what the Engine promises, without caches: requests ask about
  contents, contents are judged, and an ALLOW or BLOCK rests on an earlier
  judgement of a content alike to one asked about; answers are never taken back.
* `PipelineRefinement`: the mapping under which `Pipeline` implements
  `Moderation`.
* `PipelineProofs`, `AnswerProofs`, `RefinementProofs`, `SimilarityProofs`:
  theorems about them and about `Scoring`.

Around the pipeline:

* `UrlSafety`: `CheckURL` of one URL, as three steps of each concurrent check:
  read the cache, ask Web Risk, write the cache.
* `Quarantine`: the calls of `Quarantine` and `UpdateStatus` on shared entries, a
  get and a set each, with failures and expiry.
* `AuditEmitter`: concurrent calls of `Emit` over the shared `errorTracker`.
* `Hooks`: an answer launches an update and an audit event (`FireHooks`), and a
  stop of the Engine cuts both off.
* `HooksProofs`: theorems about the four.

The analyzer behind the pipeline:

* `InferenceClient`: `Analyze` through the circuit breaker and `analyzeWithRetry`.
* `Inference`: `InferenceServer`, with `Classify` reading fields that `Reload`
  replaces under a lock that not all reads take: the length of the `input_ids`, the
  Triton client and the version a response names are read outside it.  The data of
  a field is the load it comes from and how many prompts that load had.
* `InferenceSystem`: the two joined by calls (`InferenceRPC`), so that a service
  that reloads, panics, crashes or answers late is what the breaker sees.
* `Scoring`: the pure part of a classification, from the scores of the prompts to
  the verdict the client hands to the pipeline, with scores kept by the name of a
  category and rounded to a float32 before a threshold is compared with them.
* `InferenceProofs`: theorems about `InferenceSystem`.

The platforms and the control plane:

* `Edge`: bots of one workspace, each a goroutine that handles one gateway event
  after the other: rate limiter, download, quota, Engine behind a breaker,
  `EnforceDecision`.
* `Quota`: the conditional UPDATE of `HandleConsume`, used by `Edge`.
* `Billing`: Stripe, which sells, and posts a completed checkout and updates in
  whatever order, and the webhook handler.
* `Mfa`: `ConfirmEnrollment`, `Verify` and `Disable`, one action per statement.
* `Appeals`: `HandleSubmit`, one action per query.
* `Decisions`: a client that walks `HandleListDecisions` page by page.
* `Control`: these four beside each other; `New` registers the routes of the last
  three, `cmd/control/main.go` those of `Billing`.
* `EdgeProofs`, `ControlProofs`: theorems about them.

`MCPipeline`, `MCSimilarity`, `MCInference`, `MCEdge`, `MCHooks` and `MCControl`
are the instances for TLC.  Components that share no state are explored in one
run, each while the others rest: the variable `part` says which.

### Pipeline

| label | code (`engine/pipeline/pipeline.go`) | actions |
|---|---|---|
| `url` | the gates of `Execute`, 188-236 | `BlockUrl`, `TakeFrames`, `QueueUrl` |
| `extract` | the frame extractor, 462-482 | `Extract`, `ExtractFails` |
| `norm` | `Normalize` and hashing, 551-558 | `Normalize`, `NormalizeFails` |
| `L1`, `L2`, `L3` | the cascade, 560-614 | `Hit`, `Miss` |
| `analyze` | 616-656 | `QueueForAnalyzer`, `Analyze`, `AnalyzeFails` |
| `setL1`, `setL2`, `setL3` | `backPopulate`, 302-329 | `BackPopulate`, `BackPopulateFails` |
| `reply` | hooks and response, 665-676 | `Reply` |
| `reL1`, `reL2`, `reL3`, `error` | `lastChanceRecheck`, 248-298 | `RecheckHit`, `RecheckMiss`, `ReplyError` |

Leaving `executeStandard` is `Return` or `ReturnError`: to the caller, or back
into the frame loop, which merges the answer and goes on to the next frame.
Around the requests, `Cancel` is a caller that disconnects or times out, `Evict`
a full Dragonfly, `Restart` a process exit that loses requests and hooks, and
`RunHook` one hook goroutine.

Abstractions.  A content stands for normalized pixels and for their BLAKE3 hash;
collisions are ruled out.  A confidence is a small number.  The L2 scan is one
step; where reads of L2 may fail it returns any stored hash within the distance,
not only the nearest, which also covers a scan that other requests write into.
A verdict passes the index by its name and comes back through
`decisionFromString`.  The cache key does not contain the workspace, so requests
have none.  Texts, timings and telemetry are left out.

### Inference

| state | code | actions |
|---|---|---|
| `state`, `expired`, `counts`, `counted` | the breaker of `NewInferenceClient`, `inference_client.go` 57-117, and gobreaker (external) | `Admit`, `Late`, `Succeeded`, `Failed`, `Expire` |
| `call`, `attempt` | `Analyze`, `analyzeWithRetry`, 127-204 | `Analyze`, `Refuse`, `Send`, `Receive`, `Retry`, `GiveUp` |
| `server`, `reload`, `stale` | `InferenceServer`, `Reload`, `server/handler.go` 24-130 | `Sighup`, `Replace`, `Embed`, `EmbedPanics`, `Start` |
| `stage`, `snap` | `Classify`, 132-237 | `Accept`, `Snapshot`, `ImageEmbeds`, `Score`, `Respond` |
| `cats`, `frames`, `aggScores`, `result` | `classifier.Classify`, the loop of 185-218, `convertClassifyResponse` | `ScoreFrame`, `Respond` |

Time is the flag `expired`: the breaker's present period, 60 seconds of counting
or 15 of being open, has run out; gobreaker notices when a call begins or ends.
Generations have no number: `counted` is the set of calls that count for the
present one.  A read outside the lock sees each field before or after its
replacement; `snap` keeps what each of them saw.  What is left out of a
classification is the tensor arithmetic: a score is a small number per prompt and
frame, and `Single`, a monotone function on scores, is the rounding of a float64 to
the float32 the scores of a call are kept in.  (`Respond` is an action of two
modules: of `Inference`, the read of the version; of `Scoring`, the verdict.)

### Edge

| label | code (`cmd/edge-discord/main.go`) | actions |
|---|---|---|
| `idle` | the listener, 158-162, and `OnMessageCreate` | `TakeEvent`, `Moderate` |
| `limit` | `limiter.Wait`, the gate of attachments, 249-295 | `TakeToken`, `DropEvent` |
| `download` | the attempts at an attachment, 296-338 | `Download` |
| `consume` | 348-359, `PlanClient.Consume` | `Consume` |
| `analyze` | 361-369, the client's breaker | `Analyze`, `AnalysisFails` |
| `enforce`, `delete`, `audit` | 372, `EnforceDecision` | `EnforceDecision`, `Delete`, `Audit` |

`Post` is Discord, `Elapse` the breaker's time, `TokenExpires` the end of the
service token's 24 hours, `Terminate` and `Exit` a shutdown and the restart after
it.  A message is the set of what the listener tells apart.  The quota counts in
the same database for all bots, so `used` is shared and everything else is a
bot's own.  An answer of the Control API that is lost after the unit was counted
is a branch of `Consume`, and so is, in `Delete`, a deletion that Discord carried
out and answered with an error.  What `/moderate` analyzes is paid for by nobody.

### Hooks, control plane

A call is a process with a label (`stage`, `emit`, `checking`, `step`, `request`),
and each command or statement to a database is a step, since nothing in the code
is a transaction of more than one. In `Billing` a row is a plan and a customer, an
event carries a number, and `outbox` holds what Stripe has to post or may post
again; `completed`, `priced`, `applied`, `disturbed` and `sold` are histories.
Nothing is assumed of when Stripe tells the price of what it sold: the completed
checkout names none, an update may come before it, after it, or never, and
`customer.subscription.created` is an event the code answers and drops. In `Mfa` a
TOTP secret is named by the call that confirmed it; a passcode is a secret, a
code, or neither. In `Decisions` records of one timestamp come in any order, as in
SQL.

## The runs

| run | instance | what it shows |
|---|---|---|
| `pipeline_faults` | 2 requests, 3 pictures, all faults, 1 exit, with or without analyzer | types, `CacheProvenance`, `AnswerProvenance`, `HooksMatchAnswers`, and `KeepsPromise`, the refinement |
| `pipeline_live` | 2 requests, frame lists of up to 3 with an undecodable frame, normalization and analyzer may fail | `BlockedFrameBlocksVideo`, `LevelsFilledTogether`, `CachedContentIsAnswered`, `EveryRequestEnds` |
| `similarity` | all pairs of 64-bit hashes up to bit positions; 2 categories of up to 3 prompts and of two names or one, 2 frames, 4 scores of which a float32 knows 2 | an L2 match with 14 common ones is an L3 match; an L3 match is at most 18 bits apart; `BlockedByAPrompt` |
| `inference` | 2 callers, 2 attempts, thresholds of 2, 1 reload; the service alone with 2 configurations and 2 reloads | `BreakerCountsCalls`, `LateOutcomesMoveNothing`, `EveryCallEnds`, `ProbesDecide`, `OneConfig` |
| `edge` | 2 bots, 4 messages, a quota of 2, 1 command, 1 stop or expired token | `QuotaIsKept`, `RemovalIsAccounted`, `BlockedIsRemoved`, `EveryMessageSettles` |
| `hooks` | 1 content, 2 calls of each kind, 1 stop; 1 URL, 2 checks at a time, 2 changes | `ReleasedOnlyIfAllowed`, `TerminalSurvives`, `ReportIsOwn`, `ThreatStays`, `VerdictsCatchUp` |
| `control` | 2 workspaces, 2 customers, 2 prices, 4 events, 1 of them repeated; 2 enrollments, 2 calls to disable, 2 codes; 3 appeals; 4 records | `PlanWasSold`, `InOrderConverges`, `CodeAcceptedOnce`, `OrphanCodesNeedOverlap`, `AppealsAreOne`, `NothingSkipped` |
| `pipeline_audit` | violation | a degraded answer has no audit event |
| `pipeline_category` | violation | content blocked as `sexual_minors` has the category "safe" |
| `inference_sighup` | violation | a SIGHUP with the shipped configuration takes the service down |
| `edge_failopen` | violation | an unanswered quota request deletes the message |
| `edge_unaudited` | violation | a deletion that took effect and failed is neither noticed nor audited |

Several properties say how far a promise goes where the code does not keep it
without reserve, which is more than a yes or no:

* `TerminalSurvives`: a settled quarantine entry can be written over, but only by
  a call that read it before it was settled; calls one after the other cannot.
* `ReportIsOwn`: `Emit` blames a call for another's failed write, or misses its
  own, but only where the two overlap.
* `ThreatStays`: a URL known as malicious passes again only by a verdict fetched
  earlier and cached late; `VerdictsCatchUp` says that this ends.
* `OrphanCodesNeedOverlap`: recovery codes without an enrollment are left behind
  only if enrolling and disabling ran beside each other.
* `RemovalIsAccounted`: a removed message has its record, unless the process ended
  between the two or Discord answered the deletion with an error, which ends the
  handler whether or not the message is gone.
* `EveryMessageSettles`: a bot is again and again done with what it was handed,
  unless it waits for a download for ever.
* `InOrderConverges`: a workspace is on its customer's plan if Stripe told a price
  after the checkout completed, unless an event was lost or applied after a later
  one.  An update that came earlier found no row, and is not made up for.
* `BlockedByAPrompt`: the scores that count are those of a float32 next to what the
  model said, and of two categories of one name, which the configuration does not
  refuse, the later one's.
* `AppealsAreOne`: a second submission gets the internal error of the unique
  index only if it looked before the first one inserted.
* `OneConfig`: categories, settings and embeddings of one configuration are used
  together except after a reload that failed to embed its prompts.  What is read
  outside the lock (the length of the `input_ids`, the model that embeds the image,
  the version the response names) may be of another one if a reload ran beside the
  call, though no reload failed.
* `NothingSkipped`: only records that share their timestamp can be skipped.

Bounds.  Two requests suffice for the interactions the pipeline's properties
speak of: one stores, fails or dies while the other looks up; a verdict reaches a
request only through the stores, whose content a single other request can set up.
Three pictures give every kind of similarity: picA and picB match at L2 and L3,
picA and picC at L3 only, picB and picC not at all.  One of them has two possible
verdicts, so that a verdict can change between two analyses.  `MaxRestarts` is 1.
The faults run leaves frames out and the liveness run leaves the other faults
out, each to stay within minutes; the proofs cover their combination.

In `inference` two callers make a late outcome possible (one call stays out while
the other opens and reopens the breaker), thresholds of two and a rate over three
requests make the breaker trip by each of its rules, two probes leave one to be
late, and `MaxRequests`, the most a generation counts, is that minimum of the rate.
There, service and client together need one configuration and one reload; which
version a field is of is a question about the service alone, which is explored beside
(`part` again) with two configurations and two reloads, so that one may fail and the
next find what it left.  In `edge` three of the four messages ask for a quota of two, in both
bots; one bot enforces and takes attachments, the other does neither; two
failures open a breaker.  `MaxStops` counts shutdowns and expired tokens together.
In `hooks` two calls of each kind give every pair of a get and a set; in `control`
four events are a completed checkout with an update before and after it and one more,
or two checkouts with an update each; one of the prices belongs to no plan; two codes
are enough for a failure between them; three appeals leave one that neither
looked first nor inserted; two of the four records share a timestamp.

Fairness. `Fairness` of `Pipeline` is weak fairness of the steps of each request:
Go schedules goroutines, and each blocking call is given up when its context ends
(the Edge cancels after 30 seconds; the Inference client's attempts time out after
10). The Weaviate client has no timeout of its own, so for a direct caller without
a deadline a hanging index would hold a request; the fairness assumes it answers
or fails. `InferenceSystem` is fair to the attempts of a call, their replies and
timeouts, and not to the service: it may hold its lock, crash or never answer.
`Edge` is fair to each handler (`Attended`) whose calls have deadlines (2 s for
the limiter, 5 s for the Control API, 30 s for the Engine, the library's for
Discord) but not while it downloads: the attachment is fetched with
`http.DefaultClient`, which has no timeout, in the context of the process, so that
only a shutdown is sure to end it. Nothing is assumed of the hooks of an answer:
their context is never canceled and the put to R2 has no deadline. `UrlSafety` is
fair to its checks and to expiry. Nothing is assumed about submissions, faults,
cancellation, eviction, reloads or exits.

Each property of a passing run has a mutant in the modules, marked as such: a
plausible mistake in one definition under which TLC finds the property violated.

## The proofs

Every invariant and every action property of the passing runs is a theorem, for
every value of the constants that the module's named assumption admits; so is the
refinement.  Each proof has the same shape: an inductive invariant, of which TLC
had found nothing wrong on the instances; a lemma per action or per operator an
action is built from, saying which parts of the invariant it can disturb; and one
temporal step at the end.

`PipelineProofs`, for every set of requests and contents, every analyzer, every
frame list and every combination of faults, from `PipelineAssumption` alone:

* `TypeCorrect`.  `TypeOK` is not inductive, since what a request may do next
  depends on where it stands; `TypeInv` adds `ControlOK`: a request at work has its
  frame index inside its list, one past normalization is at a decoded content, one
  that is storing has a verdict in hand, and one that is still running has not
  answered.  Each way of leaving a step (`Move`, `Return`, `ReturnError`,
  `NextFrame`, `FireHooks`) has a lemma, and each action cites the ones it is built
  from.
* `AnswersRestOnVerdicts` and `CachesHoldVerdicts`.  Their invariant is
  `Provenance`: a hit can only be justified if the caches are (`CacheProvenance`),
  the caches only if what a request is storing is (`HandOK`), and a video's answer
  only if the loop's running result is (`AccOK`).  `FoundSupported` is the heart:
  whatever a lookup returns at a level, the analyzer gave it on content within
  that level's similarity.  The history `verdicts` only grows, which carries
  every fact over the steps of others.

`RefinementProofs`: `PromiseKept`.  Each action of `Pipeline` is mapped to the step
of `Moderation` it makes, or to none.  An answer is where it is hard: `Moderation`
asks for a judgement of alike content, and `Provenance` supplies it.

`AnswerProofs`, from the same assumption:

* `HooksTellTheAnswer` and `VideosStayBlocked`.  `HookInv` says which hooks a
  request can have behind it at each place (`HooksBehind`: those of the parts it is
  past, so none before a single answer), and that the loop's result is BLOCK
  as soon as a frame was reported so (`BlockKept`); only with it does the merge of
  the remaining frames keep it.
* `CascadeCompletes`.  That L1 never runs ahead of L2 and L3 is inductive once a
  request at its L3 write is known to have made its L2 write (`LevelInv`), under the
  hypothesis of the property itself, that no store fails or evicts.
* `CachedIsAnswered`, which is about the rest of a behaviour: `OnTheWay` is stable.
  It assumes `DragonflyUp` (no failing read of L1, no eviction, a caller that stays),
  the condition under which the property was stated; index and analyzer may fail.

`HooksProofs`, for any callers, contents, events, URLs' checks and stops:

* `HooksTypeCorrect`, `ReleasesAreAllowed`, `SettledSurvives`: what a call was told
  stays what it was told (`DecidedOnce`), though its get and its set are apart.
* `ReportsAreOwn`.  `TrackerOK` says, call by call and place by place, what the one
  error of all calls may mean for it; it is what survives a `Reset` by another.
* `UrlTypeCorrect`, `ThreatsStay`: a "safe" cached after the warning was fetched
  before it (`WarningKept`).

`InferenceProofs`, for any callers, configurations, thresholds and reloads:

* `InferenceTypeCorrect`, `OneConfigEach`.  `ReloadOK` says which fields are already
  replaced at each place of a reload, and that outside of one all fields are of one
  load unless one before had failed; `CalmOK`, that nothing was replaced since a
  call which no reload has run beside made its first read.
* `BreakerCounts`, `LateOutcomesRest`.  `BreakerOK` relates state, counters and the
  set of calls they count.  The counters are kept below their thresholds only because
  calls that are admitted but not back are counted in them: `failures` plus the calls
  still out never exceed `requests`.  A generation that ends empties both at once.

`SimilarityProofs`:

* `NearHashesIndexed` for hashes of any width, `IndexStaysNear` for up to 64 bits:
  the two thresholds as inequalities over the numbers of common and own ones
  (`NearReaches`, `ReachIsNear`), with each product named so that what is left is
  linear.
* `VerdictsHaveAPrompt`, for any categories with a prompt each and names that may
  repeat, any thresholds, scores and frames, and any rounding that keeps their order.
  `Cut` is the lemma that matters: the running offsets and the
  flattened rows agree, so that position `Offset + i` is the category's prompt `i`.
  It is an induction over the categories.  The library's induction theorems take an
  operator, which the provers cannot instantiate; `Induction` states it for a *set*
  of numbers instead, from the least element of its complement, and `Recursion`
  gives recursive functions from it.  `Scored` then follows the frames: the score
  of a name bounds what its prompts were rounded to and was reached by one.

`EdgeProofs`, for every number of bots and messages, from `EdgeAssumption` and
`QuotaAssumption`:

* `EdgeTypeCorrect`.  An outcome leaves the breaker below its threshold
  (`RecordedType`), and a handler has a message while it is busy.
* `QuotaHolds`.  That `used` is the number of messages paid for survives a step of
  `Consume` only if its message is not paid for yet; `Queued` says why: a message
  waits in one place, once, in the bot of its guild, and is unpaid until its handler
  has passed `consume`.  `Metered` is the property with what a handler in `analyze`
  knows.
* `RemovalsAreAccounted` and `BlocksAreRemoved`.  `RemovalInv` adds what a handler
  knows of its message at each place (`Stance`): nothing up to its verdict (`Fresh`),
  a cause when it deletes (`Known`), a deletion when it audits; and the two properties
  with the handler that still has the message in hand (`Accounted`, `Held`).  What
  excuses a removal without a record is `refused`, a deletion answered with an error,
  or `gaveUp`, a process that ended; nothing else does.

`ControlProofs`, for any workspaces, customers, events, calls, codes, submissions
and records.  `Together` shows that beside the others each part runs as alone:

* `ControlTypeCorrect`, over `ControlSpec`.
* `PlansConverge`.  `InOrderConverges` speaks of workspaces with no event to come; the
  invariant speaks of those with some: `Foretold` (the last price of a customer is
  still to be applied if it is newer than what was) and `Following` (once it was, and
  came after the checkout completed, the workspace is on its plan, as long as nothing
  older is to come).  Below them, `Numbered` says that the last event with a price
  names the present one, `Owned` that a row is linked only to whom it was sold to.
  Nothing is assumed of the order of checkout and updates.
* `PlansAreSold` assumes `PricesDiffer`: two plans have two prices.  With one price
  for two plans the code takes whichever its map yields first, and a plan may be
  given that was not the one sold; the runs' configuration has one price each.
* `CodesWorkOnce` and `OrphansNeedOverlap`.  A code which is brought comes from an
  enrollment that has stored all of its codes, and is used up once it got a call
  past `Verify` (`CodesUsedUp`, with `MoreCodes` for the calls that are still
  storing); without an overlap only one kind of call is at work, so that what is
  left of codes has its enrollment (`Separate`).
* `AppealsStayOne`: what a submission found is nothing or the one row (`Consistent`),
  so that an insert which fails with no fault is one that had looked before the row
  was there.
* `WalkSkipsNothing`.  `WalkInv` counts: a record that was there, was not shown yet
  and shares its timestamp with no other has at least `offset` newer ones (`Ahead`).
  Arrivals raise that number; expiry takes the oldest first and leaves it.

Model-checked only: what is temporal and rests on fairness (`EveryRequestEnds`,
`EveryCallEnds`, `ProbesDecide`, `EveryMessageSettles`, `VerdictsCatchUp`), which
the prover has no rules for. The properties of the runs that expect a violation
are false, which a run shows and a proof cannot.

## Findings

* `dominantCategory` does not know two of the classifier's categories, as they
  are spelt in `inference/config.yaml`: content blocked as `sexual_minors` or
  `self_harm` is cached, answered and reported with the category "safe".
* A degraded answer launches no hook, although every decision is said to be
  audited.
* A SIGHUP loads `config.yaml` without the `input_ids` that start-up reads from a
  file of their own.  The reload then indexes an empty list in a goroutine that
  recovers nothing, and the Inference service ends.
* The quota check is said to fail open; it fails closed, and the message is then
  deleted as if the quota were used up.
* A removal is said to end in a notice and an audit event.  A deletion that took
  effect but was answered with an error ends in neither.

Other places where a comment says more than the code does, and where the models show
it without a run of its own:

* The index is called broader than the Hamming match (`phash.go`, 83-85).  It is given
  a certainty of 0.92, a cosine of 0.84, and is narrower for hashes with few ones:
  `NearIsIndexed` needs 14 in common, and a hash with one bit is one bit apart from
  one with two at a cosine of 0.71.
* What the Engine queues is said to be treated as blocked (`handler.go` of the Edge, 5
  and 77, and the specification of the change); `EnforceDecision` lets it stay, as its
  test wants.
* The inserts of the hooks "must complete" after the response (`pipeline.go`,
  371-372).  At a shutdown `main` waits for the requests and not for the hooks, and
  `Restart` drops them.
* Blocked content is said to stay quarantined (`quarantine.go`, 2-3).  An update that
  read the entry before another one blocked it releases it: the exception of
  `TerminalSurvives`.
* `handleSubscriptionUpdated` is said to sync the plan when a subscription changes
  (`billing.go`, 262).  Before the checkout completed it finds no workspace, and the
  completed checkout sets no plan: the condition of `InOrderConverges`.

## Not modelled

* Generated protocol code (`src/proto`), more than half of the lines of the
  implementation: it has no behaviour of its own.
* Pixel and tensor arithmetic: FFmpeg, letterboxing, the perceptual hash, the
  embeddings.  TLC has no way to explore it; the models keep what it yields.
* Subprocesses and network transport: FFmpeg, yt-dlp and its sidecar, opening
  connections.  Each is a step that succeeds or fails where it is called.
* Telemetry, metrics, secrets and environment: nothing depends on them.
* `internal/circuitbreaker`, the Lua variant of the L2 scan and the job stream of
  `internal/nats`: nothing in the program calls, runs or consumes them.
* Stateless request handling: token checks, validation, the status and
  configuration commands of the bot, reading workspaces and statistics, login.
* Message edits: the Edge has no handler for them.

## Plan

Done: every component with state of its own, its composition with its neighbours,
and a theorem for each invariant and action property of the runs.  What is left:

1. Lemmas that liveness would rest on and that are provable as such: that a running
   request always has a step (without ENABLED, as a disjunction of guards), and that
   each step takes it further in an order of labels.
2. `Edge` and `Quota`: that the quota is counted alike by any number of workspaces.
