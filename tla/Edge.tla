-------------------------------- MODULE Edge --------------------------------
(***************************************************************************)
(* The Discord Edge, cmd/edge-discord/main.go and edge/discord: bots that  *)
(* take messages from their gateway, pay for each out of the workspace's   *)
(* quota, ask the Engine through a circuit breaker, and remove what is     *)
(* blocked.                                                                *)
(*                                                                         *)
(* A gateway hands its events to the listeners one after the other in one  *)
(* goroutine, so a bot is one process; bots of a workspace share its       *)
(* quota.  The Engine is a decision or an error, whatever the content.     *)
(***************************************************************************)
EXTENDS Quota, Sequences, FiniteSets

CONSTANTS
    Bot,               \* edge-discord processes of one workspace
    Msg,               \* messages, each posted at most once
    Home,              \* the bot in whose guild a message is posted
    Shape,             \* what a message carries
    Gated,             \* bots with ATTACHMENT_ANALYSIS_ENABLED = "true"
    Enforcing,         \* bots with ENFORCE_MODERATION # "false"
    FailureThreshold,  \* failures within a minute that open the breaker: 5
    MaxCommands,       \* bound on /moderate commands
    MaxStops,          \* bound on shutdowns and expired tokens together
    NoMsg              \* no message

\* What listener.MessageData tells apart: the author is a bot; an attachment of
\* at most 10 MiB; it is on Discord's CDN; text of its own; a link in it; a link
\* in a forwarded message's text.
Carries == {"bot", "attachment", "cdn", "text", "link", "forwardedLink"}

ASSUME EdgeAssumption ==
    /\ Home \in [Msg -> Bot] /\ Shape \in [Msg -> SUBSET Carries]
    /\ Gated \subseteq Bot /\ Enforcing \subseteq Bot
    /\ FailureThreshold \in Nat \ {0}
    /\ MaxCommands \in Nat /\ MaxStops \in Nat
    /\ NoMsg \notin Msg

Decision == {"ALLOW", "BLOCK", "QUEUED"}

\* Why the Control API did not allow a message.
Denial == {"exhausted", "unanswered"}

VARIABLES
    inbox,     \* gateway events a bot has not handled
    cur,       \* the message it is handling
    at,        \* where handleMessage stands
    payload,   \* what it will send to the Engine
    closing,   \* bots told to stop: every context of theirs is canceled
    token,     \* bots whose service token the Control API still takes
    breaker, failures,   \* each bot's breaker around the Engine
    posted, deleted, audited,   \* messages
    paid,      \* history: messages a unit of the quota was counted for
    denied,    \* history: why a message was denied
    verdict,   \* history: what the Engine decided about a message
    refused,   \* history: messages whose deletion Discord answered with an error
    gaveUp,    \* history: messages a failed analysis or a shutdown left undecided
    commands, stops   \* so far

botVars == <<inbox, cur, at, payload>>
breakerVars == <<breaker, failures>>
msgVars == <<posted, deleted, audited>>
historyVars == <<paid, denied, verdict, refused, gaveUp>>
vars == <<used, botVars, closing, token, breakerVars, msgVars, historyVars, commands, stops>>

Label == {"idle", "limit", "download", "consume", "analyze", "enforce",
          "delete", "audit"}

Init ==
    /\ QuotaInit
    /\ inbox = [b \in Bot |-> <<>>] /\ cur = [b \in Bot |-> NoMsg]
    /\ at = [b \in Bot |-> "idle"] /\ payload = [b \in Bot |-> "text"]
    /\ closing = {} /\ token = Bot
    /\ breaker = [b \in Bot |-> "closed"] /\ failures = [b \in Bot |-> 0]
    /\ posted = {} /\ deleted = {} /\ audited = {}
    /\ paid = {} /\ refused = {} /\ gaveUp = {}
    /\ denied = [m \in Msg |-> "no"] /\ verdict = [m \in Msg |-> "none"]
    /\ commands = 0 /\ stops = 0

Goto(b, label) == at' = [at EXCEPT ![b] = label] /\ UNCHANGED <<inbox, cur, payload>>

\* The handler returns, and the bot takes its next event.
Done(b) ==
    /\ at' = [at EXCEPT ![b] = "idle"]
    /\ cur' = [cur EXCEPT ![b] = NoMsg]
    /\ payload' = [payload EXCEPT ![b] = "text"]
    /\ UNCHANGED inbox
-----------------------------------------------------------------------------
(* From the gateway to the payload.                                        *)

Post(m) ==
    /\ m \notin posted /\ posted' = posted \cup {m}
    /\ inbox' = [inbox EXCEPT ![Home[m]] = Append(@, m)]
    /\ UNCHANGED <<used, cur, at, payload, closing, token, breakerVars, deleted,
                   audited, historyVars, commands, stops>>

\* A message that carries something to analyze: shouldAnalyze.
Wanted(m) ==
    /\ "bot" \notin Shape[m]
    /\ Shape[m] \cap {"attachment", "link", "forwardedLink"} # {}

\* OnMessageCreate, and handleMessage for what it wants.
TakeEvent(b) ==
    /\ at[b] = "idle" /\ inbox[b] # <<>>
    /\ inbox' = [inbox EXCEPT ![b] = Tail(@)]
    /\ \/ /\ Wanted(Head(inbox[b]))
          /\ cur' = [cur EXCEPT ![b] = Head(inbox[b])]
          /\ at' = [at EXCEPT ![b] = "limit"]
          /\ UNCHANGED payload
       \/ ~Wanted(Head(inbox[b])) /\ UNCHANGED <<cur, at, payload>>
    /\ UNCHANGED <<used, closing, token, breakerVars, msgVars, historyVars, commands, stops>>

\* limiter.Wait: 45 tokens a second never make a single caller wait the two
\* seconds after which it gives up, a canceled context does.
DropEvent(b) ==
    /\ at[b] = "limit" /\ b \in closing
    /\ gaveUp' = gaveUp \cup {cur[b]}
    /\ Done(b)
    /\ UNCHANGED <<used, closing, token, breakerVars, msgVars, paid, denied, verdict,
                   refused, commands, stops>>

\* What goes to the Engine without an attachment: the message's own text, which
\* may be empty.
OwnText(m) == IF "text" \in Shape[m] THEN "text" ELSE "empty"

\* With its token, a gated bot fetches an attachment from Discord's CDN; the
\* others go on with the text.
TakeToken(b) ==
    /\ at[b] = "limit" /\ b \notin closing
    /\ LET fetches == b \in Gated /\ {"attachment", "cdn"} \subseteq Shape[cur[b]]
       IN  \/ fetches /\ at' = [at EXCEPT ![b] = "download"] /\ UNCHANGED payload
           \/ /\ ~fetches /\ at' = [at EXCEPT ![b] = "consume"]
              /\ payload' = [payload EXCEPT ![b] = OwnText(cur[b])]
    /\ UNCHANGED <<used, inbox, cur, closing, token, breakerVars, msgVars, historyVars,
                   commands, stops>>

\* The download ends: the attachment is sent or, when it failed, the text.  Its
\* client has no timeout and its context ends with the process only, so this
\* step is the one of a handler that nobody promises (Fairness).
Download(b) ==
    /\ at[b] = "download"
    /\ at' = [at EXCEPT ![b] = "consume"]
    /\ \E data \in {"attachment", OwnText(cur[b])} :
          payload' = [payload EXCEPT ![b] = data]
    /\ UNCHANGED <<used, inbox, cur, closing, token, breakerVars, msgVars, historyVars,
                   commands, stops>>
-----------------------------------------------------------------------------
(* Paying and asking.                                                      *)

\* A message that is denied is treated as blocked.
Deny(b, why) ==
    /\ denied' = [denied EXCEPT ![cur[b]] = why]
    /\ IF b \in Enforcing THEN Goto(b, "delete") ELSE Done(b)

\* Mutant: whoever cannot reach the Control API goes on without paying.
ConsumeOpen(b) ==
    /\ at[b] = "consume"
    /\ \/ Take /\ paid' = paid \cup {cur[b]} /\ Goto(b, "analyze") /\ UNCHANGED denied
       \/ UNCHANGED <<used, paid, denied>> /\ Goto(b, "analyze")
    /\ UNCHANGED <<closing, token, breakerVars, msgVars, verdict, refused, gaveUp,
                   commands, stops>>

\* The token main makes at startup lives for 24 hours and is not made again.
TokenExpires(b) ==
    /\ b \in token /\ token' = token \ {b}
    /\ stops < MaxStops /\ stops' = stops + 1
    /\ UNCHANGED <<used, botVars, closing, breakerVars, msgVars, historyVars, commands>>

\* planClient.Consume, which denies as well when its context is canceled, the
\* token is refused, or the answer is lost after the unit was counted.
Consume(b) ==
    /\ at[b] = "consume"
    /\ \/ /\ b \in token \ closing
          /\ Take
          /\ paid' = paid \cup {cur[b]}
          /\ \/ Goto(b, "analyze") /\ UNCHANGED denied
             \/ Deny(b, "unanswered")
       \/ b \in token \ closing /\ Exhausted /\ Deny(b, "exhausted") /\ UNCHANGED paid
       \/ UNCHANGED <<used, paid>> /\ Deny(b, "unanswered")
    /\ UNCHANGED <<closing, token, breakerVars, msgVars, verdict, refused, gaveUp,
                   commands, stops>>

\* Mutant: it takes one failure more to open the breaker.
RecordedLate(b, success) ==
    /\ breaker' = [breaker EXCEPT ![b] =
                      IF ~success /\ failures[b] >= FailureThreshold THEN "open" ELSE @]
    /\ failures' = [failures EXCEPT ![b] =
                       IF success THEN @ ELSE (@ + 1) % (FailureThreshold + 1)]

\* failsafe-go: an open breaker turns calls away until its delay is over; a
\* half-open one closes on a success and opens after as many failures as
\* opened it.
Recorded(b, success) ==
    \/ /\ success
       /\ breaker' = [breaker EXCEPT ![b] = "closed"]
       /\ failures' = IF breaker[b] = "half-open" THEN [failures EXCEPT ![b] = 0]
                      ELSE failures
    \/ /\ ~success
       /\ \/ /\ failures[b] + 1 < FailureThreshold
             /\ failures' = [failures EXCEPT ![b] = @ + 1] /\ UNCHANGED breaker
          \/ /\ failures[b] + 1 >= FailureThreshold
             /\ failures' = [failures EXCEPT ![b] = 0]
             /\ breaker' = [breaker EXCEPT ![b] = "open"]

\* The breaker's minute passes for old failures, or its delay for an open one.
Elapse(b) ==
    /\ \/ /\ breaker[b] = "closed" /\ failures[b] > 0
          /\ failures' = [failures EXCEPT ![b] = @ - 1] /\ UNCHANGED breaker
       \/ /\ breaker[b] = "open"
          /\ breaker' = [breaker EXCEPT ![b] = "half-open"] /\ UNCHANGED failures
    /\ UNCHANGED <<used, botVars, closing, token, msgVars, historyVars, commands, stops>>

\* An analysis that fails leaves the message where it is: the unit is spent.
AnalysisFails(b) ==
    /\ at[b] = "analyze"
    /\ \/ breaker[b] = "open" /\ UNCHANGED breakerVars
       \/ breaker[b] # "open" /\ Recorded(b, FALSE)
    /\ gaveUp' = gaveUp \cup {cur[b]}
    /\ Done(b)
    /\ UNCHANGED <<used, closing, token, msgVars, paid, denied, verdict, refused,
                   commands, stops>>

\* The Engine refuses an empty payload with InvalidArgument.
Analyze(b, d) ==
    /\ at[b] = "analyze" /\ breaker[b] # "open"
    /\ payload[b] # "empty" /\ b \notin closing
    /\ Recorded(b, TRUE)
    /\ verdict' = [verdict EXCEPT ![cur[b]] = d]
    /\ Goto(b, "enforce")
    /\ UNCHANGED <<used, closing, token, msgVars, paid, denied, refused, gaveUp,
                   commands, stops>>

\* /moderate asks the Engine between two messages, at no cost.
Moderate(b, success) ==
    /\ at[b] = "idle" /\ breaker[b] # "open" /\ commands < MaxCommands
    /\ Recorded(b, success)
    /\ commands' = commands + 1
    /\ UNCHANGED <<used, botVars, closing, token, msgVars, historyVars, stops>>
-----------------------------------------------------------------------------
(* EnforceDecision.                                                        *)

\* Mutant: a bot that is told to stop no longer removes anything.
EnforceUnlessClosing(b) ==
    /\ at[b] = "enforce"
    /\ LET removes == b \in Enforcing \ closing /\ verdict[cur[b]] = "BLOCK"
       IN  \/ removes /\ Goto(b, "delete")
           \/ ~removes /\ Done(b)
    /\ UNCHANGED <<used, closing, token, breakerVars, msgVars, historyVars, commands, stops>>

\* Only a block removes the message; what is queued or unknown stays, though lines
\* 5 and 77 of handler.go say that a queued one is treated as blocked.
EnforceDecision(b) ==
    /\ at[b] = "enforce"
    /\ LET removes == b \in Enforcing /\ verdict[cur[b]] = "BLOCK"
       IN  \/ removes /\ Goto(b, "delete")
           \/ ~removes /\ Done(b)
    /\ UNCHANGED <<used, closing, token, breakerVars, msgVars, historyVars, commands, stops>>

\* Mutant: a removal that fails is decided again, for ever.
DeleteRetrying(b) ==
    /\ at[b] = "delete"
    /\ \/ deleted' = deleted \cup {cur[b]} /\ Goto(b, "audit")
       \/ Goto(b, "enforce") /\ UNCHANGED deleted
    /\ UNCHANGED <<used, closing, token, breakerVars, posted, audited, historyVars,
                   commands, stops>>

\* An error ends the handler without a notice and an audit record, whether or not
\* Discord deleted the message before its answer was lost.
Delete(b) ==
    /\ at[b] = "delete"
    /\ \/ deleted' = deleted \cup {cur[b]} /\ Goto(b, "audit") /\ UNCHANGED refused
       \/ /\ refused' = refused \cup {cur[b]}
          /\ deleted' \in {deleted, deleted \cup {cur[b]}}
          /\ Done(b)
    /\ UNCHANGED <<used, closing, token, breakerVars, posted, audited, paid, denied,
                   verdict, gaveUp, commands, stops>>

\* Mutant: without the notice there is no audit record.
AuditIfNotified(b) ==
    /\ at[b] = "audit"
    /\ audited' = audited \cup {cur[b]} \/ UNCHANGED audited
    /\ Done(b)
    /\ UNCHANGED <<used, closing, token, breakerVars, posted, deleted, historyVars,
                   commands, stops>>

\* sendDM, of which nothing depends, and emitAudit.
Audit(b) ==
    /\ at[b] = "audit"
    /\ audited' = audited \cup {cur[b]}
    /\ Done(b)
    /\ UNCHANGED <<used, closing, token, breakerVars, posted, deleted, historyVars,
                   commands, stops>>
-----------------------------------------------------------------------------
(* Shutdown: SIGTERM cancels the contexts, ten seconds later the process   *)
(* is gone, and a new one starts with a fresh gateway session.             *)

Terminate(b) ==
    /\ b \notin closing /\ stops < MaxStops
    /\ closing' = closing \cup {b} /\ stops' = stops + 1
    /\ UNCHANGED <<used, botVars, token, breakerVars, msgVars, historyVars, commands>>

InHand(b) == ({inbox[b][i] : i \in DOMAIN inbox[b]} \cup {cur[b]}) \ {NoMsg}

Exit(b) ==
    /\ b \in closing /\ closing' = closing \ {b} /\ token' = token \cup {b}
    /\ gaveUp' = gaveUp \cup InHand(b)
    /\ inbox' = [inbox EXCEPT ![b] = <<>>] /\ cur' = [cur EXCEPT ![b] = NoMsg]
    /\ at' = [at EXCEPT ![b] = "idle"] /\ payload' = [payload EXCEPT ![b] = "text"]
    /\ breaker' = [breaker EXCEPT ![b] = "closed"] /\ failures' = [failures EXCEPT ![b] = 0]
    /\ UNCHANGED <<used, msgVars, paid, denied, verdict, refused, commands, stops>>

Handle(b) ==
    \/ TakeEvent(b) \/ DropEvent(b) \/ TakeToken(b) \/ Download(b) \/ Consume(b)
    \/ AnalysisFails(b) \/ \E d \in Decision : Analyze(b, d)
    \/ EnforceDecision(b) \/ Delete(b) \/ Audit(b)

Next ==
    \/ \E m \in Msg : Post(m)
    \/ \E b \in Bot : \/ Handle(b) \/ Elapse(b) \/ TokenExpires(b) \/ Terminate(b) \/ Exit(b)
                      \/ \E success \in BOOLEAN : Moderate(b, success)

Spec == Init /\ [][Next]_vars

\* Its calls have deadlines, 2 s for a token, 5 s for the Control API, 30 s for
\* the Engine, the library's for Discord, but for a download: the CDN may keep it
\* waiting as long as the process lives, and only SIGTERM cancels it.
Attended(b) == (at[b] = "download" => b \in closing) /\ Handle(b)
Fairness == \A b \in Bot : WF_vars(Attended(b))
FairSpec == Spec /\ Fairness
-----------------------------------------------------------------------------
TypeOK ==
    /\ inbox \in [Bot -> Seq(Msg)] /\ cur \in [Bot -> Msg \cup {NoMsg}]
    /\ at \in [Bot -> Label] /\ payload \in [Bot -> {"text", "attachment", "empty"}]
    /\ closing \subseteq Bot /\ token \subseteq Bot /\ used \in Nat
    /\ breaker \in [Bot -> {"closed", "open", "half-open"}]
    /\ failures \in [Bot -> 0 .. FailureThreshold - 1]
    /\ {posted, deleted, audited, paid, refused, gaveUp} \subseteq SUBSET Msg
    /\ denied \in [Msg -> Denial \cup {"no"}]
    /\ verdict \in [Msg -> Decision \cup {"none"}]
    /\ commands \in 0 .. MaxCommands /\ stops \in 0 .. MaxStops
    /\ \A b \in Bot : at[b] = "idle" <=> cur[b] = NoMsg

\* A message an Edge analyses is paid for, once, and never beyond the limit of the
\* workspace, however its bots interleave and whatever answers they lose.  What
\* /moderate analyses is nobody's message here: it costs nothing.
QuotaIsKept ==
    /\ used = Cardinality(paid) /\ used <= Limit
    /\ \A m \in Msg : verdict[m] # "none" => m \in paid

\* A removed message was blocked by the Engine or denied by the Control API.  The
\* removal ends in an audit record, unless Discord answered a deletion that took
\* effect with an error, or the process ended between the two.
RemovalIsAccounted ==
    /\ audited \subseteq deleted
    /\ \A m \in deleted :
          /\ verdict[m] = "BLOCK" \/ denied[m] # "no"
          /\ \/ m \in audited \cup refused \cup gaveUp
             \/ \E b \in Bot : cur[b] = m /\ at[b] = "audit"

\* What an enforcing bot has learned to be blocked or denied is not let go before
\* it is removed, unless Discord refuses or the process ends first.
BlockedIsRemoved ==
    \A b \in Enforcing, m \in Msg :
        Home[m] = b /\ (verdict[m] = "BLOCK" \/ denied[m] # "no")
            => m \in deleted \cup refused \cup gaveUp \cup InHand(b)

\* A bot is again and again done with all it was handed, unless it waits for a
\* download for ever: neither a dead Engine nor a dead Control API, a failing
\* Discord or a full quota holds its gateway up, but the CDN may.
EveryMessageSettles ==
    \A b \in Bot : []<>(at[b] # "download") => []<>(InHand(b) = {})

\* handler.go, lines 72-73, "deletes the message and sends a DM to the author
\* [...]. Emits an audit event.": what was removed has its record when its
\* handler is done, unless the process ended first.
RemovedIsAudited ==
    \A m \in deleted : m \in audited \cup gaveUp \/ \E b \in Bot : cur[b] = m

\* cmd/edge-discord/main.go, "fails open if Control API unreachable": a message
\* is removed because it was blocked or because the quota is used up, not because
\* nobody could say.
DeletedForCause ==
    \A m \in deleted : verdict[m] = "BLOCK" \/ denied[m] = "exhausted"
=============================================================================
