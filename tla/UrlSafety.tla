----------------------------- MODULE UrlSafety -----------------------------
(***************************************************************************)
(* The gate before the pipeline, engine/safety/safety.go: is a URL known   *)
(* to Google Web Risk?  Verdicts are cached in Dragonfly, and checks of    *)
(* one URL run beside each other, each reading the cache in one command    *)
(* and writing it in another.                                              *)
(*                                                                         *)
(* One URL, as URLs share nothing; its reputation may change.  A disabled  *)
(* service passes everything and is left out.                              *)
(***************************************************************************)
EXTENDS Naturals

CONSTANTS
    Checker,    \* goroutines of the Engine, each at one check at a time
    MaxTurns    \* bound on changes of the reputation

ASSUME UrlSafetyAssumption == MaxTurns \in Nat

Reputation == {"safe", "malicious"}

VARIABLES
    reputation,  \* what Web Risk would say now
    turns,       \* changes so far
    cached,      \* the verdict under the URL's key, "none" without one
    checking,    \* where a check stands
    threat,      \* what Web Risk told it
    answer,      \* what the last check of a goroutine came to
    warned,      \* history: "malicious" was cached, and is still true
    outdated     \* history: since then an older "safe" was cached over it

checkVars == <<checking, threat, answer>>
urlVars == <<reputation, turns, cached, checkVars, warned, outdated>>

UrlInit ==
    /\ reputation \in Reputation /\ turns = 0 /\ cached = "none"
    /\ checking = [k \in Checker |-> "idle"]
    /\ threat = [k \in Checker |-> "none"]
    /\ answer = [k \in Checker |-> "none"]
    /\ warned = FALSE /\ outdated = FALSE

Turn ==
    /\ turns < MaxTurns /\ turns' = turns + 1
    /\ reputation' \in Reputation \ {reputation}
    /\ warned' = FALSE /\ outdated' = FALSE
    /\ UNCHANGED <<cached, checkVars>>

CheckURL(k) ==
    /\ checking[k] = "idle"
    /\ checking' = [checking EXCEPT ![k] = "cache"]
    /\ answer' = [answer EXCEPT ![k] = "none"]
    /\ UNCHANGED <<reputation, turns, cached, threat, warned, outdated>>

\* Mutant: what this check fetched is still there for the next.
ConcludeKeeping(k, verdict) ==
    /\ checking' = [checking EXCEPT ![k] = "idle"]
    /\ answer' = [answer EXCEPT ![k] = verdict]
    /\ UNCHANGED threat

Conclude(k, verdict) ==
    /\ checking' = [checking EXCEPT ![k] = "idle"]
    /\ threat' = [threat EXCEPT ![k] = "none"]
    /\ answer' = [answer EXCEPT ![k] = verdict]

\* A cache that fails is a miss.
ReadCache(k) ==
    /\ checking[k] = "cache"
    /\ \/ cached # "none" /\ Conclude(k, cached)
       \/ checking' = [checking EXCEPT ![k] = "search"] /\ UNCHANGED <<threat, answer>>
    /\ UNCHANGED <<reputation, turns, cached, warned, outdated>>

\* Mutant: without an answer of Web Risk the URL passes.
SearchUrisOpen(k) ==
    /\ checking[k] = "search"
    /\ \/ /\ checking' = [checking EXCEPT ![k] = "store"]
          /\ threat' = [threat EXCEPT ![k] = reputation]
          /\ UNCHANGED answer
       \/ Conclude(k, "safe")
    /\ UNCHANGED <<reputation, turns, cached, warned, outdated>>

\* The service fails closed: ErrServiceUnavailable.
SearchUris(k) ==
    /\ checking[k] = "search"
    /\ \/ /\ checking' = [checking EXCEPT ![k] = "store"]
          /\ threat' = [threat EXCEPT ![k] = reputation]
          /\ UNCHANGED answer
       \/ Conclude(k, "unavailable")
    /\ UNCHANGED <<reputation, turns, cached, warned, outdated>>

\* SETEX, which writes over what another check cached, and may fail.
Cache(k) ==
    /\ checking[k] = "store"
    /\ Conclude(k, threat[k])
    /\ \/ /\ cached' = threat[k]
          /\ warned' = (warned \/ (threat[k] = "malicious" /\ reputation = "malicious"))
          /\ outdated' = (warned /\ (outdated \/ threat[k] = "safe"))
       \/ UNCHANGED <<cached, warned, outdated>>
    /\ UNCHANGED <<reputation, turns>>

\* Mutant: only what Web Risk gave an expireTime expires, and that are threats.
ForgetThreat ==
    /\ cached = "malicious" /\ cached' = "none"
    /\ UNCHANGED <<reputation, turns, checkVars, warned, outdated>>

\* The time to live is over: 15 minutes, or what Web Risk says, 24 hours at most.
Forget ==
    /\ cached # "none" /\ cached' = "none"
    /\ UNCHANGED <<reputation, turns, checkVars, warned, outdated>>

CheckStep(k) == ReadCache(k) \/ SearchUris(k) \/ Cache(k)

UrlNext == Turn \/ Forget \/ \E k \in Checker : CheckURL(k) \/ CheckStep(k)

\* Calls of Dragonfly and of Web Risk return, and Dragonfly drops what expired.
UrlFairness ==
    /\ \A k \in Checker : WF_urlVars(CheckStep(k))
    /\ WF_urlVars(Forget)
-----------------------------------------------------------------------------
\* A check holds a verdict of Web Risk exactly while it is to cache it (CheckURL).
UrlTypeOK ==
    /\ reputation \in Reputation /\ turns \in 0 .. MaxTurns
    /\ cached \in Reputation \cup {"none"}
    /\ checking \in [Checker -> {"idle", "cache", "search", "store"}]
    /\ threat \in [Checker -> Reputation \cup {"none"}]
    /\ answer \in [Checker -> Reputation \cup {"none", "unavailable"}]
    /\ warned \in BOOLEAN /\ outdated \in BOOLEAN
    /\ \A k \in Checker : checking[k] = "store" <=> threat[k] # "none"

\* Once a URL's threat is cached the URL passes again only by a verdict that was
\* fetched before it turned malicious and stored late: not when Web Risk or the
\* cache fails, and not when the entry expires (CheckURL, "fail-closed").
ThreatStays ==
    [][\A k \in Checker :
          warned /\ answer[k] # "safe" /\ answer'[k] = "safe" =>
              outdated' \/ threat[k] = "safe"]_urlVars

\* When a URL's reputation no longer changes - MaxTurns sees to that - every check
\* comes in the end to the verdict Web Risk would give, or to none: no entry, and
\* no race of checks for it, keeps an old verdict alive.
VerdictsCatchUp ==
    <>[][\A k \in Checker :
            answer'[k] \in Reputation /\ answer'[k] # answer[k] =>
                answer'[k] = reputation]_urlVars
=============================================================================
