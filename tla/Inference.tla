----------------------------- MODULE Inference -----------------------------
(***************************************************************************)
(* The Inference service, inference/server/handler.go and                  *)
(* cmd/inference/main.go: classifications that run while SIGHUP reloads    *)
(* the configuration, and a process that starts, crashes and starts again. *)
(*                                                                         *)
(* What a server works with comes from one load of the configuration file: *)
(* a version of it, and how many prompts its categories had.  Scores and   *)
(* tensors are left out; whether the parts a score is made from belong     *)
(* together is what the properties are about.                              *)
(***************************************************************************)
EXTENDS InferenceRPC

CONSTANTS
    Config,      \* versions of the configuration file
    Prompts,     \* how many prompts a version has in input_ids.json
    Inline,      \* whether a version carries its input_ids in the YAML itself
    Malformed,   \* whether a caller may send what is not a 512x512 JPEG
    MaxReloads   \* bound on SIGHUPs that find a readable file

ASSUME InferenceAssumption ==
    /\ Prompts \in [Config -> Nat \ {0}]
    /\ Inline \in [Config -> BOOLEAN]
    /\ Malformed \in BOOLEAN
    /\ MaxReloads \in Nat

Load == [of : Config, prompts : Nat]

\* LoadConfig alone: only input_ids in the YAML itself are there.
Parsed(g) == [of |-> g, prompts |-> IF Inline[g] THEN Prompts[g] ELSE 0]

\* LoadConfig, then LoadInputIDs, as main does before New.
Complete(g) == [of |-> g, prompts |-> Prompts[g]]

\* The fields of InferenceServer, in the order Reload replaces them.  Three of
\* them are read without the lock too; the categories are not, so that nobody
\* sees them replaced apart from the input_ids before them.
Field == {"config", "triton", "inputIDs", "categories", "textEmbeds"}
NextField == [config |-> "triton", triton |-> "inputIDs", inputIDs |-> "textEmbeds"]
Assigned(f) == IF f = "inputIDs" THEN {"inputIDs", "categories"} ELSE {f}

\* What a classification reads: each field once, and the configuration a second
\* time for the version its response names.
Reading == Field \cup {"version"}

VARIABLES
    file,     \* the version on disk: what a reload or a restart finds
    up,       \* whether the process serves
    server,   \* from which load each field of the server is
    reload,   \* what Reload replaces next, under the write lock, and its load
    stale,    \* whether the last reload failed to embed its prompts
    reloads,  \* SIGHUPs so far
    stage,    \* where each classification stands, or how it ended
    snap,     \* from which load each reading of its is
    calm,     \* history: classifications no reload has run beside
    doubtful  \* history: those that read the server while it was stale

historyVars == <<calm, doubtful>>
serverVars == <<file, up, server, reload, stale, reloads, stage, snap, historyVars>>

Idle == [at |-> "idle", to |-> Parsed(CHOOSE g \in Config : TRUE)]
Stage == {"idle", "snapshot", "image", "score", "respond"} \cup Answered
NoSnap == [f \in Reading |-> Parsed(CHOOSE g \in Config : TRUE)]

ServerInit ==
    /\ file \in Config
    /\ up = TRUE
    /\ \E g \in Config : server = [f \in Field |-> Complete(g)]
    /\ reload = Idle
    /\ stale = FALSE
    /\ reloads = 0
    /\ stage = [c \in Caller |-> "idle"]
    /\ snap = [c \in Caller |-> NoSnap]
    /\ calm = {} /\ doubtful = {}
-----------------------------------------------------------------------------
(* Reload, run by the one goroutine that receives SIGHUP.                  *)

\* The file parsed and the new Triton client is made: take the write lock.  A
\* file that does not parse changes nothing.
Sighup ==
    /\ up /\ reload = Idle /\ reloads < MaxReloads
    /\ reload' = [at |-> "config", to |-> Parsed(file)]
    /\ reloads' = reloads + 1
    /\ calm' = {}
    /\ UNCHANGED <<file, up, server, stale, stage, snap, doubtful>>

\* Mutant: the lock is released before the prompts are embedded.
LockedShort == reload.at \notin {"idle", "textEmbeds"}

Locked == reload # Idle

\* Assignments under the lock, which readers outside the lock can observe.
Replace ==
    /\ reload.at \in DOMAIN NextField
    /\ server' = [f \in Field |-> IF f \in Assigned(reload.at) THEN reload.to
                                ELSE server[f]]
    /\ reload' = [reload EXCEPT !.at = NextField[@]]
    /\ UNCHANGED <<file, up, stale, reloads, stage, snap, historyVars>>

\* computeTextEmbeds; the deferred unlock follows it whether it fails or not.
Embed ==
    /\ reload.at = "textEmbeds" /\ reload.to.prompts > 0
    /\ \/ server' = [server EXCEPT !.textEmbeds = reload.to] /\ stale' = FALSE
       \/ stale' = TRUE /\ UNCHANGED server
    /\ reload' = Idle
    /\ UNCHANGED <<file, up, reloads, stage, snap, historyVars>>

\* Without prompts, inputIDs[0] is out of range: the panic of this goroutine
\* is recovered by nobody and ends the process.
EmbedPanics ==
    /\ reload.at = "textEmbeds" /\ reload.to.prompts = 0
    /\ up' = FALSE
    /\ reload' = Idle
    /\ stage' = [c \in Caller |-> IF stage[c] = "idle" THEN "idle"
                                  ELSE "unavailable"]
    /\ snap' = [c \in Caller |-> NoSnap]
    /\ calm' = {} /\ doubtful' = {}
    /\ UNCHANGED <<file, server, stale, reloads>>

\* The supervisor starts the process again: main and New.
Start ==
    /\ ~up
    /\ up' = TRUE
    /\ server' = [f \in Field |-> Complete(file)]
    /\ stale' = FALSE
    /\ calm' = {}
    /\ UNCHANGED <<file, reload, reloads, stage, snap, doubtful>>
-----------------------------------------------------------------------------
(* Classify.                                                               *)

At(c, s) == stage' = [stage EXCEPT ![c] = s]

\* What a call has read is forgotten when it ends.  A panic of a handler is
\* recovered by net/http; the call fails.
Finish(c, outcome) ==
    /\ At(c, outcome)
    /\ snap' = [snap EXCEPT ![c] = NoSnap]
    /\ calm' = calm \ {c} /\ doubtful' = doubtful \ {c}
    /\ UNCHANGED <<file, up, server, reload, stale, reloads>>

\* The request arrives, its image is decoded, and len(s.inputIDs[0]) is read
\* without the lock.  A slice header caught half replaced has the length of
\* either and panics like an empty one, or fails at Triton.
Accept(c) ==
    \/ /\ up /\ server.inputIDs.prompts > 0
       /\ snap' = [snap EXCEPT ![c].inputIDs = server.inputIDs]
       /\ calm' = IF Locked THEN calm \ {c} ELSE calm \cup {c}
       /\ At(c, "snapshot")
       /\ UNCHANGED <<file, up, server, reload, stale, reloads, doubtful>>
    \/ up /\ Malformed /\ Finish(c, "invalid")
    \/ (up => server.inputIDs.prompts = 0 \/ Locked) /\ Finish(c, "unavailable")

\* Three fields under the read lock.
Snapshot(c) ==
    /\ stage[c] = "snapshot" /\ ~Locked
    /\ snap' = [snap EXCEPT ![c] = [f \in Reading |->
                   IF f \in {"textEmbeds", "categories", "config"}
                   THEN server[f] ELSE @[f]]]
    /\ doubtful' = IF stale THEN doubtful \cup {c} ELSE doubtful \ {c}
    /\ At(c, "image")
    /\ UNCHANGED <<file, up, server, reload, stale, reloads, calm>>

\* InferImageEmbeds on s.triton, read without the lock.
ImageEmbeds(c) ==
    /\ stage[c] = "image"
    /\ \/ /\ snap' = [snap EXCEPT ![c].triton = server.triton]
          /\ At(c, "score")
          /\ UNCHANGED <<file, up, server, reload, stale, reloads, historyVars>>
       \/ Finish(c, "unavailable")

\* classifier.Classify walks the logits, one per embedded prompt, by the
\* prompt counts of the categories: too few logits are out of range.
Score(c) ==
    /\ stage[c] = "score"
    /\ LET short == snap[c].categories.prompts > snap[c].textEmbeds.prompts
       IN  \/ short /\ Finish(c, "unavailable")
           \/ /\ ~short /\ At(c, "respond")
              /\ UNCHANGED <<file, up, server, reload, stale, reloads, snap, historyVars>>

\* The response names the model version of s.config, read again without the
\* lock and not from what was read under it.
Respond(c) ==
    /\ stage[c] = "respond"
    /\ snap' = [snap EXCEPT ![c].version = server.config]
    /\ At(c, "ok")
    /\ UNCHANGED <<file, up, server, reload, stale, reloads, historyVars>>

ClassifyStep(c) == Snapshot(c) \/ ImageEmbeds(c) \/ Score(c) \/ Respond(c)
ReloadStep == Sighup \/ Replace \/ Embed \/ EmbedPanics \/ Start
-----------------------------------------------------------------------------
ServerTypeOK ==
    /\ file \in Config /\ up \in BOOLEAN /\ stale \in BOOLEAN
    /\ server \in [Field -> Load]
    /\ reload \in [at : Field \cup {"idle"}, to : Load]
    /\ reloads \in 0 .. MaxReloads
    /\ stage \in [Caller -> Stage]
    /\ snap \in [Caller -> [Reading -> Load]]
    /\ calm \subseteq Caller /\ doubtful \subseteq Caller

\* Which readings a classification has made, by its stage.
Read(c) ==
    CASE stage[c] = "image" -> Field \ {"triton"}
      [] stage[c] \in {"score", "respond"} -> Field
      [] stage[c] = "ok" -> Reading
      [] OTHER -> {}

\* The categories, settings and text embeddings of a classification are from one
\* load even when a reload runs beside it (Classify, lines 169-173), unless an
\* earlier reload had failed to embed its prompts (Reload, line 129).  What it
\* reads without the lock (lines 163, 175 and 229: the length of its zero
\* input_ids, the model that embeds its image, the version its response names)
\* is from that load too if no reload runs while it does; otherwise they may all
\* be of different ones, though no reload has failed.
OneConfig ==
    \A c \in Caller \ doubtful : \A f \in Read(c) :
        f \in {"config", "categories"} \/ c \in calm => snap[c][f] = snap[c].textEmbeds

\* A SIGHUP reloads prompts and thresholds (cmd/inference/main.go, line 12); it
\* does not take the service down.
SighupKeepsServing == up
=============================================================================
