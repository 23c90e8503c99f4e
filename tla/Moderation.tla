----------------------------- MODULE Moderation -----------------------------
(***************************************************************************)
(* What the Engine promises its callers, whatever its caches do: a request *)
(* asks about some contents, and an ALLOW or BLOCK it is given rests on an *)
(* earlier judgement of a content alike to one it asked about.  Without    *)
(* one it is refused outright, put off, or answered with an error.  An     *)
(* answer is never taken back.                                             *)
(***************************************************************************)
CONSTANTS
    Request,
    Content,
    Alike(_, _),   \* a judgement of the first may serve for the second
    Pending        \* no answer yet

VARIABLES
    asked,    \* the contents each request is about
    judged,   \* pairs of a content and what was judged of it
    answer

vars == <<asked, judged, answer>>

Judgement == {"ALLOW", "BLOCK"}

Init ==
    /\ asked = [r \in Request |-> {}]
    /\ judged = {}
    /\ answer = [r \in Request |-> Pending]

\* What a request is about is settled once.
Ask(r, contents) ==
    /\ asked[r] = {} /\ answer[r] = Pending
    /\ asked' = [asked EXCEPT ![r] = contents]
    /\ UNCHANGED <<judged, answer>>

\* Only what somebody asked about is judged.
Judge(r, o, j) ==
    /\ answer[r] = Pending /\ o \in asked[r] /\ o \in Content
    /\ judged' = judged \cup {<<o, j>>}
    /\ UNCHANGED <<asked, answer>>

Decide(r, j) ==
    /\ answer[r] = Pending
    /\ \E p \in judged, o \in asked[r] : p[2] = j /\ o \in Content /\ Alike(p[1], o)
    /\ answer' = [answer EXCEPT ![r] = j]
    /\ UNCHANGED <<asked, judged>>

\* A request about no content yet, a link, may be refused.
Refuse(r) ==
    /\ answer[r] = Pending /\ asked[r] = {}
    /\ answer' = [answer EXCEPT ![r] = "BLOCK"]
    /\ UNCHANGED <<asked, judged>>

PutOff(r) ==
    /\ answer[r] = Pending
    /\ \E d \in {"QUEUED", "ERROR"} : answer' = [answer EXCEPT ![r] = d]
    /\ UNCHANGED <<asked, judged>>

Next ==
    \E r \in Request :
       \/ \E contents \in SUBSET Content : Ask(r, contents)
       \/ \E o \in Content, j \in Judgement : Judge(r, o, j)
       \/ \E j \in Judgement : Decide(r, j)
       \/ Refuse(r)
       \/ PutOff(r)

Spec == Init /\ [][Next]_vars
=============================================================================
