------------------------------- MODULE MCEdge -------------------------------
(***************************************************************************)
(* Two bots of one workspace whose quota is one short of the messages that *)
(* ask for it: a gated and an ungated one, of which only the first         *)
(* enforces, a link, an image without text and a forwarded link.           *)
(***************************************************************************)
EXTENDS Edge, TLC

CONSTANTS b1, b2, m1, m2, m3, m4

MCHome == m1 :> b1 @@ m2 :> b1 @@ m3 :> b2 @@ m4 :> b1
MCShape == m1 :> {"text", "link"} @@ m2 :> {"attachment", "cdn"}
           @@ m3 :> {"forwardedLink"} @@ m4 :> {"text"}
=============================================================================
