---------------------------- MODULE MCPeerPrompt ----------------------------
(* A small instance of PeerPrompt: one streamed and one posted request, each  *)
(* with a prompt id of its own.                                               *)
EXTENDS PeerPrompt, TLC

CONSTANTS s1, h1, p1, p2

DistinctPrompts == (s1 :> p1) @@ (h1 :> p2)
=============================================================================
