---------------------------- MODULE MCRemoteClip ----------------------------
(* Two clients with different files: one wants its own encoder with a LoRA,  *)
(* then again, without the LoRA, or with one of the legacy folder; the other *)
(* an installed encoder with a LoRA of the first path, or with an image.     *)
EXTENDS RemoteClip, TLC

CONSTANTS c1, c2, f1, f2, base, l1, l2

MCOwn == [clip |-> NoName, lora |-> l1, image |-> NoName]
MCBase == [clip |-> base, lora |-> l1, image |-> NoName]
MCImage == [clip |-> base, lora |-> NoName, image |-> f2]
MCPlain == [MCOwn EXCEPT !.lora = NoName]
MCInFolder == [MCOwn EXCEPT !.lora = l2]
MCWants == (c1 :> <<{MCOwn}, {MCOwn, MCPlain, MCInFolder}>>) @@ (c2 :> <<{MCBase, MCImage}>>)
MCLocal == (c1 :> f1) @@ (c2 :> f2)
MCRuns == (c1 :> 2) @@ (c2 :> 1)
MCClients == {c1, c2}
MCContents == {f1, f2}
MCInstalled == {base}
MCLoras == {l1, l2}
MCLegacy == {l2}
=============================================================================
