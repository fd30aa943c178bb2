------------------------- MODULE GroupCompilerProofs -------------------------
(***************************************************************************)
(* Proofs about GroupCompiler, for every graph, placement and number of    *)
(* groups: the compiled prompts give each node the values it had in the    *)
(* editor, name only nodes they have, and execute each node, one that must *)
(* not be duplicated once.                                                 *)
(*                                                                         *)
(* A link of a prompt in the making carries an original output (Carries):  *)
(* it is that output, as long as no compiled group contains its node, or   *)
(* it is the wrapper's or decoder's output for the port of that output.    *)
(* Every rewriting keeps what a link carries.                              *)
(***************************************************************************)
EXTENDS GroupCompiler, TLAPS, FiniteSetTheorems

Wrapper(g) == <<"wrapper", g, 0>>
Prepare(g) == <<"prepare", g, 0>>
Decoder(g, k) == <<"decode", g, k>>
Encoder(g, k) == <<"encode", g, k>>
Input(g, k) == <<"input", g, k>>
Boundary(g) == <<"output", g, 0>>

In(g) == ports[g].in
Out(g) == ports[g].out

TypeOK ==
  /\ graph \in Graphs
  /\ stage \in {"editor", "grouped", "planned", "compiled", "refused"}
  /\ inside \in [Groups -> SUBSET Nodes] /\ relocated \in [Groups -> SUBSET Nodes]
  /\ wrapper \in [Groups -> [class: {"none", "executor", "value_executor"},
                             policy: {"none", "sender-v1", "remote"}]]
  /\ remote = [g \in Groups |-> remote[g]] /\ preload = [g \in Groups |-> preload[g]]
  /\ ports = [g \in Groups |-> [in |-> In(g), out |-> Out(g)]]

\* Before the groups are compiled nothing has been rewritten.
NothingYet ==
  /\ stage \in {"editor", "grouped"} =>
       /\ prompt = Original /\ \A g \in Groups : ~Compiled(g) /\ relocated[g] = {}
  /\ \A g \in Groups : ~Compiled(g) => remote[g] = <<>> /\ preload[g] = <<>>

\* A node is in one group at most, and one that is relocated is in none.
Apart == \A g, h \in Groups : g # h => inside[g] \cap inside[h] = {}

Relocations ==
  \A g \in Groups : \A n \in relocated[g] :
    /\ inside[g] # {} /\ graph.recipe[n] \in {"declared", "plain"}
    /\ \A h \in Groups : n \notin inside[h]

Stays(n) == \A g \in Groups : Compiled(g) => n \notin inside[g]

\* What the local prompt gets for a group that is compiled.
Added(g, out) == {Decoder(g, k) : k \in Adapts(out)} \cup {Prepare(g), Wrapper(g)}

LocalIds ==
  {Node(n) : n \in {m \in Nodes : Stays(m)}}
  \cup {Wrapper(g) : g \in {h \in Groups : Compiled(h)}}
  \cup {Prepare(g) : g \in {h \in Groups : Compiled(h)}}
  \cup UNION {{Decoder(g, k) : k \in Adapts(Out(g))} : g \in {h \in Groups : Compiled(h)}}

\* The local prompt has the nodes that are left and what was added, and loses some
\* relocated ones in the end.
LocalShape ==
  /\ DOMAIN prompt \subseteq LocalIds
  /\ LocalIds \ Ids(AllRelocated) \subseteq DOMAIN prompt
  /\ IF stage = "compiled" THEN Closed(prompt) ELSE LocalIds \subseteq DOMAIN prompt

\* Link l carries the output of type t of node m.
Carries(l, m, t) ==
  \/ l = Output(m, t) /\ Stays(m)
  \/ \E g \in Groups : \E k \in DOMAIN Out(g) :
       /\ Compiled(g) /\ Out(g)[k].link = Output(m, t) /\ Out(g)[k].type = t
       /\ l = Generated(IF t \in Adapted THEN "decode" ELSE "wrapper", g, k)

\* Links of original nodes carry what they did; those of what was added carry something.
NodeLinks(n) ==
  /\ DOMAIN prompt[Node(n)] = Feeds(n)
  /\ \A m \in Feeds(n) : Carries(prompt[Node(n)][m], m, Wire(m, n))

AddedLinks(g) ==
  /\ DOMAIN prompt[Wrapper(g)] = 1..Len(In(g)) + 1
  /\ prompt[Wrapper(g)][Len(In(g)) + 1] = Generated("prepare", g, 0)
  /\ \A k \in DOMAIN In(g) : \E m \in Nodes, t \in Types : Carries(prompt[Wrapper(g)][k], m, t)
  /\ DOMAIN prompt[Prepare(g)] = {}
  /\ \A k \in Adapts(Out(g)) : /\ DOMAIN prompt[Decoder(g, k)] = {1}
                               /\ prompt[Decoder(g, k)][1] = Generated("wrapper", g, k)

LocalLinks ==
  /\ \A n \in Nodes : Node(n) \in DOMAIN prompt => NodeLinks(n)
  /\ \A g \in Groups : Compiled(g) => AddedLinks(g)

InputPorts(g) == IF In(g) = <<>> THEN {0} ELSE DOMAIN In(g)

\* What is at a peer: the group's nodes and its boundary.
RemoteShapeOf(g) ==
  /\ DOMAIN In(g) = 1..Len(In(g)) /\ Len(In(g)) \in Nat
  /\ \A k \in DOMAIN Out(g) : \E n \in inside[g], t \in Types :
       Out(g)[k].link = Output(n, t) /\ Out(g)[k].type = t
  /\ DOMAIN remote[g] = Ids(RemoteNodes(g)) \cup {Input(g, k) : k \in InputPorts(g)}
                        \cup {Encoder(g, k) : k \in Adapts(Out(g))} \cup {Boundary(g)}
  /\ \A k \in InputPorts(g) : remote[g][Input(g, k)] = <<>>
  /\ \A k \in Adapts(Out(g)) : remote[g][Encoder(g, k)] = <<Out(g)[k].link>>
  /\ remote[g][Boundary(g)] = [k \in DOMAIN Out(g) |->
       IF k \in Adapts(Out(g)) THEN Generated("encode", g, k) ELSE Out(g)[k].link]
  /\ Closed(preload[g])

RemoteShape == \A g \in Groups : Compiled(g) => RemoteShapeOf(g)

\* Links of the nodes there name them, or a port over which the same comes in.
RemoteLinksOf(g, n) ==
  /\ DOMAIN remote[g][Node(n)] = Feeds(n)
  /\ \A m \in Feeds(n) :
       \/ m \in RemoteNodes(g) /\ remote[g][Node(n)][m] = Output(m, Wire(m, n))
       \/ \E k \in DOMAIN In(g) : /\ remote[g][Node(n)][m] = Generated("input", g, k)
                                  /\ Carries(prompt[Wrapper(g)][k], m, Wire(m, n))

RemoteLinks ==
  \A g \in Groups : Compiled(g) => \A n \in RemoteNodes(g) : RemoteLinksOf(g, n)

\* Done only when every group is compiled.
AllCompiled == Done => \A g \in Groups : inside[g] # {} => Compiled(g)

IInv ==
  /\ TypeOK /\ NothingYet /\ Apart /\ Relocations
  /\ LocalShape /\ LocalLinks /\ RemoteShape /\ RemoteLinks /\ AllCompiled

-------------------------------------------------------------------------------
(* Finite sets and their enumerations.                                        *)

LEMMA Enumerated ==
  ASSUME NEW S, IsFiniteSet(S)
  PROVE  LET s == SetToSeq(S)
         IN /\ s \in [1..Len(s) -> S] /\ Len(s) \in Nat
            /\ \A x \in S : \E k \in DOMAIN s : s[k] = x
            /\ ToSet(s) = S
<1> DEFINE s == SetToSeq(S)
           size == Cardinality(S)
<1>1. size \in Nat /\ ExistsBijection(1..size, S)
  BY FS_CardinalityType
<1>2. PICK f \in Bijection(1..size, S) : TRUE
  BY <1>1 DEF ExistsBijection
<1>3. f \in [1..size -> S] /\ IsInjective(f)
  BY <1>2 DEF Bijection, Injection, IsInjective
<1>4. s \in [1..size -> S] /\ IsInjective(s)
  BY <1>3 DEF SetToSeq
<1> HIDE DEF s
<1>5. s \in Injection(1..size, S)
  BY <1>4 DEF Injection, IsInjective
<1>6. IsFiniteSet(1..size) /\ Cardinality(1..size) = size
  <2>1. \A n \in Nat : IsFiniteSet(1..n) /\ Cardinality(1..n) = n
    BY FS_Interval, SMTT(30)
  <2> QED
    BY <1>1, <2>1
<1>7. s \in Surjection(1..size, S)
  BY <1>5, <1>6, FS_Injection
<1>8. s \in Seq(S) /\ Len(s) = size
  BY <1>1, <1>4
<1> QED
  BY <1>1, <1>4, <1>7, <1>8 DEF Surjection, ToSet, s

LEMMA ImageFinite ==
  ASSUME NEW S, NEW f, IsFiniteSet(S)
  PROVE  IsFiniteSet({f[x] : x \in S})
<1> DEFINE T == {f[x] : x \in S}
           h == [x \in S |-> f[x]]
<1>1. h \in Surjection(S, T)
  BY DEF Surjection
<1> QED
  BY <1>1, FS_Surjection

LEMMA NodesFinite == IsFiniteSet(Nodes)
BY CompilerAssumption, FS_Interval DEF Nodes

LEMMA TypesFinite == IsFiniteSet(Types)
<1>1. IsFiniteSet({"latent"} \cup {"image"}) /\ IsFiniteSet({"video"} \cup {"lora_chain"})
  BY FS_Singleton, FS_Union
<1>2. IsFiniteSet({"latent", "image"} \cup {"video", "lora_chain"})
  BY <1>1, FS_Union
<1>3. IsFiniteSet({"latent", "image", "video", "lora_chain"} \cup {"model"})
  <2>1. IsFiniteSet({"model"})
    BY FS_Singleton
  <2> QED
    BY <1>2, <2>1, FS_Union
<1> QED
  BY <1>3 DEF Types

LEMMA InboundFinite ==
  ASSUME TypeOK, NEW g \in Groups
  PROVE  IsFiniteSet(Inbound(g))
<1>1. IsFiniteSet(Nodes \X Nodes)
  BY NodesFinite, FS_Product
<1>2. Entering(g) \subseteq Nodes \X Nodes
  BY DEF Entering, RemoteNodes, TypeOK
<1>3. IsFiniteSet(Entering(g))
  BY <1>1, <1>2, FS_Subset
<1> DEFINE port == [w \in Entering(g) |->
                      [link |-> prompt[Node(w[2])][w[1]], type |-> Wire(w[1], w[2])]]
<1>4. Inbound(g) = {port[w] : w \in Entering(g)}
  BY DEF Inbound
<1> HIDE DEF port
<1> QED
  BY <1>3, <1>4, ImageFinite

LEMMA OutboundFinite ==
  ASSUME TypeOK, NEW g \in Groups
  PROVE  IsFiniteSet(Outbound(g))
<1>1. IsFiniteSet(Nodes \X Types)
  BY NodesFinite, TypesFinite, FS_Product
<1>2. Leaving(g) \subseteq Nodes \X Types
  BY DEF Leaving, TypeOK
<1>3. IsFiniteSet(Leaving(g))
  BY <1>1, <1>2, FS_Subset
<1> DEFINE port == [w \in Leaving(g) |-> [link |-> Output(w[1], w[2]), type |-> w[2]]]
<1>4. Outbound(g) = {port[w] : w \in Leaving(g)}
  BY DEF Outbound
<1> HIDE DEF port
<1> QED
  BY <1>3, <1>4, ImageFinite

-------------------------------------------------------------------------------
(* The two prompts of a group.                                                *)

\* What the local prompt p is for these ports ...
LocalPromptOf(g, in, out, p) ==
  /\ DOMAIN p = (DOMAIN prompt \ Ids(inside[g])) \cup Added(g, out)
  /\ \A k \in Adapts(out) : p[Decoder(g, k)] = <<Generated("wrapper", g, k)>>
  /\ p[Prepare(g)] = <<>>
  /\ DOMAIN p[Wrapper(g)] = 1..Len(in) + 1
  /\ p[Wrapper(g)][Len(in) + 1] = Generated("prepare", g, 0)
  /\ \A k \in DOMAIN in : p[Wrapper(g)][k] = in[k].link
  /\ \A id \in (DOMAIN prompt \ Ids(inside[g])) \ Added(g, out) :
       /\ DOMAIN p[id] = DOMAIN prompt[id]
       /\ \A i \in DOMAIN prompt[id] : p[id][i] = Led(g, out, prompt[id][i])

LEMMA LocalPromptShape ==
  ASSUME NEW g, NEW in, NEW out, Len(in) \in Nat, DOMAIN in = 1..Len(in),
         NEW p, p = LocalPrompt(g, in, out)
  PROVE  LocalPromptOf(g, in, out, p)
<1> DEFINE b == LocalBoundary(g, in, out)
           links == [k \in DOMAIN in |-> in[k].link]
<1>1. DOMAIN b = Added(g, out)
  BY DEF Added, LocalBoundary, Decoder, Prepare, Wrapper
<1>2. \A k \in Adapts(out) : b[Decoder(g, k)] = <<Generated("wrapper", g, k)>>
  BY DEF LocalBoundary, Decoder
<1>3. b[Prepare(g)] = <<>>
  BY DEF LocalBoundary, Prepare
<1>4. b[Wrapper(g)] = Append(links, Generated("prepare", g, 0))
  BY DEF LocalBoundary, Wrapper
<1>5. /\ DOMAIN b[Wrapper(g)] = 1..Len(in) + 1
      /\ b[Wrapper(g)][Len(in) + 1] = Generated("prepare", g, 0)
      /\ \A k \in DOMAIN in : b[Wrapper(g)][k] = in[k].link
  <2>1. links \in Seq({in[k].link : k \in DOMAIN in}) /\ Len(links) = Len(in)
    OBVIOUS
  <2> HIDE DEF links
  <2>2. \A k \in DOMAIN in : links[k] = in[k].link
    BY DEF links
  <2> QED
    BY <1>4, <2>1, <2>2
<1> HIDE DEF b
<1>6. /\ DOMAIN p = (DOMAIN prompt \ Ids(inside[g])) \cup Added(g, out)
      /\ \A id \in Added(g, out) : p[id] = b[id]
      /\ \A id \in (DOMAIN prompt \ Ids(inside[g])) \ Added(g, out) :
           /\ DOMAIN p[id] = DOMAIN prompt[id]
           /\ \A i \in DOMAIN prompt[id] : p[id][i] = Led(g, out, prompt[id][i])
  <2>1. p = With(LocalBody(g, out), b)
    BY DEF LocalPrompt, b
  <2>2. /\ DOMAIN LocalBody(g, out) = DOMAIN prompt \ Ids(inside[g])
        /\ \A id \in DOMAIN prompt \ Ids(inside[g]) :
             /\ DOMAIN LocalBody(g, out)[id] = DOMAIN prompt[id]
             /\ \A i \in DOMAIN prompt[id] :
                  LocalBody(g, out)[id][i] = Led(g, out, prompt[id][i])
    BY DEF LocalBody
  <2> QED
    BY <1>1, <2>1, <2>2 DEF With
<1>7. \A k \in Adapts(out) : Decoder(g, k) \in Added(g, out)
  BY DEF Added
<1>8. Prepare(g) \in Added(g, out) /\ Wrapper(g) \in Added(g, out)
  BY DEF Added
<1>9. /\ \A k \in Adapts(out) : p[Decoder(g, k)] = <<Generated("wrapper", g, k)>>
      /\ p[Prepare(g)] = <<>>
      /\ p[Wrapper(g)] = b[Wrapper(g)]
  BY <1>2, <1>3, <1>6, <1>7, <1>8
<1> QED
  BY <1>5, <1>6, <1>9 DEF LocalPromptOf

\* ... and the remote one.
RemotePromptOf(g, in, out, p) ==
  LET inputs == IF in = <<>> THEN {0} ELSE DOMAIN in
  IN /\ DOMAIN p = Ids(RemoteNodes(g)) \cup {Input(g, k) : k \in inputs}
                   \cup {Encoder(g, k) : k \in Adapts(out)} \cup {Boundary(g)}
     /\ \A k \in inputs : p[Input(g, k)] = <<>>
     /\ \A k \in Adapts(out) : p[Encoder(g, k)] = <<out[k].link>>
     /\ p[Boundary(g)] = [k \in DOMAIN out |->
          IF k \in Adapts(out) THEN Generated("encode", g, k) ELSE out[k].link]
     /\ \A n \in RemoteNodes(g) : p[Node(n)] = RemoteBody(g, in)[Node(n)]

LEMMA RemotePromptShape ==
  ASSUME NEW g, NEW in, NEW out, NEW p, p = RemotePrompt(g, in, out)
  PROVE  RemotePromptOf(g, in, out, p)
<1> DEFINE b == RemoteBoundary(g, in, out)
           inputs == IF in = <<>> THEN {0} ELSE DOMAIN in
           added == {Input(g, k) : k \in inputs} \cup {Encoder(g, k) : k \in Adapts(out)}
                    \cup {Boundary(g)}
<1> HIDE DEF inputs
<1>1. DOMAIN b = added
  BY DEF RemoteBoundary, Input, Encoder, Boundary, inputs
<1>2. \A k \in inputs : b[Input(g, k)] = <<>>
  BY DEF RemoteBoundary, Input, inputs
<1>3. \A k \in Adapts(out) : b[Encoder(g, k)] = <<out[k].link>>
  BY DEF RemoteBoundary, Encoder, inputs
<1>4. b[Boundary(g)] = [k \in DOMAIN out |->
         IF k \in Adapts(out) THEN Generated("encode", g, k) ELSE out[k].link]
  BY DEF RemoteBoundary, Boundary, inputs
<1> HIDE DEF b
<1>5. \A n \in RemoteNodes(g) : Node(n) \notin added
  BY DEF Node, Input, Encoder, Boundary
<1>6. /\ \A k \in inputs : Input(g, k) \in added
      /\ \A k \in Adapts(out) : Encoder(g, k) \in added
      /\ Boundary(g) \in added
  OBVIOUS
<1>7. /\ DOMAIN p = Ids(RemoteNodes(g)) \cup added
      /\ \A id \in added : p[id] = b[id]
      /\ \A n \in RemoteNodes(g) : p[Node(n)] = RemoteBody(g, in)[Node(n)]
  <2> HIDE DEF added
  <2>1. p = With(RemoteBody(g, in), b)
    BY DEF RemotePrompt, b
  <2>2. DOMAIN RemoteBody(g, in) = Ids(RemoteNodes(g))
    BY DEF RemoteBody
  <2>3. \A n \in RemoteNodes(g) : Node(n) \in Ids(RemoteNodes(g))
    BY DEF Ids
  <2> QED
    BY <1>1, <1>5, <2>1, <2>2, <2>3 DEF With
<1> QED
  <2>1. DOMAIN p = Ids(RemoteNodes(g)) \cup {Input(g, k) : k \in inputs}
                   \cup {Encoder(g, k) : k \in Adapts(out)} \cup {Boundary(g)}
    BY <1>7
  <2> HIDE DEF added
  <2> QED
    BY <1>2, <1>3, <1>4, <1>6, <1>7, <2>1 DEF inputs, RemotePromptOf

-------------------------------------------------------------------------------
(* One group is compiled.                                                     *)

LEMMA Sources ==
  ASSUME NEW n, NEW t, NEW g, NEW k
  PROVE  /\ SourceOf(Output(n, t)) = Node(n)
         /\ SourceOf(Generated("wrapper", g, k)) = Wrapper(g)
         /\ SourceOf(Generated("decode", g, k)) = Decoder(g, k)
         /\ SourceOf(Generated("encode", g, k)) = Encoder(g, k)
         /\ SourceOf(Generated("input", g, k)) = Input(g, k)
         /\ SourceOf(Generated("prepare", g, 0)) = Prepare(g)
BY DEF SourceOf, Output, Generated, Node, Wrapper, Decoder, Encoder, Input, Prepare

LEMMA IdsDiffer ==
  ASSUME NEW m, NEW n, NEW g, NEW h, NEW j, NEW k
  PROVE  /\ Node(m) = Node(n) => m = n
         /\ Wrapper(g) = Wrapper(h) => g = h
         /\ Prepare(g) = Prepare(h) => g = h
         /\ Decoder(g, j) = Decoder(h, k) => g = h /\ j = k
         /\ Node(n) \notin {Wrapper(g), Prepare(g), Decoder(g, j), Encoder(g, j), Input(g, j),
                            Boundary(g)}
         /\ Wrapper(g) # Prepare(h) /\ Wrapper(g) # Decoder(h, j) /\ Prepare(g) # Decoder(h, j)
         /\ Input(g, j) # Encoder(h, k)
         /\ Input(g, j) # Boundary(h)
         /\ Encoder(g, j) # Boundary(h)
BY DEF Node, Wrapper, Prepare, Decoder, Encoder, Input, Boundary

LEMMA LinksDiffer ==
  ASSUME NEW m, NEW n, NEW t, NEW u, NEW g, NEW k
  PROVE  /\ Output(m, t) = Output(n, u) => m = n /\ t = u
         /\ Output(m, t)[4] = t
         /\ Output(m, t) # Generated("wrapper", g, k)
         /\ Output(m, t) # Generated("decode", g, k)
         /\ Output(m, t) # Generated("prepare", g, k)
         /\ Output(m, t) # Generated("input", g, k)
         /\ Output(m, t) # Generated("encode", g, k)
BY DEF Output, Generated

Compiles(g) == CompileGroup(g) /\ Crosses(Inbound(g), Outbound(g))

LEMMA CompileEffect ==
  ASSUME TypeOK, NEW g \in Groups, Compiles(g)
  PROVE  /\ TypeOK'
         /\ stage = "planned" /\ inside[g] # {} /\ ~Compiled(g)
         /\ UNCHANGED <<graph, stage, inside, relocated>>
         /\ In(g)' = SetToSeq(Inbound(g)) /\ Out(g)' = SetToSeq(Outbound(g))
         /\ prompt' = LocalPrompt(g, In(g)', Out(g)')
         /\ remote'[g] = RemotePrompt(g, In(g)', Out(g)')
         /\ preload'[g] = PreloadWorkflow(g, remote'[g])
         /\ \A h \in Groups : h # g =>
              /\ In(h)' = In(h) /\ Out(h)' = Out(h)
              /\ remote'[h] = remote[h] /\ preload'[h] = preload[h]
         /\ \A h \in Groups : Compiled(h)' <=> Compiled(h) \/ h = g
<1> DEFINE class == WrapperClass(g, SetToSeq(Outbound(g)))
<1>1. /\ stage = "planned" /\ inside[g] # {} /\ ~Compiled(g)
      /\ UNCHANGED <<graph, stage, inside, relocated>>
      /\ remote' = [remote EXCEPT ![g] =
                      RemotePrompt(g, SetToSeq(Inbound(g)), SetToSeq(Outbound(g)))]
      /\ prompt' = LocalPrompt(g, SetToSeq(Inbound(g)), SetToSeq(Outbound(g)))
      /\ ports' = [ports EXCEPT ![g] =
                     [in |-> SetToSeq(Inbound(g)), out |-> SetToSeq(Outbound(g))]]
      /\ wrapper' = [wrapper EXCEPT ![g] = [class |-> class, policy |-> CachePolicy(g, class)]]
      /\ preload' = [preload EXCEPT ![g] = PreloadWorkflow(g, remote'[g])]
  BY DEF Compiles, CompileGroup
<1>2. /\ class \in {"executor", "value_executor"}
      /\ CachePolicy(g, class) \in {"sender-v1", "remote"}
  BY DEF WrapperClass, CachePolicy
<1> HIDE DEF class
<1>3. /\ wrapper' \in [Groups -> [class: {"none", "executor", "value_executor"},
                                  policy: {"none", "sender-v1", "remote"}]]
      /\ \A h \in Groups : Compiled(h)' <=> Compiled(h) \/ h = g
  BY <1>1, <1>2 DEF TypeOK, Compiled
<1>4. /\ remote' = [h \in Groups |-> IF h = g THEN remote'[g] ELSE remote[h]]
      /\ remote'[g] = RemotePrompt(g, SetToSeq(Inbound(g)), SetToSeq(Outbound(g)))
  BY <1>1 DEF TypeOK
<1>5. /\ preload' = [h \in Groups |-> IF h = g THEN preload'[g] ELSE preload[h]]
      /\ preload'[g] = PreloadWorkflow(g, remote'[g])
  BY <1>1 DEF TypeOK
<1>6. ports' = [h \in Groups |->
                  IF h = g THEN [in |-> SetToSeq(Inbound(g)), out |-> SetToSeq(Outbound(g))]
                           ELSE ports[h]]
  BY <1>1 DEF TypeOK
<1>7. /\ In(g)' = SetToSeq(Inbound(g)) /\ Out(g)' = SetToSeq(Outbound(g))
      /\ \A h \in Groups : h # g => In(h)' = In(h) /\ Out(h)' = Out(h)
  BY <1>6 DEF In, Out
<1>8. ports' = [h \in Groups |-> [in |-> In(h)', out |-> Out(h)']]
  <2>1. \A h \in Groups : ports[h] = [in |-> In(h), out |-> Out(h)]
    BY DEF TypeOK
  <2>2. \A h \in Groups : ports'[h] = [in |-> In(h)', out |-> Out(h)']
    BY <1>6, <1>7, <2>1
  <2> QED
    BY <1>6, <2>2
<1>9. TypeOK'
  BY <1>1, <1>3, <1>4, <1>5, <1>8 DEF TypeOK
<1> QED
  BY <1>1, <1>3, <1>4, <1>5, <1>7, <1>9

\* Its ports: one for each value that enters, one for each that leaves.
LEMMA PortsMade ==
  ASSUME TypeOK, NEW g \in Groups, Compiles(g)
  PROVE  /\ DOMAIN In(g)' = 1..Len(In(g)') /\ Len(In(g)') \in Nat
         /\ ToSet(In(g)') = Inbound(g)
         /\ \A p \in Inbound(g) : \E k \in DOMAIN In(g)' : In(g)'[k] = p
         /\ \A k \in DOMAIN In(g)' : In(g)'[k] \in Inbound(g)
         /\ \A k \in DOMAIN Out(g)' : \E n \in inside[g], t \in Types :
              Out(g)'[k].link = Output(n, t) /\ Out(g)'[k].type = t
         /\ \A n \in inside[g], t \in Types : <<n, t>> \in Leaving(g) =>
              \E k \in DOMAIN Out(g)' : Out(g)'[k].link = Output(n, t)
<1>1. In(g)' = SetToSeq(Inbound(g)) /\ Out(g)' = SetToSeq(Outbound(g))
  BY CompileEffect
<1>2. /\ DOMAIN In(g)' = 1..Len(In(g)') /\ Len(In(g)') \in Nat
      /\ ToSet(In(g)') = Inbound(g)
      /\ \A p \in Inbound(g) : \E k \in DOMAIN In(g)' : In(g)'[k] = p
      /\ \A k \in DOMAIN In(g)' : In(g)'[k] \in Inbound(g)
  BY <1>1, InboundFinite, Enumerated
<1>3. /\ \A p \in Outbound(g) : \E k \in DOMAIN Out(g)' : Out(g)'[k] = p
      /\ \A k \in DOMAIN Out(g)' : Out(g)'[k] \in Outbound(g)
  BY <1>1, OutboundFinite, Enumerated
<1>4. \A p \in Outbound(g) : \E n \in inside[g], t \in Types :
        p.link = Output(n, t) /\ p.type = t
  <2> SUFFICES ASSUME NEW p \in Outbound(g)
               PROVE  \E n \in inside[g], t \in Types : p.link = Output(n, t) /\ p.type = t
    OBVIOUS
  <2>1. PICK w \in Leaving(g) : p = [link |-> Output(w[1], w[2]), type |-> w[2]]
    BY DEF Outbound
  <2>2. w[1] \in inside[g] /\ w[2] \in Types
    BY DEF Leaving
  <2> QED
    BY <2>1, <2>2
<1>5. ASSUME NEW n \in inside[g], NEW t \in Types, <<n, t>> \in Leaving(g)
      PROVE  \E k \in DOMAIN Out(g)' : Out(g)'[k].link = Output(n, t)
  <2> DEFINE p == [link |-> Output(n, t), type |-> t]
  <2>1. p \in Outbound(g)
    BY <1>5 DEF Outbound
  <2> QED
    BY <1>3, <2>1
<1> QED
  BY <1>2, <1>3, <1>4, <1>5

LEMMA StaysLess ==
  ASSUME TypeOK, NEW g \in Groups, Compiles(g), NEW m
  PROVE  Stays(m)' <=> Stays(m) /\ m \notin inside[g]
BY CompileEffect DEF Stays

\* A link that stays in the prompt carries what it carried.
LEMMA LedCarries ==
  ASSUME TypeOK, NEW g \in Groups, Compiles(g), NEW l, NEW m \in Nodes, NEW t \in Types,
         Carries(l, m, t),
         l = Output(m, t) /\ m \in inside[g] => <<m, t>> \in Leaving(g),
         NEW led, led = Led(g, Out(g)', l)
  PROVE  Carries(led, m, t)'
<1> DEFINE out == Out(g)'
<1>1. CASE l = Output(m, t) /\ m \in inside[g]
  <2>1. HasPort(out, l)
    BY <1>1, PortsMade DEF HasPort
  <2> DEFINE k == PortOf(out, l)
  <2>2. k \in DOMAIN out /\ out[k].link = l
    BY <2>1 DEF HasPort, PortOf
  <2> HIDE DEF k
  <2>3. out[k].type = t
    <3>1. PICK n \in inside[g], u \in Types : out[k].link = Output(n, u) /\ out[k].type = u
      BY <2>2, PortsMade
    <3>2. Output(m, t) = Output(n, u)
      BY <1>1, <2>2, <3>1
    <3>3. t = u
      BY <3>2, LinksDiffer
    <3> QED
      BY <3>1, <3>3
  <2>4. l[4] = t
    BY <1>1, LinksDiffer
  <2>5. Led(g, out, l) = Generated(IF t \in Adapted THEN "decode" ELSE "wrapper", g, k)
    BY <2>1, <2>4 DEF Led, k
  <2>6. Compiled(g)'
    BY CompileEffect
  <2> QED
    BY <1>1, <2>2, <2>3, <2>5, <2>6 DEF Carries
<1>2. CASE l = Output(m, t) /\ m \notin inside[g]
  <2>1. ~HasPort(out, l)
    BY <1>2, PortsMade, LinksDiffer DEF HasPort
  <2>2. Stays(m)
    <3>1. \A h, k : l # Generated(IF t \in Adapted THEN "decode" ELSE "wrapper", h, k)
      BY <1>2, LinksDiffer
    <3> QED
      BY <3>1 DEF Carries
  <2>3. Stays(m)'
    BY <1>2, <2>2, StaysLess
  <2> QED
    BY <1>2, <2>1, <2>3 DEF Led, Carries
<1>3. CASE l # Output(m, t)
  <2>h. PICK h \in Groups : \E k \in DOMAIN Out(h) :
          /\ Compiled(h) /\ Out(h)[k].link = Output(m, t) /\ Out(h)[k].type = t
          /\ l = Generated(IF t \in Adapted THEN "decode" ELSE "wrapper", h, k)
    BY <1>3 DEF Carries
  <2>1. PICK k \in DOMAIN Out(h) :
          /\ Compiled(h) /\ Out(h)[k].link = Output(m, t) /\ Out(h)[k].type = t
          /\ l = Generated(IF t \in Adapted THEN "decode" ELSE "wrapper", h, k)
    BY <2>h
  <2>2. h # g /\ Out(h)' = Out(h) /\ Compiled(h)'
    BY <2>1, CompileEffect
  <2>3. ASSUME NEW i \in DOMAIN out PROVE out[i].link # l
    <3>1. PICK n \in inside[g], u \in Types : out[i].link = Output(n, u)
      BY PortsMade
    <3>2. Output(n, u) # Generated("decode", h, k) /\ Output(n, u) # Generated("wrapper", h, k)
      BY LinksDiffer
    <3> QED
      BY <2>1, <3>1, <3>2
  <2>4. ~HasPort(out, l)
    BY <2>3 DEF HasPort
  <2> QED
    BY <2>1, <2>2, <2>4 DEF Led, Carries
<1> QED
  BY <1>1, <1>2, <1>3

\* ... and so does one that enters the group, which the wrapper takes as it is.
LEMMA EnteringCarries ==
  ASSUME TypeOK, NEW g \in Groups, Compiles(g), NEW l, NEW m \in Nodes, NEW t \in Types,
         Carries(l, m, t), l = Output(m, t) => m \notin inside[g]
  PROVE  Carries(l, m, t)'
<1>1. CASE l = Output(m, t)
  <2>1. Stays(m)
    <3>1. \A h, k : l # Generated(IF t \in Adapted THEN "decode" ELSE "wrapper", h, k)
      BY <1>1, LinksDiffer
    <3> QED
      BY <3>1 DEF Carries
  <2> QED
    BY <1>1, <2>1, StaysLess DEF Carries
<1>2. CASE l # Output(m, t)
  <2>h. PICK h \in Groups : \E k \in DOMAIN Out(h) :
          /\ Compiled(h) /\ Out(h)[k].link = Output(m, t) /\ Out(h)[k].type = t
          /\ l = Generated(IF t \in Adapted THEN "decode" ELSE "wrapper", h, k)
    BY <1>2 DEF Carries
  <2>1. PICK k \in DOMAIN Out(h) :
          /\ Compiled(h) /\ Out(h)[k].link = Output(m, t) /\ Out(h)[k].type = t
          /\ l = Generated(IF t \in Adapted THEN "decode" ELSE "wrapper", h, k)
    BY <2>h
  <2>2. h # g /\ Out(h)' = Out(h) /\ Compiled(h)'
    BY <2>1, CompileEffect
  <2> QED
    BY <2>1, <2>2 DEF Carries
<1> QED
  BY <1>1, <1>2

LEMMA WireTypes ==
  ASSUME TypeOK, NEW n \in Nodes, NEW m \in Feeds(n)
  PROVE  m \in Nodes /\ Wire(m, n) \in Types
<1>1. m \in Nodes /\ m < n /\ Wire(m, n) # "none"
  BY DEF Feeds
<1>2. graph.wires \in [Pairs -> Types \cup {"none"}]
  BY CompilerAssumption DEF TypeOK
<1>3. <<m, n>> \in Pairs
  BY <1>1 DEF Pairs
<1> QED
  BY <1>1, <1>2, <1>3 DEF Wire

\* The group's nodes are in the prompt until it is compiled.
LEMMA NodesThere ==
  ASSUME IInv, NEW g \in Groups, ~Compiled(g), stage = "planned", NEW n \in RemoteNodes(g)
  PROVE  n \in Nodes /\ Node(n) \in DOMAIN prompt /\ NodeLinks(n)
<1>1. n \in Nodes
  BY DEF IInv, TypeOK, RemoteNodes
<1>2. Stays(n)
  BY DEF IInv, Apart, Relocations, RemoteNodes, Stays
<1>3. Node(n) \in DOMAIN prompt
  BY <1>1, <1>2 DEF IInv, LocalShape, LocalIds
<1> QED
  BY <1>1, <1>3 DEF IInv, LocalLinks

LEMMA SameWires ==
  ASSUME UNCHANGED <<graph, inside, relocated>>
  PROVE  /\ \A m, n : Wire(m, n)' = Wire(m, n)
         /\ \A n : Feeds(n)' = Feeds(n)
         /\ \A h : RemoteNodes(h)' = RemoteNodes(h)
         /\ AllRelocated' = AllRelocated
BY DEF Wire, Feeds, RemoteNodes, AllRelocated

LEMMA CompileLocalIds ==
  ASSUME IInv, NEW g \in Groups, Compiles(g)
  PROVE  /\ DOMAIN prompt = LocalIds
         /\ LocalIds' = (LocalIds \ Ids(inside[g])) \cup Added(g, Out(g)')
<1>1. DOMAIN prompt = LocalIds
  BY CompileEffect DEF IInv, LocalShape
<1> DEFINE nodes == {Node(n) : n \in {m \in Nodes : Stays(m)}}
           done == {h \in Groups : Compiled(h)}
           wrappers == {Wrapper(h) : h \in done}
           prepares == {Prepare(h) : h \in done}
           decoders == UNION {{Decoder(h, k) : k \in Adapts(Out(h))} : h \in done}
<1>2. done' = done \cup {g} /\ g \notin done
  BY CompileEffect DEF IInv
<1>3. nodes' = nodes \ Ids(inside[g])
  <2>1. \A m : Stays(m)' <=> Stays(m) /\ m \notin inside[g]
    BY StaysLess DEF IInv
  <2>2. \A m, n : Node(m) = Node(n) => m = n
    BY DEF Node
  <2> QED
    BY <2>1, <2>2 DEF Ids
<1>4. wrappers' = wrappers \cup {Wrapper(g)} /\ prepares' = prepares \cup {Prepare(g)}
  BY <1>2
<1>5. decoders' = decoders \cup {Decoder(g, k) : k \in Adapts(Out(g)')}
  <2>1. \A h \in done : Out(h)' = Out(h)
    BY <1>2, CompileEffect DEF IInv
  <2>2. \A h \in done : {Decoder(h, k) : k \in Adapts(Out(h))}'
                        = {Decoder(h, k) : k \in Adapts(Out(h))}
    BY <2>1
  <2>3. {Decoder(g, k) : k \in Adapts(Out(g))}' = {Decoder(g, k) : k \in Adapts(Out(g)')}
    OBVIOUS
  <2> QED
    BY <1>2, <2>2, <2>3
<1>6. \A id \in wrappers \cup prepares \cup decoders : id \notin Ids(inside[g])
  BY DEF Ids, Node, Wrapper, Prepare, Decoder
<1>7. LocalIds = nodes \cup wrappers \cup prepares \cup decoders
  BY DEF LocalIds
<1>8. LocalIds' = nodes' \cup wrappers' \cup prepares' \cup decoders'
  BY DEF LocalIds
<1>9. Added(g, Out(g)') = {Decoder(g, k) : k \in Adapts(Out(g)')}
                          \cup {Prepare(g), Wrapper(g)}
  BY DEF Added
<1> HIDE DEF nodes, wrappers, prepares, decoders
<1> QED
  BY <1>1, <1>3, <1>4, <1>5, <1>6, <1>7, <1>8, <1>9

LEMMA CompiledPrompt ==
  ASSUME IInv, NEW g \in Groups, Compiles(g)
  PROVE  /\ LocalShape'
         /\ \A id \in DOMAIN prompt \ Ids(inside[g]) :
              /\ id \in DOMAIN prompt'
              /\ DOMAIN prompt'[id] = DOMAIN prompt[id]
              /\ \A i \in DOMAIN prompt[id] : prompt'[id][i] = Led(g, Out(g)', prompt[id][i])
         /\ \A k \in Adapts(Out(g)') :
              prompt'[Decoder(g, k)] = <<Generated("wrapper", g, k)>>
         /\ prompt'[Prepare(g)] = <<>>
         /\ DOMAIN prompt'[Wrapper(g)] = 1..Len(In(g)') + 1
         /\ prompt'[Wrapper(g)][Len(In(g)') + 1] = Generated("prepare", g, 0)
         /\ \A k \in DOMAIN In(g)' : prompt'[Wrapper(g)][k] = In(g)'[k].link
<1>1. /\ prompt' = LocalPrompt(g, In(g)', Out(g)') /\ stage' = "planned" /\ ~Compiled(g)
  BY CompileEffect DEF IInv
<1>2. DOMAIN In(g)' = 1..Len(In(g)') /\ Len(In(g)') \in Nat
  BY PortsMade DEF IInv
<1>3. /\ DOMAIN prompt' = (DOMAIN prompt \ Ids(inside[g])) \cup Added(g, Out(g)')
      /\ \A id \in (DOMAIN prompt \ Ids(inside[g])) \ Added(g, Out(g)') :
           /\ DOMAIN prompt'[id] = DOMAIN prompt[id]
           /\ \A i \in DOMAIN prompt[id] : prompt'[id][i] = Led(g, Out(g)', prompt[id][i])
      /\ \A k \in Adapts(Out(g)') : prompt'[Decoder(g, k)] = <<Generated("wrapper", g, k)>>
      /\ prompt'[Prepare(g)] = <<>>
      /\ DOMAIN prompt'[Wrapper(g)] = 1..Len(In(g)') + 1
      /\ prompt'[Wrapper(g)][Len(In(g)') + 1] = Generated("prepare", g, 0)
      /\ \A k \in DOMAIN In(g)' : prompt'[Wrapper(g)][k] = In(g)'[k].link
  <2>1. PICK in, out, p : in = In(g)' /\ out = Out(g)' /\ p = prompt'
    OBVIOUS
  <2>2. Len(in) \in Nat /\ DOMAIN in = 1..Len(in) /\ p = LocalPrompt(g, in, out)
    BY <1>1, <1>2, <2>1
  <2>3. LocalPromptOf(g, in, out, p)
    BY <2>2, LocalPromptShape
  <2> QED
    BY <2>1, <2>3 DEF LocalPromptOf
<1>4. LocalIds \cap Added(g, Out(g)') = {}
  BY <1>1 DEF Added, LocalIds, Node, Wrapper, Prepare, Decoder
<1>5. DOMAIN prompt = LocalIds /\ LocalIds' = (LocalIds \ Ids(inside[g])) \cup Added(g, Out(g)')
  BY CompileLocalIds
<1>6. DOMAIN prompt' = LocalIds'
  BY <1>3, <1>5
<1>7. LocalShape'
  BY <1>1, <1>6 DEF LocalShape
<1>8. \A id \in DOMAIN prompt \ Ids(inside[g]) : id \notin Added(g, Out(g)') /\ id \in DOMAIN prompt'
  BY <1>3, <1>4, <1>5
<1> QED
  BY <1>3, <1>7, <1>8

\* An output of the group that a link of what stays names leaves it.
LEMMA LinkLeaves ==
  ASSUME NEW g, NEW id \in DOMAIN prompt \ Ids(inside[g]), NEW i \in DOMAIN prompt[id],
         NEW m \in inside[g], NEW t \in Types, prompt[id][i] = Output(m, t)
  PROVE  <<m, t>> \in Leaving(g)
BY DEF Leaving

LEMMA CompileLocalLinks ==
  ASSUME IInv, NEW g \in Groups, Compiles(g)
  PROVE  LocalLinks'
<1> USE DEF IInv
<1>0. ~Compiled(g) /\ stage = "planned" /\ UNCHANGED <<graph, stage, inside, relocated>>
  BY CompileEffect
<1>1. ASSUME NEW n \in Nodes, Node(n) \in DOMAIN prompt'
      PROVE  NodeLinks(n)'
  <2>1. n \notin inside[g] /\ Node(n) \in DOMAIN prompt \ Ids(inside[g])
    <3>1. Node(n) \in LocalIds'
      BY <1>1, CompiledPrompt DEF LocalShape
    <3>2. Node(n) \in LocalIds \ Ids(inside[g])
      <4>1. Node(n) \notin Added(g, Out(g)')
        BY IdsDiffer DEF Added
      <4> QED
        BY <3>1, <4>1, CompileLocalIds
    <3> QED
      BY <3>2, CompileLocalIds DEF Ids
  <2>2. NodeLinks(n)
    BY <2>1 DEF LocalLinks
  <2>3. /\ DOMAIN prompt'[Node(n)] = Feeds(n)
        /\ \A m \in Feeds(n) : prompt'[Node(n)][m] = Led(g, Out(g)', prompt[Node(n)][m])
    BY <2>1, <2>2, CompiledPrompt DEF NodeLinks
  <2>4. ASSUME NEW m \in Feeds(n)
        PROVE  Carries(prompt[Node(n)][m], m, Wire(m, n))'
    <3>1. PICK t : t = Wire(m, n)
      OBVIOUS
    <3>2. m \in Nodes /\ t \in Types /\ Wire(m, n)' = t
      BY <1>0, <3>1, WireTypes, SameWires
    <3>3. Carries(prompt[Node(n)][m], m, t)
      BY <2>2, <3>1 DEF NodeLinks
    <3>4. prompt[Node(n)][m] = Output(m, t) /\ m \in inside[g] => <<m, t>> \in Leaving(g)
      BY <2>1, <2>2, <3>2, LinkLeaves DEF NodeLinks
    <3>5. PICK led : led = prompt'[Node(n)][m]
      OBVIOUS
    <3>6. Carries(led, m, t)'
      BY <2>3, <3>2, <3>3, <3>4, <3>5, LedCarries
    <3> QED
      BY <3>2, <3>5, <3>6
  <2>5. /\ Feeds(n)' = Feeds(n) /\ \A m : Wire(m, n)' = Wire(m, n)
    BY <1>0, SameWires
  <2> QED
    BY <2>3, <2>4, <2>5 DEF NodeLinks
<1>2. ASSUME NEW h \in Groups, Compiled(h)', h # g
      PROVE  AddedLinks(h)'
  <2>1. Compiled(h) /\ In(h)' = In(h) /\ Out(h)' = Out(h) /\ AddedLinks(h)
    BY <1>2, CompileEffect DEF LocalLinks
  <2> DEFINE generated == {Wrapper(h), Prepare(h)} \cup {Decoder(h, k) : k \in Adapts(Out(h))}
  <2>2. generated \subseteq DOMAIN prompt \ Ids(inside[g])
    <3>1. generated \subseteq LocalIds
      BY <2>1 DEF LocalIds
    <3>2. \A id \in generated : id \notin Ids(inside[g])
      BY IdsDiffer DEF Ids
    <3> QED
      BY <3>1, <3>2, CompileLocalIds
  <2>3. \A id \in generated :
          /\ DOMAIN prompt'[id] = DOMAIN prompt[id]
          /\ \A i \in DOMAIN prompt[id] : prompt'[id][i] = Led(g, Out(g)', prompt[id][i])
    BY <2>2, CompiledPrompt
  <2>4. Wrapper(h) \in generated /\ Prepare(h) \in generated
        /\ \A k \in Adapts(Out(h)) : Decoder(h, k) \in generated
    OBVIOUS
  <2> HIDE DEF generated
  <2>5. ASSUME NEW kind \in {"wrapper", "prepare"}, NEW k
        PROVE  Led(g, Out(g)', Generated(kind, h, k)) = Generated(kind, h, k)
    <3>1. ASSUME NEW i \in DOMAIN Out(g)' PROVE Out(g)'[i].link # Generated(kind, h, k)
      <4>1. PICK n \in inside[g], u \in Types : Out(g)'[i].link = Output(n, u)
        BY PortsMade
      <4> QED
        BY <4>1, LinksDiffer
    <3> QED
      BY <3>1 DEF Led, HasPort
  <2>6. /\ DOMAIN prompt'[Wrapper(h)] = 1..Len(In(h)) + 1
        /\ prompt'[Wrapper(h)][Len(In(h)) + 1] = Generated("prepare", h, 0)
    <3>1. Len(In(h)) + 1 \in 1..Len(In(h)) + 1
      BY <2>1 DEF RemoteShape, RemoteShapeOf
    <3> QED
      BY <2>1, <2>3, <2>4, <2>5, <3>1 DEF AddedLinks
  <2>7. \A k \in DOMAIN In(h) : \E m \in Nodes, t \in Types :
          Carries(prompt[Wrapper(h)][k], m, t)'
    <3> SUFFICES ASSUME NEW k \in DOMAIN In(h)
                 PROVE  \E m \in Nodes, t \in Types : Carries(prompt[Wrapper(h)][k], m, t)'
      OBVIOUS
    <3>1. PICK m \in Nodes, t \in Types : Carries(prompt[Wrapper(h)][k], m, t)
      BY <2>1 DEF AddedLinks
    <3>2. k \in DOMAIN prompt[Wrapper(h)]
      BY <2>1 DEF AddedLinks, RemoteShape, RemoteShapeOf
    <3>3. prompt[Wrapper(h)][k] = Output(m, t) /\ m \in inside[g] => <<m, t>> \in Leaving(g)
      BY <2>2, <2>4, <3>2, LinkLeaves
    <3>4. PICK led : led = prompt'[Wrapper(h)][k]
      OBVIOUS
    <3>5. Carries(led, m, t)'
      BY <2>3, <2>4, <3>1, <3>2, <3>3, <3>4, LedCarries
    <3> QED
      BY <3>4, <3>5
  <2>8. DOMAIN prompt'[Prepare(h)] = {}
    BY <2>1, <2>3, <2>4 DEF AddedLinks
  <2>9. ASSUME NEW k \in Adapts(Out(h))
        PROVE  /\ DOMAIN prompt'[Decoder(h, k)] = {1}
               /\ prompt'[Decoder(h, k)][1] = Generated("wrapper", h, k)
    BY <2>1, <2>3, <2>4, <2>5 DEF AddedLinks
  <2> QED
    BY <2>1, <2>6, <2>7, <2>8, <2>9 DEF AddedLinks
<1>3. AddedLinks(g)'
  <2>1. \A k \in DOMAIN In(g)' : \E m \in Nodes, t \in Types :
          Carries(prompt[Wrapper(g)][k], m, t)'
    <3> SUFFICES ASSUME NEW k \in DOMAIN In(g)'
                 PROVE  \E m \in Nodes, t \in Types : Carries(prompt[Wrapper(g)][k], m, t)'
      OBVIOUS
    <3>1. PICK w \in Entering(g) : In(g)'[k].link = prompt[Node(w[2])][w[1]]
      BY PortsMade DEF Inbound
    <3>2. PICK m, n, t : m = w[1] /\ n = w[2] /\ t = Wire(m, n)
      OBVIOUS
    <3>3. /\ n \in RemoteNodes(g) /\ m \in Feeds(n)
          /\ SourceOf(prompt[Node(n)][m]) \notin Ids(RemoteNodes(g))
      BY <3>2 DEF Entering
    <3>4. n \in Nodes /\ NodeLinks(n)
      BY <1>0, <3>3, NodesThere
    <3>5. m \in Nodes /\ t \in Types /\ Carries(prompt[Node(n)][m], m, t)
      BY <3>2, <3>3, <3>4, WireTypes DEF NodeLinks
    <3>6. prompt[Node(n)][m] = Output(m, t) => m \notin inside[g]
      BY <3>3, Sources DEF Ids, RemoteNodes
    <3>7. PICK l : l = prompt[Node(n)][m]
      OBVIOUS
    <3>8. Carries(l, m, t)'
      BY <3>5, <3>6, <3>7, EnteringCarries
    <3>9. prompt'[Wrapper(g)][k] = l
      BY <3>1, <3>2, <3>7, CompiledPrompt
    <3> QED
      BY <3>5, <3>8, <3>9
  <2> QED
    BY <2>1, CompiledPrompt DEF AddedLinks
<1> QED
  BY <1>1, <1>2, <1>3 DEF LocalLinks

LEMMA CompileRemoteShape ==
  ASSUME IInv, NEW g \in Groups, Compiles(g), Closed(preload'[g])
  PROVE  RemoteShape'
<1>0. UNCHANGED <<graph, inside, relocated>>
  BY CompileEffect DEF IInv
<1>1. ASSUME NEW h \in Groups, Compiled(h)', h # g
      PROVE  RemoteShapeOf(h)'
  <2>1. /\ Compiled(h) /\ In(h)' = In(h) /\ Out(h)' = Out(h)
        /\ remote'[h] = remote[h] /\ preload'[h] = preload[h]
    BY <1>1, CompileEffect DEF IInv
  <2>2. RemoteShapeOf(h)
    BY <2>1 DEF IInv, RemoteShape
  <2>3. RemoteNodes(h)' = RemoteNodes(h) /\ InputPorts(h)' = InputPorts(h)
    BY <1>0, <2>1, SameWires DEF InputPorts
  <2> QED
    BY <1>0, <2>1, <2>2, <2>3 DEF RemoteShapeOf
<1>2. RemoteShapeOf(g)'
  <2>1. PICK in, out, p : in = In(g)' /\ out = Out(g)' /\ p = remote'[g]
    OBVIOUS
  <2>2. RemotePromptOf(g, in, out, p)
    BY <2>1, CompileEffect, RemotePromptShape DEF IInv
  <2>3. RemoteNodes(g)' = RemoteNodes(g)
    BY <1>0, SameWires
  <2>4. InputPorts(g)' = (IF in = <<>> THEN {0} ELSE DOMAIN in)
    BY <2>1 DEF InputPorts
  <2>5. /\ DOMAIN in = 1..Len(in) /\ Len(in) \in Nat
        /\ \A k \in DOMAIN out : \E n \in inside[g], t \in Types :
             out[k].link = Output(n, t) /\ out[k].type = t
    BY <2>1, PortsMade DEF IInv
  <2> QED
    BY <1>0, <2>1, <2>2, <2>3, <2>4, <2>5 DEF RemoteShapeOf, RemotePromptOf
<1> QED
  BY <1>1, <1>2 DEF RemoteShape

LEMMA CompileRemoteLinks ==
  ASSUME IInv, NEW g \in Groups, Compiles(g)
  PROVE  RemoteLinks'
<1> USE DEF IInv
<1>0. ~Compiled(g) /\ stage = "planned" /\ UNCHANGED <<graph, inside, relocated>>
  BY CompileEffect
<1>1. /\ \A m, n : Wire(m, n)' = Wire(m, n)
      /\ \A n : Feeds(n)' = Feeds(n)
      /\ \A h : RemoteNodes(h)' = RemoteNodes(h)
  BY <1>0, SameWires
<1>2. ASSUME NEW h \in Groups, Compiled(h)', h # g, NEW n \in RemoteNodes(h)
      PROVE  RemoteLinksOf(h, n)'
  <2>1. Compiled(h) /\ In(h)' = In(h) /\ remote'[h] = remote[h]
    BY <1>2, CompileEffect
  <2>2. RemoteLinksOf(h, n) /\ n \in Nodes
    BY <2>1 DEF RemoteLinks, RemoteNodes, TypeOK
  <2>3. ASSUME NEW m \in Feeds(n), NEW k \in DOMAIN In(h),
               Carries(prompt[Wrapper(h)][k], m, Wire(m, n))
        PROVE  Carries(prompt[Wrapper(h)][k], m, Wire(m, n))'
    <3>1. PICK t : t = Wire(m, n)
      OBVIOUS
    <3>2. m \in Nodes /\ t \in Types /\ Wire(m, n)' = t
      BY <1>1, <2>2, <3>1, WireTypes
    <3>3. Wrapper(h) \in DOMAIN prompt \ Ids(inside[g]) /\ k \in DOMAIN prompt[Wrapper(h)]
      <4>1. Wrapper(h) \in DOMAIN prompt
        BY <2>1, CompileLocalIds DEF LocalIds
      <4>2. Wrapper(h) \notin Ids(inside[g])
        BY IdsDiffer DEF Ids
      <4>3. DOMAIN prompt[Wrapper(h)] = 1..Len(In(h)) + 1
            /\ DOMAIN In(h) = 1..Len(In(h)) /\ Len(In(h)) \in Nat
        BY <2>1 DEF LocalLinks, AddedLinks, RemoteShape, RemoteShapeOf
      <4> QED
        BY <4>1, <4>2, <4>3
    <3>4. prompt[Wrapper(h)][k] = Output(m, t) /\ m \in inside[g] => <<m, t>> \in Leaving(g)
      BY <3>2, <3>3, LinkLeaves
    <3>5. PICK led : led = prompt'[Wrapper(h)][k]
      OBVIOUS
    <3>6. led = Led(g, Out(g)', prompt[Wrapper(h)][k])
      BY <3>3, <3>5, CompiledPrompt
    <3>7. Carries(led, m, t)'
      BY <2>3, <3>1, <3>2, <3>4, <3>6, LedCarries
    <3> QED
      BY <3>2, <3>5, <3>7
  <2> QED
    BY <1>1, <2>1, <2>2, <2>3 DEF RemoteLinksOf
<1>3. ASSUME NEW n \in RemoteNodes(g)
      PROVE  RemoteLinksOf(g, n)'
  <2>1. n \in Nodes /\ Node(n) \in DOMAIN prompt /\ NodeLinks(n)
    BY <1>0, NodesThere
  <2>2. PICK in, body : in = In(g)' /\ body = remote'[g][Node(n)]
    OBVIOUS
  <2>3. body = RemoteBody(g, in)[Node(n)]
    <3>1. PICK out, p : out = Out(g)' /\ p = remote'[g]
      OBVIOUS
    <3>2. RemotePromptOf(g, in, out, p)
      BY <2>2, <3>1, CompileEffect, RemotePromptShape
    <3> QED
      BY <2>2, <3>1, <3>2 DEF RemotePromptOf
  <2>4. /\ DOMAIN body = Feeds(n)
        /\ \A m \in Feeds(n) :
             LET p == [link |-> prompt[Node(n)][m], type |-> Wire(m, n)]
             IN body[m] = IF p \in ToSet(in)
                          THEN Generated("input", g, CHOOSE k \in DOMAIN in : in[k] = p)
                          ELSE p.link
    <3>1. Node(n) \in Ids(RemoteNodes(g)) /\ DOMAIN prompt[Node(n)] = Feeds(n) /\ Node(n)[3] = n
      BY <2>1 DEF Ids, NodeLinks, Node
    <3> QED
      BY <2>3, <3>1 DEF RemoteBody
  <2>5. ASSUME NEW m \in Feeds(n)
        PROVE  \/ m \in RemoteNodes(g) /\ body[m] = Output(m, Wire(m, n))
               \/ \E k \in DOMAIN in : /\ body[m] = Generated("input", g, k)
                                       /\ Carries(prompt[Wrapper(g)][k], m, Wire(m, n))'
    <3> DEFINE p == [link |-> prompt[Node(n)][m], type |-> Wire(m, n)]
    <3>1. PICK l, t : l = prompt[Node(n)][m] /\ t = Wire(m, n)
      OBVIOUS
    <3>2. m \in Nodes /\ t \in Types /\ Carries(l, m, t) /\ Wire(m, n)' = t
      BY <1>1, <2>1, <3>1, WireTypes DEF NodeLinks
    <3>3. CASE p \in Inbound(g)
      <4> DEFINE k == CHOOSE k \in DOMAIN in : in[k] = p
      <4>1. k \in DOMAIN in /\ in[k] = p
        BY <2>2, <3>3, PortsMade
      <4>2. p \in ToSet(in)
        BY <2>2, <3>3, PortsMade
      <4>3. body[m] = Generated("input", g, k)
        BY <2>4, <4>2
      <4>4. prompt'[Wrapper(g)][k] = l
        BY <2>2, <3>1, <4>1, CompiledPrompt
      <4>5. l = Output(m, t) => m \notin inside[g]
        <5>1. PICK w \in Entering(g) :
                p = [link |-> prompt[Node(w[2])][w[1]], type |-> Wire(w[1], w[2])]
          BY <3>3 DEF Inbound
        <5>2. SourceOf(l) \notin Ids(RemoteNodes(g))
          BY <3>1, <5>1 DEF Entering
        <5> QED
          BY <5>2, Sources DEF Ids, RemoteNodes
      <4>6. Carries(l, m, t)'
        BY <3>2, <4>5, EnteringCarries
      <4> HIDE DEF k
      <4>7. PICK i : i = k
        OBVIOUS
      <4>8. i \in DOMAIN in /\ body[m] = Generated("input", g, i)
            /\ Carries(prompt[Wrapper(g)][i], m, Wire(m, n))'
        BY <3>2, <4>1, <4>3, <4>4, <4>6, <4>7
      <4> QED
        BY <4>8
    <3>4. CASE p \notin Inbound(g)
      <4>1. body[m] = l
        BY <2>2, <2>4, <3>1, <3>4, PortsMade
      <4>2. SourceOf(l) \in Ids(RemoteNodes(g))
        <5> DEFINE w == <<m, n>>
        <5>1. w \in Nodes \X RemoteNodes(g) /\ w[1] = m /\ w[2] = n
          BY <3>2
        <5>2. w \notin Entering(g)
          BY <3>4, <5>1 DEF Inbound
        <5> QED
          BY <3>1, <5>1, <5>2 DEF Entering
      <4>3. l = Output(m, t)
        <5>1. SourceOf(l)[1] = "node"
          BY <4>2 DEF Ids, Node
        <5>2. \A h, k : /\ SourceOf(Generated("wrapper", h, k))[1] # "node"
                        /\ SourceOf(Generated("decode", h, k))[1] # "node"
          BY Sources DEF Wrapper, Decoder
        <5> QED
          BY <3>2, <5>1, <5>2 DEF Carries
      <4>4. m \in RemoteNodes(g)
        BY <4>2, <4>3, Sources DEF Ids, Node
      <4> QED
        BY <3>1, <4>1, <4>3, <4>4
    <3> QED
      BY <3>3, <3>4
  <2> QED
    BY <1>1, <2>2, <2>4, <2>5 DEF RemoteLinksOf
<1> QED
  BY <1>1, <1>2, <1>3 DEF RemoteLinks

-------------------------------------------------------------------------------
(* The closures.                                                              *)

\* A node that is ready takes values of ready ones only.
LEMMA ReadyTakesReady ==
  ASSUME TypeOK, NEW g \in Groups, NEW workflow, NEW n \in Ready(g, workflow)
  PROVE  n \in Preloadable(g, workflow, Ready(g, workflow))
<1> DEFINE ready == Ready(g, workflow)
           P(ns) == Preloadable(g, workflow, ns)
<1>1. \A ns, ms : ns \subseteq ms => P(ns) \subseteq P(ms)
  BY DEF Preloadable, Ids
<1>2. \A ns : P(ns) \subseteq Nodes
  BY DEF Preloadable, TypeOK
<1> HIDE DEF P
<1>3. ready = {m \in Nodes : \A ns \in SUBSET Nodes : P(ns) \subseteq ns => m \in ns}
  BY DEF Ready, P
<1> HIDE DEF ready
<1>4. P(ready) \subseteq ready
  <2> SUFFICES ASSUME NEW m \in P(ready), NEW ns \in SUBSET Nodes, P(ns) \subseteq ns
               PROVE  m \in ns
    BY <1>2, <1>3
  <2>1. ready \subseteq ns
    BY <1>3
  <2> QED
    BY <1>1, <2>1
<1>5. P(P(ready)) \subseteq P(ready)
  BY <1>1, <1>4
<1>6. n \in P(ready)
  BY <1>2, <1>3, <1>5 DEF ready
<1> QED
  BY <1>6 DEF P, ready

LEMMA PreloadClosed ==
  ASSUME TypeOK, NEW g \in Groups, NEW workflow
  PROVE  Closed(PreloadWorkflow(g, workflow))
<1> DEFINE ready == Ready(g, workflow)
           objects == {Output(n, "model") : n \in ready}
           helper == IF objects = {} THEN {} ELSE {<<"preload", g, 0>>}
           p == PreloadWorkflow(g, workflow)
<1>1. \A n \in ready : \A m \in DOMAIN workflow[Node(n)] :
        SourceOf(workflow[Node(n)][m]) \in Ids(ready)
  BY ReadyTakesReady DEF Preloadable, Ids
<1>2. SetToSeq(objects) \in [1..Len(SetToSeq(objects)) -> objects]
  <2>1. IsFiniteSet(ready)
    <3>1. ready \subseteq Nodes
      BY DEF Ready
    <3> QED
      BY <3>1, NodesFinite, FS_Subset
  <2> DEFINE f == [n \in ready |-> Output(n, "model")]
  <2>2. objects = {f[n] : n \in ready}
    OBVIOUS
  <2> HIDE DEF f, objects, ready
  <2>3. IsFiniteSet(objects)
    BY <2>1, <2>2, ImageFinite
  <2> QED
    BY <2>3, Enumerated
<1>3. p = With([id \in Ids(ready) |-> workflow[id]], [id \in helper |-> SetToSeq(objects)])
  BY DEF PreloadWorkflow
<1>4. \A l \in objects : SourceOf(l) \in Ids(ready)
  BY Sources DEF Ids
<1> HIDE DEF p, objects, helper, ready
<1>5. /\ DOMAIN p = Ids(ready) \cup helper
      /\ \A id \in helper : p[id] = SetToSeq(objects)
      /\ \A id \in Ids(ready) \ helper : p[id] = workflow[id]
  BY <1>3 DEF With
<1>6. ASSUME NEW id \in DOMAIN p, NEW i \in DOMAIN p[id]
      PROVE  SourceOf(p[id][i]) \in DOMAIN p
  <2>1. CASE id \in helper
    BY <1>2, <1>4, <1>5, <2>1
  <2>2. CASE id \notin helper
    <3>1. PICK n \in ready : id = Node(n)
      BY <1>5, <2>2 DEF Ids
    <3> QED
      BY <1>1, <1>5, <2>2, <3>1
  <2> QED
    BY <2>1, <2>2
<1> QED
  BY <1>6 DEF Closed, p

\* What is relocated is not drawn in the group, and a group without nodes has nothing.
LEMMA ClosureOutside ==
  ASSUME TypeOK, NEW g \in Groups
  PROVE  /\ Closure(g) \subseteq Nodes \ inside[g]
         /\ inside[g] = {} => Closure(g) = {}
<1>1. Producers(g, Nodes \ inside[g]) \subseteq Nodes \ inside[g]
  BY DEF Producers
<1>2. inside[g] = {} => Producers(g, {}) \subseteq {}
  BY DEF Producers
<1>3. Nodes \ inside[g] \in SUBSET Nodes /\ {} \in SUBSET Nodes
  OBVIOUS
<1> QED
  BY <1>1, <1>2, <1>3 DEF Closure

\* What has a consumer that stays is retained.
LEMMA RetainedKeeps ==
  ASSUME TypeOK
  PROVE  /\ KeptFor(Retained) \subseteq Retained
         /\ Retained \subseteq AllRelocated
<1>1. AllRelocated \subseteq Nodes
  BY DEF AllRelocated, TypeOK
<1>2. \A ns, ms : ns \subseteq ms => KeptFor(ns) \subseteq KeptFor(ms)
  BY DEF KeptFor, Ids
<1>3. \A ns : KeptFor(ns) \subseteq AllRelocated
  BY DEF KeptFor
<1>4. KeptFor(Retained) \subseteq Retained
  <2> SUFFICES ASSUME NEW m \in KeptFor(Retained), NEW ns \in SUBSET Nodes,
                      KeptFor(ns) \subseteq ns
               PROVE  m \in ns
    BY <1>1, <1>3 DEF Retained
  <2>1. Retained \subseteq ns
    BY DEF Retained
  <2> QED
    BY <1>2, <2>1
<1>5. Retained \subseteq AllRelocated
  BY <1>1, <1>3 DEF Retained
<1> QED
  BY <1>4, <1>5

-------------------------------------------------------------------------------
(* The invariant is inductive.                                                *)

\* Nothing is compiled yet, and the prompt is the editor's.
Fresh ==
  /\ TypeOK /\ prompt = Original /\ stage \in {"editor", "grouped", "planned", "refused"}
  /\ \A g \in Groups : ~Compiled(g)

LEMMA FreshPrompt ==
  Fresh => LocalShape /\ LocalLinks /\ RemoteShape /\ RemoteLinks
<1> SUFFICES ASSUME Fresh
             PROVE  LocalShape /\ LocalLinks /\ RemoteShape /\ RemoteLinks
  OBVIOUS
<1>1. \A n : Stays(n)
  BY DEF Fresh, Stays
<1>2. DOMAIN prompt = {Node(n) : n \in Nodes}
  BY DEF Fresh, Original
<1>3. LocalIds = {Node(n) : n \in Nodes}
  BY <1>1 DEF Fresh, LocalIds
<1>4. LocalShape
  BY <1>2, <1>3 DEF Fresh, LocalShape
<1>5. ASSUME NEW n \in Nodes
      PROVE  NodeLinks(n)
  <2>1. prompt[Node(n)] = [m \in Feeds(n) |-> Output(m, Wire(m, n))]
    <3>1. PICK id : id = Node(n)
      OBVIOUS
    <3>2. id[3] = n /\ id \in {Node(m) : m \in Nodes}
      BY <3>1 DEF Node
    <3>3. prompt[id] = [m \in Feeds(id[3]) |-> Output(m, Wire(m, id[3]))]
      BY <3>2 DEF Fresh, Original
    <3> QED
      BY <3>1, <3>2, <3>3
  <2> QED
    BY <1>1, <2>1 DEF NodeLinks, Carries
<1> QED
  BY <1>4, <1>5 DEF LocalLinks, RemoteShape, RemoteLinks, Fresh

LEMMA Initially ==
  ASSUME Init
  PROVE  IInv
<1>1. \A g \in Groups : ~Compiled(g) /\ relocated[g] = {} /\ inside[g] = {}
  BY DEF Init, Compiled
<1>2. TypeOK
  BY DEF Init, TypeOK, In, Out
<1>3. Fresh
  BY <1>1, <1>2 DEF Init, Fresh
<1>4. NothingYet /\ Apart /\ Relocations /\ AllCompiled
  BY <1>1 DEF Init, NothingYet, Apart, Relocations, AllCompiled, Done
<1> QED
  BY <1>2, <1>3, <1>4, FreshPrompt DEF IInv

LEMMA GroupsFinite == IsFiniteSet(Groups)
<1>1. Len(Boxes) \in Nat /\ Groups = 1..Len(Boxes)
  BY CompilerAssumption DEF Groups
<1> QED
  BY <1>1, FS_Interval

\* The groups are found: a node that is in two is refused.
LEMMA StepFindGroups ==
  ASSUME IInv, FindGroups, ~Refuse
  PROVE  IInv'
<1>1. /\ stage = "editor" /\ ~(\E n \in Nodes : Misplaced(n))
      /\ inside' = [g \in Groups |-> {n \in Nodes : g \in GroupsAround(n)}]
      /\ stage' = "grouped"
      /\ UNCHANGED <<graph, relocated, prompt, remote, ports, wrapper, preload>>
  BY DEF FindGroups
<1>2. /\ prompt = Original
      /\ \A g \in Groups : ~Compiled(g) /\ relocated[g] = {} /\ remote[g] = <<>> /\ preload[g] = <<>>
  BY <1>1 DEF IInv, NothingYet
<1>3. TypeOK'
  BY <1>1 DEF IInv, TypeOK, In, Out
<1>4. Original' = Original /\ \A g \in Groups : Compiled(g)' = Compiled(g)
  BY <1>1 DEF Original, Feeds, Wire, Compiled
<1>5. Fresh'
  BY <1>1, <1>2, <1>3, <1>4 DEF Fresh
<1>6. (Fresh => LocalShape /\ LocalLinks /\ RemoteShape /\ RemoteLinks)'
  BY FreshPrompt, PTL
<1>7. Apart'
  <2> SUFFICES ASSUME NEW g \in Groups, NEW h \in Groups, g # h,
                      NEW n \in inside'[g], n \in inside'[h]
               PROVE  FALSE
    BY DEF Apart
  <2>1. n \in Nodes /\ g \in GroupsAround(n) /\ h \in GroupsAround(n)
    BY <1>1
  <2>2. IsFiniteSet(GroupsAround(n))
    BY GroupsFinite, FS_Subset DEF GroupsAround
  <2>3. ~(Cardinality(GroupsAround(n)) > 1)
    BY <1>1, <2>1 DEF Misplaced
  <2>4. Cardinality({g, h}) = 2 /\ IsFiniteSet({g, h})
    <3> DEFINE one == {h}
    <3>1. IsFiniteSet(one) /\ Cardinality(one) = 1 /\ g \notin one
      BY FS_Singleton
    <3>2. {g, h} = one \cup {g}
      OBVIOUS
    <3> HIDE DEF one
    <3>3. /\ IsFiniteSet(one \cup {g})
          /\ Cardinality(one \cup {g}) = IF g \in one THEN Cardinality(one) ELSE Cardinality(one) + 1
      BY <3>1, FS_AddElement
    <3> QED
      BY <3>1, <3>2, <3>3
  <2>5. Cardinality({g, h}) <= Cardinality(GroupsAround(n))
    BY <2>1, <2>2, FS_Subset
  <2>6. Cardinality(GroupsAround(n)) \in Nat
    BY <2>2, FS_CardinalityType
  <2> QED
    BY <2>3, <2>4, <2>5, <2>6
<1>8. NothingYet'
  BY <1>1, <1>2, <1>4 DEF NothingYet
<1>9. Relocations' /\ AllCompiled'
  BY <1>1, <1>2 DEF Relocations, AllCompiled, Done
<1> QED
  BY <1>3, <1>5, <1>6, <1>7, <1>8, <1>9 DEF IInv

\* What is to be relocated is planned.
LEMMA StepPlanRelocation ==
  ASSUME IInv, PlanRelocation, ~Refuse
  PROVE  IInv'
<1>1. /\ stage = "grouped"
      /\ \A g \in Groups : \A n \in Closure(g) : ~OtherGroup(n, g) /\ Relocatable(n)
      /\ relocated' = [g \in Groups |-> Closure(g)]
      /\ stage' = "planned"
      /\ UNCHANGED <<graph, inside, prompt, remote, ports, wrapper, preload>>
  BY DEF PlanRelocation
<1>2. /\ prompt = Original
      /\ \A g \in Groups : ~Compiled(g) /\ remote[g] = <<>> /\ preload[g] = <<>>
  BY <1>1 DEF IInv, NothingYet
<1>3. \A g \in Groups : Closure(g) \subseteq Nodes \ inside[g] /\ (inside[g] = {} => Closure(g) = {})
  BY ClosureOutside DEF IInv
<1>4. TypeOK'
  BY <1>1, <1>3 DEF IInv, TypeOK, In, Out
<1>5. Original' = Original /\ \A g \in Groups : Compiled(g)' = Compiled(g)
  BY <1>1 DEF Original, Feeds, Wire, Compiled
<1>6. Fresh'
  BY <1>1, <1>2, <1>4, <1>5 DEF Fresh
<1>7. (Fresh => LocalShape /\ LocalLinks /\ RemoteShape /\ RemoteLinks)'
  BY FreshPrompt, PTL
<1>8. NothingYet'
  BY <1>1, <1>2, <1>5 DEF NothingYet
<1>9. Relocations'
  BY <1>1, <1>3 DEF Relocations, Relocatable, OtherGroup
<1>10. Apart' /\ AllCompiled'
  BY <1>1 DEF IInv, Apart, AllCompiled, Done
<1> QED
  BY <1>4, <1>6, <1>7, <1>8, <1>9, <1>10 DEF IInv

\* A group is compiled.
LEMMA StepCompileGroup ==
  ASSUME IInv, NEW g \in Groups, Compiles(g)
  PROVE  IInv'
<1>1. /\ TypeOK' /\ stage = "planned" /\ UNCHANGED <<graph, stage, inside, relocated>>
      /\ preload'[g] = PreloadWorkflow(g, remote'[g])
      /\ \A h \in Groups : h # g => remote'[h] = remote[h] /\ preload'[h] = preload[h]
      /\ \A h \in Groups : Compiled(h)' <=> Compiled(h) \/ h = g
  BY CompileEffect DEF IInv
<1>2. Closed(preload'[g])
  <2>1. PICK workflow : workflow = remote'[g]
    OBVIOUS
  <2> QED
    BY <1>1, <2>1, PreloadClosed DEF IInv
<1>3. LocalShape' /\ LocalLinks' /\ RemoteShape' /\ RemoteLinks'
  BY <1>2, CompiledPrompt, CompileLocalLinks, CompileRemoteShape, CompileRemoteLinks
<1>4. NothingYet'
  BY <1>1 DEF IInv, NothingYet
<1>5. Apart' /\ Relocations' /\ AllCompiled'
  BY <1>1 DEF IInv, Apart, Relocations, AllCompiled, Done
<1> QED
  BY <1>1, <1>3, <1>4, <1>5 DEF IInv

\* Each link of the local prompt is to a node of it.
LEMMA LocallyClosed ==
  ASSUME IInv, stage = "planned"
  PROVE  /\ DOMAIN prompt = LocalIds
         /\ Closed(prompt)
<1> USE DEF IInv
<1>1. DOMAIN prompt = LocalIds
  BY DEF LocalShape
<1>2. ASSUME NEW l, NEW m \in Nodes, NEW t, Carries(l, m, t)
      PROVE  SourceOf(l) \in LocalIds
  <2>1. CASE l = Output(m, t) /\ Stays(m)
    <3>1. SourceOf(l) = Node(m)
      BY <2>1, Sources
    <3> QED
      BY <2>1, <3>1 DEF LocalIds
  <2>2. ASSUME NEW g \in Groups, NEW k \in DOMAIN Out(g), Compiled(g), Out(g)[k].type = t,
               l = Generated(IF t \in Adapted THEN "decode" ELSE "wrapper", g, k)
        PROVE  SourceOf(l) \in LocalIds
    <3>1. CASE t \in Adapted
      <4>1. SourceOf(l) = Decoder(g, k) /\ k \in Adapts(Out(g))
        BY <2>2, <3>1, Sources DEF Adapts
      <4> QED
        BY <2>2, <4>1 DEF LocalIds
    <3>2. CASE t \notin Adapted
      <4>1. SourceOf(l) = Wrapper(g)
        BY <2>2, <3>2, Sources
      <4> QED
        BY <2>2, <4>1 DEF LocalIds
    <3> QED
      BY <3>1, <3>2
  <2> QED
    BY <1>2, <2>1, <2>2 DEF Carries
<1>3. ASSUME NEW n \in Nodes, Node(n) \in DOMAIN prompt, NEW i \in DOMAIN prompt[Node(n)]
      PROVE  SourceOf(prompt[Node(n)][i]) \in LocalIds
  <2>1. i \in Feeds(n) /\ i \in Nodes /\ Carries(prompt[Node(n)][i], i, Wire(i, n))
    BY <1>3 DEF LocalLinks, NodeLinks, Feeds
  <2> QED
    BY <1>2, <2>1
<1>4. ASSUME NEW g \in Groups, Compiled(g)
      PROVE  /\ \A i \in DOMAIN prompt[Wrapper(g)] : SourceOf(prompt[Wrapper(g)][i]) \in LocalIds
             /\ DOMAIN prompt[Prepare(g)] = {}
             /\ \A k \in Adapts(Out(g)) : \A i \in DOMAIN prompt[Decoder(g, k)] :
                  SourceOf(prompt[Decoder(g, k)][i]) \in LocalIds
  <2>1. AddedLinks(g) /\ DOMAIN In(g) = 1..Len(In(g)) /\ Len(In(g)) \in Nat
    BY <1>4 DEF LocalLinks, RemoteShape, RemoteShapeOf
  <2>2. SourceOf(Generated("prepare", g, 0)) \in LocalIds
        /\ \A k : SourceOf(Generated("wrapper", g, k)) \in LocalIds
    BY <1>4, Sources DEF LocalIds
  <2>3. \A k \in DOMAIN In(g) : SourceOf(prompt[Wrapper(g)][k]) \in LocalIds
    BY <1>2, <2>1 DEF AddedLinks
  <2>4. \A i \in DOMAIN prompt[Wrapper(g)] : i \in DOMAIN In(g) \/ i = Len(In(g)) + 1
    BY <2>1 DEF AddedLinks
  <2> QED
    BY <2>1, <2>2, <2>3, <2>4 DEF AddedLinks
<1>5. ASSUME NEW id \in LocalIds
      PROVE  \/ \E n \in Nodes : id = Node(n)
             \/ \E g \in Groups : /\ Compiled(g)
                                  /\ id \in Added(g, Out(g))
  BY DEF LocalIds, Added
<1>6. ASSUME NEW id \in DOMAIN prompt, NEW i \in DOMAIN prompt[id]
      PROVE  SourceOf(prompt[id][i]) \in LocalIds
  <2>1. CASE \E n \in Nodes : id = Node(n)
    BY <1>3, <1>6, <2>1
  <2>2. CASE \E g \in Groups : Compiled(g) /\ id \in Added(g, Out(g))
    BY <1>4, <1>6, <2>2 DEF Added
  <2> QED
    BY <1>1, <1>5, <2>1, <2>2
<1> QED
  BY <1>1, <1>6 DEF Closed

\* Relocated nodes that nobody needs are removed.
LEMMA StepPrune ==
  ASSUME IInv, Prune
  PROVE  IInv'
<1> DEFINE removed == Ids(AllRelocated \ Retained)
<1>1. /\ stage = "planned" /\ stage' = "compiled"
      /\ \A g \in Groups : inside[g] # {} => Compiled(g)
      /\ prompt' = [id \in DOMAIN prompt \ removed |-> prompt[id]]
      /\ UNCHANGED <<graph, inside, relocated, remote, ports, wrapper, preload>>
  BY DEF Prune
<1>2. /\ DOMAIN prompt' = DOMAIN prompt \ removed
      /\ \A id \in DOMAIN prompt' : prompt'[id] = prompt[id]
  BY <1>1
<1>3. DOMAIN prompt = LocalIds /\ Closed(prompt)
  BY <1>1, LocallyClosed
<1>4. \A g \in Groups :
        /\ Compiled(g)' = Compiled(g) /\ In(g)' = In(g) /\ Out(g)' = Out(g)
        /\ RemoteNodes(g)' = RemoteNodes(g)
  BY <1>1 DEF Compiled, In, Out, RemoteNodes
<1>5. LocalIds' = LocalIds
  <2>1. \A n : Stays(n)' = Stays(n)
    BY <1>1, <1>4 DEF Stays
  <2>2. \A g \in Groups : Adapts(Out(g))' = Adapts(Out(g))
    BY <1>4
  <2> DEFINE done == {h \in Groups : Compiled(h)}
             decoders == UNION {{Decoder(g, k) : k \in Adapts(Out(g))} : g \in done}
  <2>3. done' = done
    BY <1>4
  <2>4. decoders' = decoders
    <3>1. \A g \in done : {Decoder(g, k) : k \in Adapts(Out(g))}'
                          = {Decoder(g, k) : k \in Adapts(Out(g))}
      BY <2>2
    <3> QED
      BY <2>3, <3>1
  <2>5. /\ LocalIds = {Node(n) : n \in {m \in Nodes : Stays(m)}}
                      \cup {Wrapper(g) : g \in done} \cup {Prepare(g) : g \in done} \cup decoders
        /\ LocalIds' = {Node(n) : n \in {m \in Nodes : Stays(m)'}}
                       \cup {Wrapper(g) : g \in done'} \cup {Prepare(g) : g \in done'}
                       \cup decoders'
    BY DEF LocalIds
  <2> HIDE DEF done, decoders
  <2> QED
    BY <2>1, <2>3, <2>4, <2>5
<1>6. /\ KeptFor(Retained) \subseteq Retained /\ Retained \subseteq AllRelocated
      /\ AllRelocated \subseteq Nodes
  BY RetainedKeeps DEF IInv, TypeOK, AllRelocated
<1>7. Closed(prompt')
  <2> SUFFICES ASSUME NEW id \in DOMAIN prompt', NEW i \in DOMAIN prompt'[id],
                      SourceOf(prompt'[id][i]) \in removed
               PROVE  FALSE
    BY <1>2, <1>3 DEF Closed
  <2>1. id \in DOMAIN prompt /\ id \notin removed /\ prompt'[id] = prompt[id]
    BY <1>2
  <2>2. PICK n \in AllRelocated \ Retained : SourceOf(prompt[id][i]) = Node(n)
    BY <2>1 DEF Ids
  <2>3. id \in Consumers(n)
    BY <2>1, <2>2 DEF Consumers
  <2>4. id \notin Ids(AllRelocated) \/ id \in Ids(Retained)
    BY <2>1 DEF Ids
  <2>5. n \in KeptFor(Retained)
    BY <2>2, <2>3, <2>4 DEF KeptFor
  <2> QED
    BY <1>6, <2>2, <2>5
<1>8. LocalShape'
  <2>1. AllRelocated' = AllRelocated
    BY <1>1 DEF AllRelocated
  <2>2. removed \subseteq Ids(AllRelocated)
    BY DEF Ids
  <2> HIDE DEF removed
  <2> QED
    BY <1>1, <1>2, <1>3, <1>5, <1>7, <2>1, <2>2 DEF LocalShape
<1>9. \A l, m, t : Carries(l, m, t)' = Carries(l, m, t)
  BY <1>1, <1>4 DEF Carries, Stays
<1>10. \A n : Feeds(n)' = Feeds(n) /\ \A m : Wire(m, n)' = Wire(m, n)
  BY <1>1, SameWires
<1>11. ASSUME NEW n \in Nodes, Node(n) \in DOMAIN prompt'
       PROVE  NodeLinks(n)'
  <2>1. NodeLinks(n) /\ prompt'[Node(n)] = prompt[Node(n)]
    BY <1>2, <1>11 DEF IInv, LocalLinks
  <2> QED
    BY <1>9, <1>10, <2>1 DEF NodeLinks
<1>12. ASSUME NEW g \in Groups, Compiled(g)
       PROVE  /\ AddedLinks(g) /\ prompt'[Wrapper(g)] = prompt[Wrapper(g)]
              /\ prompt'[Prepare(g)] = prompt[Prepare(g)]
              /\ \A k \in Adapts(Out(g)) : prompt'[Decoder(g, k)] = prompt[Decoder(g, k)]
  <2>1. Added(g, Out(g)) \subseteq LocalIds
    BY <1>12 DEF LocalIds, Added
  <2>2. \A id \in Added(g, Out(g)) : id \notin removed
    BY IdsDiffer DEF Added, Ids
  <2>3. \A id \in Added(g, Out(g)) : prompt'[id] = prompt[id]
    BY <1>2, <1>3, <2>1, <2>2
  <2>4. AddedLinks(g)
    BY <1>12 DEF IInv, LocalLinks
  <2> QED
    BY <2>3, <2>4 DEF Added
<1>13. ASSUME NEW g \in Groups, Compiled(g)
       PROVE  AddedLinks(g)' /\ \A n \in RemoteNodes(g) : RemoteLinksOf(g, n)'
  <2>1. AddedLinks(g)'
    BY <1>4, <1>9, <1>12, <1>13 DEF AddedLinks
  <2>2. \A n \in RemoteNodes(g) : RemoteLinksOf(g, n)
    BY <1>13 DEF IInv, RemoteLinks
  <2> QED
    BY <1>1, <1>4, <1>9, <1>10, <1>12, <1>13, <2>1, <2>2 DEF RemoteLinksOf
<1>14. LocalLinks' /\ RemoteLinks'
  BY <1>4, <1>11, <1>13 DEF LocalLinks, RemoteLinks
<1>15. RemoteShape'
  BY <1>1, <1>4 DEF IInv, RemoteShape, RemoteShapeOf, InputPorts
<1>16. TypeOK' /\ NothingYet' /\ Apart' /\ Relocations' /\ AllCompiled'
  BY <1>1, <1>4 DEF IInv, TypeOK, NothingYet, Apart, Relocations, AllCompiled
<1> QED
  BY <1>8, <1>14, <1>15, <1>16 DEF IInv

\* Nothing but the stage changes, when a phase refuses or nothing happens.
Untouched ==
  /\ UNCHANGED <<graph, inside, relocated, prompt, remote, ports, wrapper, preload>>
  /\ stage' = stage \/ (stage' = "refused" /\ stage # "compiled")

LEMMA StepUntouched ==
  ASSUME IInv, Untouched
  PROVE  IInv'
<1> USE DEF Untouched
<1>1. \A g : Compiled(g)' = Compiled(g) /\ In(g)' = In(g) /\ Out(g)' = Out(g)
             /\ InputPorts(g)' = InputPorts(g)
  BY DEF Compiled, In, Out, InputPorts
<1>2. /\ \A n : Feeds(n)' = Feeds(n) /\ \A m : Wire(m, n)' = Wire(m, n)
      /\ \A g : RemoteNodes(g)' = RemoteNodes(g)
      /\ AllRelocated' = AllRelocated /\ Original' = Original
  BY DEF Feeds, Wire, RemoteNodes, AllRelocated, Original
<1>3. LocalIds' = LocalIds
  BY DEF LocalIds, Stays, Compiled, Out
<1>4. \A l, m, t : Carries(l, m, t)' = Carries(l, m, t)
  BY <1>1 DEF Carries, Stays
<1>5. TypeOK' /\ NothingYet' /\ Apart' /\ Relocations' /\ AllCompiled'
  BY <1>1, <1>2 DEF IInv, TypeOK, NothingYet, Apart, Relocations, AllCompiled, Done
<1>6. LocalShape'
  BY <1>2, <1>3 DEF IInv, LocalShape
<1>7. LocalLinks'
  <2>1. \A n \in Nodes : NodeLinks(n)' = NodeLinks(n)
    BY <1>2, <1>4 DEF NodeLinks
  <2>2. \A g \in Groups : AddedLinks(g)' = AddedLinks(g)
    BY <1>1, <1>4 DEF AddedLinks
  <2> QED
    BY <1>1, <2>1, <2>2 DEF IInv, LocalLinks
<1>8. RemoteShape'
  BY <1>1, <1>2 DEF IInv, RemoteShape, RemoteShapeOf
<1>9. RemoteLinks'
  <2>1. \A g \in Groups, n \in Nodes : RemoteLinksOf(g, n) => RemoteLinksOf(g, n)'
    BY <1>1, <1>2, <1>4 DEF RemoteLinksOf
  <2>2. \A g \in Groups : RemoteNodes(g) \subseteq Nodes
    BY DEF IInv, TypeOK, RemoteNodes
  <2> QED
    BY <1>1, <1>2, <2>1, <2>2 DEF IInv, RemoteLinks
<1> QED
  BY <1>5, <1>6, <1>7, <1>8, <1>9 DEF IInv

LEMMA Inductive ==
  ASSUME IInv, [Next]_vars
  PROVE  IInv'
<1>1. CASE FindGroups
  <2>1. stage = "editor"
    BY <1>1 DEF FindGroups
  <2> QED
    BY <1>1, <2>1, StepFindGroups, StepUntouched DEF Refuse, Untouched
<1>2. CASE PlanRelocation
  <2>1. stage = "grouped"
    BY <1>2 DEF PlanRelocation
  <2> QED
    BY <1>2, <2>1, StepPlanRelocation, StepUntouched DEF Refuse, Untouched
<1>3. ASSUME NEW g \in Groups, CompileGroup(g)
      PROVE  IInv'
  <2>1. stage = "planned" /\ (Refuse \/ Compiles(g))
    BY <1>3 DEF CompileGroup, Compiles
  <2> QED
    BY <2>1, StepCompileGroup, StepUntouched DEF Refuse, Untouched
<1>4. CASE Prune
  BY <1>4, StepPrune
<1>5. CASE UNCHANGED vars
  <2>1. Untouched
    BY <1>5 DEF vars, Untouched
  <2> QED
    BY <2>1, StepUntouched
<1> QED
  BY <1>1, <1>2, <1>3, <1>4, <1>5 DEF Next

-------------------------------------------------------------------------------
(* What the result is.                                                        *)

LEMMA Invariance == Spec => []IInv
<1>1. Init => IInv
  BY Initially
<1>2. IInv /\ [Next]_vars => IInv'
  BY Inductive
<1> QED
  BY <1>1, <1>2, PTL DEF Spec

\* The variables have the shapes the phases give them: each group its nodes, its
\* relocated producers, its ports and its two prompts (group_compiler.py).
THEOREM TypeCorrect == Spec => []TypeOK
<1>1. IInv => TypeOK
  BY DEF IInv
<1> QED
  BY <1>1, Invariance, PTL

\* What carries an output is read as that output.
LEMMA Reading ==
  ASSUME IInv, NEW l, NEW m, NEW t, Carries(l, m, t)
  PROVE  FromLocal(l) = Output(m, t)
<1>1. CASE l = Output(m, t)
  BY <1>1 DEF FromLocal, Output
<1>2. ASSUME NEW g \in Groups, NEW k \in DOMAIN Out(g), Compiled(g),
             Out(g)[k].link = Output(m, t), Out(g)[k].type = t
      PROVE  LET o == remote[g][<<"output", g, 0>>][k]
             IN (IF o[1] = "encode" THEN remote[g][SourceOf(o)][1] ELSE o) = Output(m, t)
  <2>1. /\ remote[g][Boundary(g)] = [i \in DOMAIN Out(g) |->
             IF i \in Adapts(Out(g)) THEN Generated("encode", g, i) ELSE Out(g)[i].link]
        /\ \A i \in Adapts(Out(g)) : remote[g][Encoder(g, i)] = <<Out(g)[i].link>>
    BY <1>2 DEF IInv, RemoteShape, RemoteShapeOf
  <2> DEFINE o == remote[g][<<"output", g, 0>>][k]
  <2>2. o = IF k \in Adapts(Out(g)) THEN Generated("encode", g, k) ELSE Output(m, t)
    BY <1>2, <2>1 DEF Boundary
  <2> HIDE DEF o
  <2>3. CASE k \in Adapts(Out(g))
    <3>1. o[1] = "encode" /\ SourceOf(o) = Encoder(g, k)
      BY <2>2, <2>3, Sources DEF Generated
    <3>2. remote[g][Encoder(g, k)][1] = Output(m, t)
      BY <1>2, <2>1, <2>3
    <3> QED
      BY <3>1, <3>2 DEF o
  <2>4. CASE k \notin Adapts(Out(g))
    <3>1. o = Output(m, t) /\ o[1] # "encode"
      BY <2>2, <2>4 DEF Output
    <3> QED
      BY <3>1 DEF o
  <2> QED
    BY <2>3, <2>4
<1>3. ASSUME NEW g \in Groups, NEW k \in DOMAIN Out(g), Compiled(g),
             Out(g)[k].link = Output(m, t), Out(g)[k].type = t,
             l = Generated(IF t \in Adapted THEN "decode" ELSE "wrapper", g, k)
      PROVE  FromLocal(l) = Output(m, t)
  <2>1. CASE t \notin Adapted
    <3>1. l[1] = "wrapper" /\ l[2] = g /\ l[3] = k
      BY <1>3, <2>1 DEF Generated
    <3> QED
      BY <1>2, <1>3, <3>1 DEF FromLocal
  <2>2. CASE t \in Adapted
    <3>1. l[1] = "decode" /\ l[2] = g /\ SourceOf(l) = Decoder(g, k)
      BY <1>3, <2>2, Sources DEF Generated
    <3>2. k \in Adapts(Out(g)) /\ AddedLinks(g)
      BY <1>3, <2>2 DEF Adapts, IInv, LocalLinks
    <3>3. prompt[Decoder(g, k)][1] = Generated("wrapper", g, k)
      BY <3>2 DEF AddedLinks
    <3>4. prompt[SourceOf(l)][1][3] = k
      <4>1. Generated("wrapper", g, k)[3] = k
        BY DEF Generated
      <4> QED
        BY <3>1, <3>3, <4>1
    <3>5. FromLocal(l) = LET o == remote[l[2]][<<"output", l[2], 0>>][prompt[SourceOf(l)][1][3]]
                         IN IF o[1] = "encode" THEN remote[l[2]][SourceOf(o)][1] ELSE o
      BY <3>1 DEF FromLocal
    <3> QED
      BY <1>2, <1>3, <3>1, <3>4, <3>5
  <2> QED
    BY <2>1, <2>2
<1> QED
  BY <1>1, <1>3 DEF Carries

\* Every node that is executed, locally or at a peer, gets over every input what it
\* got in the editor's graph, however often _compile_group has led its links
\* elsewhere for one group after the other.
THEOREM InputsAreTheSame == Spec => []SameInputs
<1>1. IInv => SameInputs
  <2> SUFFICES ASSUME IInv, NEW n \in Nodes, NEW m \in Feeds(n)
               PROVE  LET meant == Output(m, Wire(m, n))
                      IN /\ Node(n) \in DOMAIN prompt => FromLocal(prompt[Node(n)][m]) = meant
                         /\ \A g \in Groups : Compiled(g) /\ n \in RemoteNodes(g) =>
                              FromRemote(remote[g][Node(n)][m]) = meant
    BY DEF SameInputs
  <2>1. ASSUME Node(n) \in DOMAIN prompt
        PROVE  FromLocal(prompt[Node(n)][m]) = Output(m, Wire(m, n))
    <3>1. Carries(prompt[Node(n)][m], m, Wire(m, n))
      BY <2>1 DEF IInv, LocalLinks, NodeLinks
    <3> QED
      BY <3>1, Reading
  <2>2. ASSUME NEW g \in Groups, Compiled(g), n \in RemoteNodes(g)
        PROVE  FromRemote(remote[g][Node(n)][m]) = Output(m, Wire(m, n))
    <3>1. RemoteLinksOf(g, n)
      BY <2>2 DEF IInv, RemoteLinks
    <3>2. CASE remote[g][Node(n)][m] = Output(m, Wire(m, n))
      BY <3>2 DEF FromRemote, Output
    <3>3. ASSUME NEW k \in DOMAIN In(g), remote[g][Node(n)][m] = Generated("input", g, k),
                 Carries(prompt[Wrapper(g)][k], m, Wire(m, n))
          PROVE  FromRemote(remote[g][Node(n)][m]) = Output(m, Wire(m, n))
      <4>1. FromLocal(prompt[Wrapper(g)][k]) = Output(m, Wire(m, n))
        BY <3>3, Reading
      <4>2. FromRemote(Generated("input", g, k)) = FromLocal(prompt[Wrapper(g)][k])
        BY DEF FromRemote, Generated, Wrapper
      <4> QED
        BY <3>3, <4>1, <4>2
    <3> QED
      BY <3>1, <3>2, <3>3 DEF RemoteLinksOf
  <2> QED
    BY <2>1, <2>2
<1> QED
  BY <1>1, Invariance, PTL

\* No link names a node that its prompt does not have: not in the local prompt after
\* relocated producers were removed, not in a remote one, not in a preload workflow.
THEOREM NothingDangles == Spec => []NoDanglingLinks
<1>1. IInv => NoDanglingLinks
  <2> SUFFICES ASSUME IInv, Done
               PROVE  Closed(prompt) /\ \A g \in Groups : Closed(remote[g]) /\ Closed(preload[g])
    BY DEF NoDanglingLinks
  <2>1. Closed(prompt)
    BY DEF IInv, LocalShape, Done
  <2>2. ASSUME NEW g \in Groups, ~Compiled(g)
        PROVE  Closed(remote[g]) /\ Closed(preload[g])
    <3>1. remote[g] = <<>> /\ preload[g] = <<>>
      BY <2>2 DEF IInv, NothingYet
    <3>2. DOMAIN remote[g] = {} /\ DOMAIN preload[g] = {}
      BY <3>1
    <3> QED
      BY <3>2 DEF Closed
  <2>3. ASSUME NEW g \in Groups, Compiled(g)
        PROVE  Closed(remote[g]) /\ Closed(preload[g])
    <3>1. RemoteShapeOf(g) /\ \A n \in RemoteNodes(g) : RemoteLinksOf(g, n)
      BY <2>3 DEF IInv, RemoteShape, RemoteLinks
    <3>2. PICK p : p = remote[g]
      OBVIOUS
    <3>3. /\ DOMAIN p = Ids(RemoteNodes(g)) \cup {Input(g, k) : k \in InputPorts(g)}
                        \cup {Encoder(g, k) : k \in Adapts(Out(g))} \cup {Boundary(g)}
          /\ \A k \in InputPorts(g) : p[Input(g, k)] = <<>>
          /\ \A k \in Adapts(Out(g)) : p[Encoder(g, k)] = <<Out(g)[k].link>>
          /\ p[Boundary(g)] = [k \in DOMAIN Out(g) |->
               IF k \in Adapts(Out(g)) THEN Generated("encode", g, k) ELSE Out(g)[k].link]
          /\ Closed(preload[g])
      BY <3>1, <3>2 DEF RemoteShapeOf
    <3>4. \A k \in DOMAIN Out(g) : SourceOf(Out(g)[k].link) \in DOMAIN p
      <4> SUFFICES ASSUME NEW k \in DOMAIN Out(g)
                   PROVE  SourceOf(Out(g)[k].link) \in DOMAIN p
        OBVIOUS
      <4>1. PICK n \in inside[g], t \in Types : Out(g)[k].link = Output(n, t)
        BY <3>1 DEF RemoteShapeOf
      <4>2. SourceOf(Out(g)[k].link) = Node(n) /\ Node(n) \in Ids(RemoteNodes(g))
        BY <4>1, Sources DEF Ids, RemoteNodes
      <4> QED
        BY <3>3, <4>2
    <3>5. ASSUME NEW n \in RemoteNodes(g), NEW m \in DOMAIN p[Node(n)]
          PROVE  SourceOf(p[Node(n)][m]) \in DOMAIN p
      <4>1. m \in Feeds(n)
        BY <3>1, <3>2 DEF RemoteLinksOf
      <4>2. CASE m \in RemoteNodes(g) /\ p[Node(n)][m] = Output(m, Wire(m, n))
        BY <3>3, <4>2, Sources DEF Ids
      <4>3. ASSUME NEW k \in DOMAIN In(g), p[Node(n)][m] = Generated("input", g, k)
            PROVE  SourceOf(p[Node(n)][m]) \in DOMAIN p
        <5>1. SourceOf(p[Node(n)][m]) = Input(g, k)
          BY <4>3, Sources
        <5>2. k \in InputPorts(g)
          <6>1. DOMAIN In(g) = 1..Len(In(g))
            BY <3>1 DEF RemoteShapeOf
          <6> QED
            BY <6>1 DEF InputPorts
        <5> QED
          BY <3>3, <5>1, <5>2
      <4> QED
        BY <3>1, <3>2, <4>1, <4>2, <4>3 DEF RemoteLinksOf
    <3>6. ASSUME NEW i \in DOMAIN p[Boundary(g)]
          PROVE  SourceOf(p[Boundary(g)][i]) \in DOMAIN p
      <4>1. CASE i \in Adapts(Out(g))
        <5>1. SourceOf(p[Boundary(g)][i]) = Encoder(g, i)
          BY <3>3, <3>6, <4>1, Sources
        <5> QED
          BY <3>3, <4>1, <5>1
      <4>2. CASE i \notin Adapts(Out(g))
        BY <3>3, <3>4, <3>6, <4>2
      <4> QED
        BY <4>1, <4>2
    <3>7. ASSUME NEW k \in Adapts(Out(g)), NEW i \in DOMAIN p[Encoder(g, k)]
          PROVE  SourceOf(p[Encoder(g, k)][i]) \in DOMAIN p
      <4>1. k \in DOMAIN Out(g) /\ p[Encoder(g, k)][i] = Out(g)[k].link
        BY <3>3, <3>7 DEF Adapts
      <4> QED
        BY <3>4, <4>1
    <3>8. ASSUME NEW k \in InputPorts(g)
          PROVE  DOMAIN p[Input(g, k)] = {}
      BY <3>3
    <3>9. ASSUME NEW id \in DOMAIN p, NEW i \in DOMAIN p[id]
          PROVE  SourceOf(p[id][i]) \in DOMAIN p
      <4>1. \/ \E n \in RemoteNodes(g) : id = Node(n)
            \/ \E k \in InputPorts(g) : id = Input(g, k)
            \/ \E k \in Adapts(Out(g)) : id = Encoder(g, k)
            \/ id = Boundary(g)
        BY <3>3, <3>9 DEF Ids
      <4> QED
        BY <3>5, <3>6, <3>7, <3>8, <3>9, <4>1
    <3> QED
      BY <3>2, <3>3, <3>9 DEF Closed
  <2> QED
    BY <2>1, <2>2, <2>3
<1> QED
  BY <1>1, Invariance, PTL

\* Every node is executed somewhere, and an output node or one that must not be
\* duplicated (_validate_relocatable_recipe) in one place only.
THEOREM ExecutedOnceOnly == Spec => []ExecutedOnce
<1>1. IInv => ExecutedOnce
  <2> SUFFICES ASSUME IInv, Done, NEW n \in Nodes
               PROVE  /\ Places(n) # {}
                      /\ graph.recipe[n] \in {"output", "fixed"} => Cardinality(Places(n)) = 1
    BY DEF ExecutedOnce
  <2>1. \A g \in Groups : inside[g] # {} => Compiled(g)
    BY DEF IInv, AllCompiled
  <2>2. graph.recipe[n] \in {"output", "fixed"} => n \notin AllRelocated
    BY DEF IInv, Relocations, AllRelocated
  <2>3. CASE \E g \in Groups : n \in inside[g]
    <3>1. PICK g \in Groups : n \in inside[g]
      BY <2>3
    <3>2. Compiled(g)
      BY <2>1, <3>1
    <3>3. Node(n) \notin DOMAIN prompt
      <4>1. ~Stays(n)
        BY <3>1, <3>2 DEF Stays
      <4>2. Node(n) \notin LocalIds
        BY <4>1, IdsDiffer DEF LocalIds
      <4> QED
        BY <4>2 DEF IInv, LocalShape
    <3>4. g \in Places(n)
      BY <3>1, <3>2 DEF Places, RemoteNodes
    <3>5. n \notin AllRelocated
      BY <3>1 DEF IInv, Relocations, AllRelocated
    <3>6. Places(n) \subseteq {g}
      BY <3>1, <3>3, <3>5 DEF Places, RemoteNodes, AllRelocated, IInv, Apart
    <3>7. Places(n) = {g}
      BY <3>4, <3>6
    <3> QED
      BY <3>7, FS_Singleton
  <2>4. CASE \A g \in Groups : n \notin inside[g]
    <3>1. Stays(n) /\ Node(n) \in LocalIds
      BY <2>4 DEF Stays, LocalIds
    <3>2. CASE n \notin AllRelocated
      <4>1. Node(n) \in DOMAIN prompt
        <5>1. Node(n) \notin Ids(AllRelocated)
          BY <3>2, IdsDiffer DEF Ids
        <5> QED
          BY <3>1, <5>1 DEF IInv, LocalShape
      <4>2. Places(n) = {0}
        BY <2>4, <3>2, <4>1 DEF Places, RemoteNodes, AllRelocated
      <4> QED
        BY <4>2, FS_Singleton
    <3>3. CASE n \in AllRelocated
      <4>1. PICK g \in Groups : n \in relocated[g]
        BY <3>3 DEF AllRelocated
      <4>2. Compiled(g)
        BY <2>1, <4>1 DEF IInv, Relocations
      <4>3. g \in Places(n)
        BY <4>1, <4>2 DEF Places, RemoteNodes
      <4> QED
        BY <2>2, <3>3, <4>3
    <3> QED
      BY <3>2, <3>3
  <2> QED
    BY <2>3, <2>4
<1> QED
  BY <1>1, Invariance, PTL
=============================================================================
