---------------------------- MODULE GroupCompiler ----------------------------
(***************************************************************************)
(* The compiler of remote groups (cutlery_remote/group_compiler.py): from  *)
(* an editor graph with groups drawn around nodes and the API prompt of    *)
(* that graph, to a prompt in which each group is one wrapper node and a   *)
(* remote prompt of its own.  One action per phase of                      *)
(* compile_editor_remote_groups_detailed; the graph is chosen at first.    *)
(***************************************************************************)
EXTENDS Integers, Sequences, FiniteSets, SequencesExt

CONSTANTS
  N,          \* nodes 1..N, every source before its consumers
  Graphs,     \* editor graphs: a type for each wire, a recipe and a place for each node
  Boxes,      \* Boxes[g]: bounds of group g, <<x, y, width, height>>
  MaxPorts    \* ports of a group in each direction

Nodes == 1..N
Pairs == {w \in Nodes \X Nodes : w[1] < w[2]}
Groups == DOMAIN Boxes

\* Types of wires.  The first has a blob adapter, the last is a runtime object.
Types == {"latent", "image", "video", "lora_chain", "model"}
Supported == Types \ {"model"}
Adapted == {"latent"}

\* What both peers' definitions say of a node: that its inputs are all it depends
\* on, nothing of the kind, that it is an output node, or that it must not be
\* duplicated (NOT_IDEMPOTENT, different schemas, no definition).
Recipes == {"declared", "plain", "output", "fixed"}

Bounds == Int \X Int \X Int \X Int

ASSUME CompilerAssumption ==
  /\ N \in Nat /\ MaxPorts \in Nat
  /\ Boxes \in Seq(Bounds)
  /\ Graphs \subseteq [wires: [Pairs -> Types \cup {"none"}], recipe: [Nodes -> Recipes],
                       place: [Nodes -> Bounds]]

VARIABLES
  graph,      \* the editor graph
  stage,      \* what was done last
  inside,     \* inside[g]: nodes drawn in group g
  relocated,  \* relocated[g]: producers to be built again at g's target
  prompt,     \* the prompt so far: prompt[id][input] is a link
  remote,     \* remote[g]: the remote prompt of g
  ports,      \* ports[g]: its boundary values, inbound and outbound
  wrapper,    \* wrapper[g]: class and cache policy of its wrapper
  preload     \* preload[g]: the preload workflow of g

vars == <<graph, stage, inside, relocated, prompt, remote, ports, wrapper, preload>>

\* Ids of prompt nodes, and links to their outputs.  A node's outputs are named by
\* their types, a wrapper's by their index.
Node(n) == <<"node", 0, n>>
Output(n, type) == <<"node", 0, n, type>>
Generated(kind, g, k) == <<kind, g, k, "">>
SourceOf(link) ==
  IF link[1] = "wrapper" THEN <<"wrapper", link[2], 0>> ELSE <<link[1], link[2], link[3]>>

Wire(m, n) == graph.wires[<<m, n>>]
Feeds(n) == {m \in Nodes : m < n /\ Wire(m, n) # "none"}

Original == [id \in {Node(n) : n \in Nodes} |->
               [m \in Feeds(id[3]) |-> Output(m, Wire(m, id[3]))]]

Init ==
  /\ graph \in Graphs
  /\ stage = "editor"
  /\ inside = [g \in Groups |-> {}]
  /\ relocated = [g \in Groups |-> {}]
  /\ prompt = Original
  /\ remote = [g \in Groups |-> <<>>]
  /\ ports = [g \in Groups |-> [in |-> <<>>, out |-> <<>>]]
  /\ wrapper = [g \in Groups |-> [class |-> "none", policy |-> "none"]]
  /\ preload = [g \in Groups |-> <<>>]

Refuse ==
  /\ stage' = "refused"
  /\ UNCHANGED <<graph, inside, relocated, prompt, remote, ports, wrapper, preload>>

-----------------------------------------------------------------------------
(* Which nodes are in which group.                                         *)

Encloses(outer, inner) ==
  /\ inner[1] >= outer[1] /\ inner[1] + inner[3] <= outer[1] + outer[3]
  /\ inner[2] >= outer[2] /\ inner[2] + inner[4] <= outer[2] + outer[4]

Overlaps(a, b) ==
  /\ a[1] < b[1] + b[3] /\ b[1] < a[1] + a[3]
  /\ a[2] < b[2] + b[4] /\ b[2] < a[2] + a[4]

GroupsAround(n) == {g \in Groups : Encloses(Boxes[g], graph.place[n])}
GroupsAcross(n) ==
  {g \in Groups : Overlaps(Boxes[g], graph.place[n])} \ GroupsAround(n)

Misplaced(n) == GroupsAcross(n) # {} \/ Cardinality(GroupsAround(n)) > 1

\* _remote_groups: every node is in one group or clear of all.
FindGroups ==
  /\ stage = "editor"
  /\ IF \E n \in Nodes : Misplaced(n)
     THEN Refuse
     ELSE /\ inside' = [g \in Groups |-> {n \in Nodes : g \in GroupsAround(n)}]
          /\ stage' = "grouped"
          /\ UNCHANGED <<graph, relocated, prompt, remote, ports, wrapper, preload>>

-----------------------------------------------------------------------------
(* Producers that have to be built again at the target.                    *)

OtherGroup(n, g) == \E h \in Groups \ {g} : n \in inside[h]

\* _reject_cross_target_links: no wire from one group straight into another.
CrossTarget ==
  \E g \in Groups : \E n \in inside[g] : \E m \in Feeds(n) : OtherGroup(m, g)

\* Producers of the runtime objects that these nodes and the group's own take.
Producers(g, ns) ==
  {n \in Nodes \ inside[g] :
     \E c \in inside[g] \cup ns : n \in Feeds(c) /\ Wire(n, c) \notin Supported}

\* They, and the producers they take runtime objects from: the least such set.
Closure(g) ==
  {n \in Nodes : \A ns \in SUBSET Nodes : Producers(g, ns) \subseteq ns => n \in ns}

\* Slip: an output node may be built again.
Relocatable_Output(n) == graph.recipe[n] # "fixed"

\* _validate_relocatable_recipe.
Relocatable(n) == graph.recipe[n] \in {"declared", "plain"}

PlanRelocation ==
  /\ stage = "grouped"
  /\ IF CrossTarget \/ \E g \in Groups : \E n \in Closure(g) :
                          OtherGroup(n, g) \/ ~Relocatable(n)
     THEN Refuse
     ELSE /\ relocated' = [g \in Groups |-> Closure(g)]
          /\ stage' = "planned"
          /\ UNCHANGED <<graph, inside, prompt, remote, ports, wrapper, preload>>

-----------------------------------------------------------------------------
(* One group becomes a wrapper node and a remote prompt.                   *)

Compiled(g) == wrapper[g].class # "none"
Ids(ns) == {Node(n) : n \in ns}

\* A prompt with the entries of another.
With(p, q) == [id \in DOMAIN p \cup DOMAIN q |-> IF id \in DOMAIN q THEN q[id] ELSE p[id]]

RemoteNodes(g) == inside[g] \cup relocated[g]

\* Values that enter: a port for each link and type.  The type of an input is the
\* one it had in the editor, wherever the link was led meanwhile.
Entering(g) ==
  {w \in Nodes \X RemoteNodes(g) :
     /\ w[1] \in Feeds(w[2])
     /\ SourceOf(prompt[Node(w[2])][w[1]]) \notin Ids(RemoteNodes(g))}

Inbound(g) ==
  {[link |-> prompt[Node(w[2])][w[1]], type |-> Wire(w[1], w[2])] : w \in Entering(g)}

\* Values that leave: every link out of the group from what stays in the prompt,
\* wrappers of earlier groups and local copies of relocated nodes too.
Leaving(g) ==
  {w \in inside[g] \X Types :
     \E id \in DOMAIN prompt \ Ids(inside[g]) :
       \E i \in DOMAIN prompt[id] : prompt[id][i] = Output(w[1], w[2])}

Outbound(g) == {[link |-> Output(w[1], w[2]), type |-> w[2]] : w \in Leaving(g)}

\* _boundary_type and _check_capacity.
Crosses(in, out) ==
  /\ \A p \in in : p.type \in Supported \ {"video"}
  /\ \A p \in out : p.type \in Supported \ {"lora_chain"}
  /\ Cardinality(in) <= MaxPorts /\ Cardinality(out) <= MaxPorts

\* Slip: the port of another output of the same node.
PortOf_Node(seq, link) == CHOOSE k \in DOMAIN seq : SourceOf(seq[k].link) = SourceOf(link)

PortOf(seq, link) == CHOOSE k \in DOMAIN seq : seq[k].link = link
HasPort(seq, link) == \E k \in DOMAIN seq : seq[k].link = link

\* The ports of these whose values go through an adapter.
Adapts(out) == {k \in DOMAIN out : out[k].type \in Adapted}

\* The group's nodes, with entering links led to input boundaries ...
RemoteBody(g, in) ==
  [id \in Ids(RemoteNodes(g)) |->
     [m \in DOMAIN prompt[id] |->
        LET p == [link |-> prompt[id][m], type |-> Wire(m, id[3])]
        IN IF p \in ToSet(in) THEN Generated("input", g, CHOOSE k \in DOMAIN in : in[k] = p)
                              ELSE p.link]]

\* ... and what is put around them: input boundaries (one without ports if nothing
\* enters), the encoders, and the output boundary.
RemoteBoundary(g, in, out) ==
  LET inputs == {<<"input", g, k>> : k \in IF in = <<>> THEN {0} ELSE DOMAIN in}
      encoders == {<<"encode", g, k>> : k \in Adapts(out)}
  IN [id \in inputs \cup encoders \cup {<<"output", g, 0>>} |->
        CASE id[1] = "input" -> <<>>
          [] id[1] = "encode" -> <<out[id[3]].link>>
          [] id[1] = "output" -> [k \in DOMAIN out |->
               IF k \in Adapts(out) THEN Generated("encode", g, k) ELSE out[k].link]]

RemotePrompt(g, in, out) == With(RemoteBody(g, in), RemoteBoundary(g, in, out))

\* A link to an output of the group is led to the wrapper or to a decoder.
Led(g, out, l) ==
  IF ~HasPort(out, l) THEN l
  ELSE Generated(IF l[4] \in Adapted THEN "decode" ELSE "wrapper", g, PortOf(out, l))

\* The prompt without the group's own nodes ...
LocalBody(g, out) ==
  [id \in DOMAIN prompt \ Ids(inside[g]) |->
     [i \in DOMAIN prompt[id] |-> Led(g, out, prompt[id][i])]]

\* ... wrapper, decoders and preparation added.
LocalBoundary(g, in, out) ==
  [id \in {<<"decode", g, k>> : k \in Adapts(out)}
          \cup {<<"prepare", g, 0>>, <<"wrapper", g, 0>>} |->
     CASE id[1] = "decode" -> <<Generated("wrapper", g, id[3])>>
       [] id[1] = "prepare" -> <<>>
       [] id[1] = "wrapper" ->
            Append([k \in DOMAIN in |-> in[k].link], Generated("prepare", g, 0))]

LocalPrompt(g, in, out) == With(LocalBody(g, out), LocalBoundary(g, in, out))

\* _group_executor_class: a group whose values nobody takes, or with an output
\* node, has a terminal wrapper.
WrapperClass(g, out) ==
  IF out = <<>> \/ \E n \in inside[g] : graph.recipe[n] = "output"
  THEN "executor" ELSE "value_executor"

\* _group_cache_policy.
CachePolicy(g, class) ==
  IF class = "value_executor" /\ \A n \in RemoteNodes(g) : graph.recipe[n] = "declared"
  THEN "sender-v1" ELSE "remote"

\* A producer is ready to be preloaded if it takes values of such producers only.
Preloadable(g, workflow, ns) ==
  {n \in relocated[g] : \A m \in DOMAIN workflow[Node(n)] :
                          SourceOf(workflow[Node(n)][m]) \in Ids(ns \cap relocated[g])}

\* All that are, round by round: the least set of that kind.
Ready(g, workflow) ==
  {n \in Nodes : \A ns \in SUBSET Nodes : Preloadable(g, workflow, ns) \subseteq ns => n \in ns}

\* _preload_workflow, with its helper that takes the runtime objects.
PreloadWorkflow(g, workflow) ==
  LET ready == Ready(g, workflow)
      objects == {Output(n, "model") : n \in ready}
      helper == IF objects = {} THEN {} ELSE {<<"preload", g, 0>>}
  IN With([id \in Ids(ready) |-> workflow[id]], [id \in helper |-> SetToSeq(objects)])

\* _compile_group, for the groups in their order; one without nodes is no group.
CompileGroup(g) ==
  /\ stage = "planned"
  /\ inside[g] # {} /\ ~Compiled(g)
  /\ \A h \in Groups : h < g /\ inside[h] # {} => Compiled(h)
  /\ IF ~Crosses(Inbound(g), Outbound(g))
     THEN Refuse
     ELSE LET in == SetToSeq(Inbound(g))
              out == SetToSeq(Outbound(g))
              class == WrapperClass(g, out)
          IN /\ remote' = [remote EXCEPT ![g] = RemotePrompt(g, in, out)]
             /\ prompt' = LocalPrompt(g, in, out)
             /\ ports' = [ports EXCEPT ![g] = [in |-> in, out |-> out]]
             /\ wrapper' = [wrapper EXCEPT ![g] =
                              [class |-> class, policy |-> CachePolicy(g, class)]]
             /\ preload' = [preload EXCEPT ![g] = PreloadWorkflow(g, remote'[g])]
             /\ UNCHANGED <<graph, stage, inside, relocated>>

-----------------------------------------------------------------------------
(* Relocated producers that nobody local needs any more are removed.       *)

Consumers(n) ==
  {id \in DOMAIN prompt : \E i \in DOMAIN prompt[id] : SourceOf(prompt[id][i]) = Node(n)}

AllRelocated == UNION {relocated[g] : g \in Groups}

\* Slip: what only a retained producer consumes is removed.
Retained_Direct ==
  {n \in AllRelocated : Consumers(n) \ Ids(AllRelocated) # {}}

\* Relocated producers with a consumer that stays: one outside, or one of these.
KeptFor(ns) ==
  {n \in AllRelocated : \E id \in Consumers(n) : id \notin Ids(AllRelocated) \/ id \in Ids(ns)}

Retained ==
  {n \in Nodes : \A ns \in SUBSET Nodes : KeptFor(ns) \subseteq ns => n \in ns}

Prune ==
  /\ stage = "planned"
  /\ \A g \in Groups : inside[g] # {} => Compiled(g)
  /\ prompt' = [id \in DOMAIN prompt \ Ids(AllRelocated \ Retained) |-> prompt[id]]
  /\ stage' = "compiled"
  /\ UNCHANGED <<graph, inside, relocated, remote, ports, wrapper, preload>>

-----------------------------------------------------------------------------
Next ==
  \/ FindGroups \/ PlanRelocation \/ Prune
  \/ \E g \in Groups : CompileGroup(g)

Spec == Init /\ [][Next]_vars

-----------------------------------------------------------------------------
(* What the result must be.                                                *)

Done == stage = "compiled"

\* The original output that arrives over a link of the prompt ...
FromLocal(link) ==
  LET fromWrapper(g, k) ==
        LET l == remote[g][<<"output", g, 0>>][k]
        IN IF l[1] = "encode" THEN remote[g][SourceOf(l)][1] ELSE l
  IN CASE link[1] = "node" -> link
       [] link[1] = "wrapper" -> fromWrapper(link[2], link[3])
       [] link[1] = "decode" -> fromWrapper(link[2], prompt[SourceOf(link)][1][3])

\* ... and over one of a remote prompt.
FromRemote(link) ==
  IF link[1] = "input" THEN FromLocal(prompt[<<"wrapper", link[2], 0>>][link[3]]) ELSE link

\* Every node that is executed, locally or at a peer, gets over every input what
\* it got in the editor's graph (_compile_group's rewiring of both prompts, one
\* group after the other).
SameInputs ==
  Done => \A n \in Nodes : \A m \in Feeds(n) :
    LET meant == Output(m, Wire(m, n))
    IN /\ Node(n) \in DOMAIN prompt => FromLocal(prompt[Node(n)][m]) = meant
       /\ \A g \in Groups : Compiled(g) /\ n \in RemoteNodes(g) =>
            FromRemote(remote[g][Node(n)][m]) = meant

Closed(p) == \A id \in DOMAIN p : \A i \in DOMAIN p[id] : SourceOf(p[id][i]) \in DOMAIN p

\* No prompt that is sent or executed names a node it does not have: not the local
\* one after relocated producers were removed, not a remote one, not a preload.
NoDanglingLinks ==
  Done => Closed(prompt) /\ \A g \in Groups : Closed(remote[g]) /\ Closed(preload[g])

Places(n) == {g \in Groups : n \in RemoteNodes(g) /\ Compiled(g)}
             \cup (IF Node(n) \in DOMAIN prompt THEN {0} ELSE {})

\* Every node is executed somewhere, and one that must not be duplicated in one
\* place only (_validate_relocatable_recipe, the removal of relocated producers).
ExecutedOnce ==
  Done => \A n \in Nodes :
    /\ Places(n) # {}
    /\ graph.recipe[n] \in {"output", "fixed"} => Cardinality(Places(n)) = 1

\* _reject_cross_target_links: "Cutlery remote groups cannot depend on another remote
\* target".  No wrapper takes a value from another group's wrapper or its decoder.
NoCrossTarget ==
  Done => \A g \in Groups : \A k \in DOMAIN ports[g].in :
    prompt[<<"wrapper", g, 0>>][k][1] \notin {"wrapper", "decode"}
=============================================================================
