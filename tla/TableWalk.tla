----------------------------- MODULE TableWalk -----------------------------
(***************************************************************************)
(* A packet runs through the optimised table graph of one control          *)
(* function while todo, what the source still asks for, is kept beside it. *)
(* One packet after the other comes in, with any set of headers the parser *)
(* can leave valid; what each table does is not decided here, so every     *)
(* outcome of every table and of every opaque condition is tried.  The     *)
(* actions add and remove no header.                                       *)
(***************************************************************************)
EXTENDS TableOptimize

CONSTANT Flows     \* the control functions tried, whether all their tables have default
                   \* actions, and the sets of valid headers packets come in with

VARIABLES
  flow,     \* the control function, chosen once
  graph,    \* its table graph
  at,       \* the node the packet is at, None between two packets
  hdrs,     \* the headers that are valid in it
  todo      \* what the source still has to run for this packet

vars == <<flow, graph, at, hdrs, todo>>

Init ==
  /\ flow \in Flows
  /\ graph = Optimize(ProgramOf(flow.calls, <<>>, "", 0))
  /\ at = None
  /\ hdrs = {}
  /\ todo = <<>>

\* What the packet decides of a condition.
Outcome(c) == IF Check(Condition[c], hdrs') = "unknown" THEN {"true", "false"} ELSE {Check(Condition[c], hdrs')}

\* The source goes on by itself over the conditions the graph has left out: by
\* the headers of the packet, either way if the condition is opaque.
RECURSIVE PastLeftOut(_)
PastLeftOut(calls) ==
  IF calls = <<>> \/ Head(calls).kind # "if" \/ Head(calls).node = at' THEN {calls}
  ELSE UNION {PastLeftOut(Continue(calls, o)) : o \in Outcome(Head(calls).node)}

Arrive ==
  /\ ~graph.err
  /\ at = None
  /\ at' = graph.p4_ingress_ptr
  /\ hdrs' \in flow.packets
  /\ todo' \in PastLeftOut(Unfold(flow.calls))
  /\ UNCHANGED <<flow, graph>>

\* The packet takes the edge of outcome o; without an entry and without a
\* default action it takes base_default_next instead.
Follow(o) ==
  /\ at # None
  /\ UNCHANGED <<flow, graph, hdrs>>
  /\ IsCond(at) => o \in Outcome(at)
  /\ \/ o \in DOMAIN graph.next_[at] /\ at' = graph.next_[at][o]
     \/ /\ o = "unset" /\ ~flow.defaults /\ ~IsCond(at) /\ "hit" \notin DOMAIN graph.next_[at]
        /\ at' = graph.base_default_next[at]
  /\ todo' \in IF todo # <<>> /\ Head(todo).node = at THEN PastLeftOut(Continue(todo, o)) ELSE {todo}

Outcomes == {"unset", "hit", "miss", "true", "false"} \cup UNION {ActionsOf[t] : t \in DOMAIN ActionsOf}

Step == \E o \in Outcomes : Follow(o)

Rejected == graph.err /\ UNCHANGED vars

Next == Arrive \/ Step \/ Rejected

Spec == Init /\ [][Next]_vars

-----------------------------------------------------------------------------
\* The packet is at a node of the graph or between two packets, and every edge
\* of the graph leads to a node or nowhere, base_default_next included.
TypeOK ==
  LET nodes == DOMAIN graph.next_
  IN /\ at \in nodes \cup {None}
     /\ hdrs \subseteq Headers
     /\ DOMAIN graph.base_default_next = nodes
     /\ \A n \in nodes :
          {graph.base_default_next[n]} \cup {graph.next_[n][l] : l \in DOMAIN graph.next_[n]} \subseteq nodes \cup {None}

\* Wherever the outcomes take a packet, it is at the table that the control
\* function, read as a program, has next: patching never skips a call, repeats one
\* or leaves an arm early, a miss without default action included, and a condition
\* is bypassed only where every packet that gets there would decide it that way.
\* As what the source has left gets shorter with every table, every packet leaves.
SameAsSource == at = AtCall(todo)

\* A control function is rejected only if it does name some table twice: neither
\* of the optimiser's assertions fails.
RejectsRepeats == graph.err => ~AllDistinct(Occurrences(flow.calls, TableKinds))
=============================================================================
