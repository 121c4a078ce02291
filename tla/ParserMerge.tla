---------------------------- MODULE ParserMerge ----------------------------
(***************************************************************************)
(* The merge of the parsers of two programs, merge_parser_states of        *)
(* p4c_bm/SP4_merge.py, and what gen_json writes of the result.  A frame   *)
(* with the shadow tag (0x8100 in ethernet) is to be parsed as testing     *)
(* parses the frame without it, any other frame as production parses it.   *)
(*                                                                         *)
(* Parse states are Python objects that several dictionaries share; they   *)
(* are kept in a heap, under <<program, name>> with the name they were     *)
(* built with.  An object is a record as in ParserRun, but that its        *)
(* branches lead to objects.  Names are tuples, <<"shadow_", n>> for a     *)
(* prefixed one.                                                           *)
(***************************************************************************)
EXTENDS ParserRun, FiniteSets, SequencesExt

CONSTANT Pairs   \* the pairs <<production, testing>> of parsers: functions
                 \* from names to states whose branches lead to names

Tag == "0x8100"
Ethernet == <<"parse_ethernet">>
ShadowTag == <<"parse_shadow_tag">>

Shadow(name) == <<"shadow_">> \o name

\* A parser of P4: start leads to parse_ethernet, and nothing leads back to it;
\* cases are the keys of a dictionary, and without a select there is only the
\* default.
IsParser(p) ==
  /\ IsFiniteSet(DOMAIN p) /\ DOMAIN p \cap {EndOfParser} = {}
  /\ \A n \in DOMAIN p : n \in Seq(ToSet(n))
  /\ {Start, Ethernet} \subseteq DOMAIN p
  /\ p[Start] = [extract |-> NoHeader, on |-> FALSE, to |-> <<<<Default, Ethernet>>>>]
  /\ p[Ethernet].extract = "ethernet"
  /\ \A n \in DOMAIN p \ {Start} :
       LET to == p[n].to IN
       /\ to \in Seq(ToSet(to))
       /\ \A i \in DOMAIN to : to[i][2] \in (DOMAIN p \ {Start, Ethernet}) \cup {EndOfParser}
       /\ \A i, j \in DOMAIN to : to[i][1] = to[j][1] => i = j
       /\ p[n].on \/ \A i \in DOMAIN to : to[i][1] = Default

\* The names that the merge makes up are free.
ASSUME PairsAssumption ==
  \A pair \in Pairs :
    /\ pair = <<pair[1], pair[2]>> /\ IsParser(pair[1]) /\ IsParser(pair[2])
    /\ ShadowTag \notin DOMAIN pair[1]
    /\ \A n \in DOMAIN pair[2] : Shadow(n) \notin DOMAIN pair[1] \cup DOMAIN pair[2]

\* Every frame has an ethernet header, and a tagged one a header for the tag.
ASSUME FramesAssumption ==
  \A f \in Frames : f \in Seq(ToSet(f)) /\ f # <<>> /\ (f[1] = Tag => Len(f) > 1)

\* Setting a case of an OrderedDict: one that is there keeps its place.
Put(d, b) ==
  IF \E i \in DOMAIN d : d[i][1] = b[1]
  THEN [i \in DOMAIN d |-> IF d[i][1] = b[1] THEN b ELSE d[i]]
  ELSE Append(d, b)

\* OrderedDict.update
Update(to, new) == FoldLeft(Put, to, new)

\* What a recursion that stops at what it has met comes to from o; steps gives
\* for each the set of those it goes on with.
Reached(steps, o) ==
  FoldLeft(LAMBDA S, i : S \cup UNION {steps[q] : q \in S},
           {o}, [i \in 1 .. Cardinality(DOMAIN steps) |-> i])

\* find_accessible_parse_states
Targets(to) == {to[i][2] : i \in DOMAIN to} \ {EndOfParser}
Accessible(heap, o) == Reached([q \in DOMAIN heap |-> Targets(heap[q].to)], o)

\* The operator's own parser, SP4_metas_*.p4.
MetaParser ==
  [n \in {ShadowTag} |-> [extract |-> "shadow_tag", on |-> TRUE, to |-> <<<<Default, EndOfParser>>>>]]

Built(p, parser_, n) ==
  LET s == parser_[n] IN
  [name |-> n, extract |-> s.extract, on |-> s.on,
   to |-> [i \in DOMAIN s.to |->
             <<s.to[i][1], IF s.to[i][2] = EndOfParser THEN EndOfParser ELSE <<p, s.to[i][2]>>>>]]

\* The three programs as the front end leaves them, and the dictionary of the
\* merged program, which begins as testing's.
Loaded(r, s) ==
  [heap |-> [o \in ({"r"} \X DOMAIN r) \cup ({"s"} \X DOMAIN s) \cup ({"m"} \X DOMAIN MetaParser) |->
               CASE o[1] = "r" -> Built("r", r, o[2])
                 [] o[1] = "s" -> Built("s", s, o[2])
                 [] o[1] = "m" -> Built("m", MetaParser, o[2])],
   dict |-> [n \in DOMAIN s |-> <<"s", n>>]]

\* rename_parser_states: unreachable states keep their names.
Rename(h) ==
  LET reach == Accessible(h.heap, h.dict[Start]) \ {h.dict[Start]}
      moved == {n \in DOMAIN h.dict : h.dict[n] \in reach}
      kept == DOMAIN h.dict \ moved
  IN [heap |-> [o \in DOMAIN h.heap |->
                  IF o \in reach THEN [h.heap[o] EXCEPT !.name = Shadow(o[2])] ELSE h.heap[o]],
      dict |-> [n \in kept \cup {Shadow(m) : m \in moved} |->
                  IF n \in kept THEN h.dict[n] ELSE h.dict[Tail(n)]]]

WithState(dict, names, o) == [n \in DOMAIN dict \cup names |-> IF n \in names THEN o[n] ELSE dict[n]]

AddShadowTagKeeps(h) ==
  LET eth == h.dict[Shadow(Ethernet)]
      tag == <<"m", ShadowTag>>
  IN [heap |-> [h.heap EXCEPT
                  ![eth].on = TRUE,
                  ![eth].to = Update(<<<<{Tag}, tag>>>>, h.heap[eth].to),
                  ![tag].to = h.heap[eth].to],
      dict |-> WithState(h.dict, {ShadowTag}, [n \in {ShadowTag} |-> tag])]

AddShadowTagBare(h) ==
  LET eth == h.dict[Shadow(Ethernet)]
      tag == <<"m", ShadowTag>>
  IN [heap |-> [h.heap EXCEPT
                  ![eth].on = TRUE,
                  ![eth].to = <<<<{Tag}, tag>>, <<Default, EndOfParser>>>>],
      dict |-> WithState(h.dict, {ShadowTag}, [n \in {ShadowTag} |-> tag])]

\* The tag's state takes over testing's branches after ethernet; ethernet keeps
\* a branch to it and, by default, to the traffic control table.  A program
\* that does not select after ethernet is given the operator's key, its type.
AddShadowTag(h) ==
  LET eth == h.dict[Shadow(Ethernet)]
      tag == <<"m", ShadowTag>>
  IN [heap |-> [h.heap EXCEPT
                  ![eth].on = TRUE,
                  ![eth].to = <<<<{Tag}, tag>>, <<Default, EndOfParser>>>>,
                  ![tag].to = h.heap[eth].to],
      dict |-> WithState(h.dict, {ShadowTag}, [n \in {ShadowTag} |-> tag])]

\* Production's states come in under their names; its start is dropped and its
\* parse_ethernet only adds its branches to testing's.
AddProduction(h, r) ==
  LET eth == h.dict[Shadow(Ethernet)]
      own == DOMAIN r \ {Start, Ethernet}
  IN [heap |-> [h.heap EXCEPT ![eth].to = Update(@, h.heap[<<"r", Ethernet>>].to)],
      dict |-> WithState(h.dict, own, [n \in own |-> <<"r", n>>])]

\* merge_parser_states
MergeParsers(r, s) == AddProduction(AddShadowTag(Rename(Loaded(r, s))), r)

\* dump_one_parser: what is reached from start, branches by name.
DumpedState(heap, o) ==
  [name |-> heap[o].name, extract |-> heap[o].extract, on |-> heap[o].on,
   to |-> [i \in DOMAIN heap[o].to |->
             <<heap[o].to[i][1],
               IF heap[o].to[i][2] = EndOfParser THEN EndOfParser
               ELSE heap[heap[o].to[i][2]].name>>]]

Dumped(h) == {DumpedState(h.heap, o) : o \in Accessible(h.heap, h.dict[Start])}

(***************************************************************************)
(* The order of the deparser.  A header is an object of the program whose  *)
(* state extracts it, <<program, name>>: two programs that parse ipv4 have *)
(* two of them.  walk_rec is a recursion in depth; its calls still to be   *)
(* made are kept in todo.  Header stacks and the pragma header_ordering    *)
(* are left out.                                                           *)
(***************************************************************************)
NoPrev == <<>>

Call(o, prev, visited) == [state |-> o, prev |-> prev, visited |-> visited]

\* produce_topo_sorting: a depth-first search over dictionaries and sets in no
\* particular order, which can find any of them; none if there is a cycle.
Sortings(g) ==
  {q \in SetToSeqs(g.node) :
     \A i, j \in DOMAIN q : <<q[i], q[j]>> \in g.edge => i < j}
-----------------------------------------------------------------------------
VARIABLES
  pair,    \* the two parsers that are merged
  phase,   \* "walk" and sort, then "run" the result, or "exit" without one
  todo,    \* the calls of walk_rec still to be made
  seen,    \* recursion_states
  graph,   \* header_graph
  order    \* the deparser's order of headers

walkVars == <<phase, todo, seen, graph, order>>
vars == <<pair, walkVars, runVars>>

Merged == MergeParsers(pair[1], pair[2])

Init ==
  /\ pair \in Pairs
  /\ parser = Dumped(Merged)
  /\ phase = "walk" /\ todo = <<Call(Merged.dict[Start], NoPrev, {})>>
  /\ seen = {} /\ graph = [node |-> {}, edge |-> {}] /\ order = <<>>
  /\ Idle

Extracts(o) == Merged.heap[o].extract # NoHeader
Header(o) == <<o[1], Merged.heap[o].extract>>

PrevHeaderOfState(prev, o) == IF Extracts(o) THEN Header(o) ELSE NoPrev
PrevHeader(prev, o) == IF Extracts(o) THEN Header(o) ELSE prev

IsNew(c) == c.state # EndOfParser /\ <<c.state, c.prev>> \notin seen

\* A state that is on the way to itself is not gone through again.
Loops(c) == Extracts(c.state) /\ c.state \in c.visited

\* There is nothing to go on with, or it is known with this header before it.
Skip ==
  /\ todo # <<>> /\ ~IsNew(Head(todo))
  /\ todo' = Tail(todo)
  /\ UNCHANGED <<phase, seen, graph, order>>

CutLoop ==
  /\ todo # <<>> /\ IsNew(Head(todo)) /\ Loops(Head(todo))
  /\ seen' = seen \cup {<<Head(todo).state, Head(todo).prev>>}
  /\ todo' = Tail(todo)
  /\ UNCHANGED <<phase, graph, order>>

\* Every header follows the one extracted before it.
Extended(prev, o) ==
  IF Extracts(o)
  THEN [node |-> graph.node \cup {Header(o)},
        edge |-> graph.edge \cup IF prev = NoPrev THEN {} ELSE {<<prev, Header(o)>>}]
  ELSE graph

Visit ==
  /\ todo # <<>> /\ IsNew(Head(todo)) /\ ~Loops(Head(todo))
  /\ LET c == Head(todo)
         to == Merged.heap[c.state].to
     IN /\ seen' = seen \cup {<<c.state, c.prev>>}
        /\ graph' = Extended(c.prev, c.state)
        /\ todo' = [i \in DOMAIN to |->
                     Call(to[i][2], PrevHeader(c.prev, c.state), c.visited \cup {c.state})]
                   \o Tail(todo)
  /\ UNCHANGED <<phase, order>>

Sort ==
  /\ phase = "walk" /\ todo = <<>>
  /\ order' \in Sortings(graph)
  /\ phase' = "run"
  /\ UNCHANGED <<todo, seen, graph>>

\* LOG_CRITICAL: the compiler ends without a result.
GiveUp ==
  /\ phase = "walk" /\ todo = <<>>
  /\ Sortings(graph) = {}
  /\ phase' = "exit"
  /\ UNCHANGED <<todo, seen, graph, order>>

Ended == phase = "exit" /\ UNCHANGED walkVars

Compile == Skip \/ CutLoop \/ Visit \/ Sort \/ GiveUp \/ Ended
Run == Arrive \/ ParseState \/ Leave

Next ==
  \/ Compile /\ UNCHANGED <<pair, runVars>>
  \/ phase = "run" /\ Run /\ UNCHANGED <<pair, walkVars>>

Spec == Init /\ [][Next]_vars
-----------------------------------------------------------------------------
\* A program's parser by itself.
StatesOf(p) ==
  {[name |-> n, extract |-> p[n].extract, on |-> p[n].on, to |-> p[n].to] : n \in DOMAIN p}

Tagged == frame # <<>> /\ frame[1] = Tag
Untagged == frame # <<>> /\ frame[1] # Tag

Unprefixed(name) == IF Head(name) = "shadow_" THEN Tail(name) ELSE name

\* Production's parser, which sees the frames without a tag only.
Production == INSTANCE ParserRun WITH
  Frames <- {f \in Frames : f[1] # Tag},
  parser <- StatesOf(pair[1]),
  frame <- IF Untagged THEN frame ELSE <<>>,
  at <- IF Untagged THEN IF at = Shadow(Ethernet) THEN Ethernet ELSE at ELSE EndOfParser,
  key <- IF Untagged THEN key ELSE NoType,
  got <- IF Untagged THEN got ELSE <<>>,
  rest <- IF Untagged THEN rest ELSE <<>>

\* Testing's parser, which sees the tagged frames, without the tag.  It is at
\* parse_ethernet until the merged parser has taken the tag off.
Testing == INSTANCE ParserRun WITH
  Frames <- {Tail(f) : f \in {f \in Frames : f[1] = Tag}},
  parser <- StatesOf(pair[2]),
  frame <- IF Tagged THEN Tail(frame) ELSE <<>>,
  at <- IF Tagged THEN IF at = ShadowTag THEN Ethernet ELSE Unprefixed(at) ELSE EndOfParser,
  key <- IF Tagged /\ Len(got) > 1 THEN key ELSE NoType,
  got <- IF Tagged /\ Len(got) > 1 THEN <<got[1]>> \o SubSeq(got, 3, Len(got)) ELSE <<>>,
  rest <- IF Tagged THEN IF got = <<>> THEN Tail(rest) ELSE rest ELSE <<>>

\* A frame without the tag is parsed as production alone would parse it, state
\* by state, through states testing has named and production's put together.
UntaggedAsProduction == Production!Parses

\* A frame with the tag is parsed as testing would parse what was tagged, the tag
\* being its second header.
TaggedAsTesting == Testing!Parses /\ [](Tagged /\ Len(got) > 1 => got[2] = "shadow_tag")

TypeOK ==
  /\ pair \in Pairs
  /\ frame \in Frames \cup {<<>>}
  /\ at \in {s.name : s \in parser} \cup {EndOfParser}
  /\ Len(got) + Len(rest) = Len(frame)

\* The program that parses the i-th header of the frame, and its object of it.
Owner(i) == IF i = 1 THEN "s" ELSE IF ~Tagged THEN "r" ELSE IF i = 2 THEN "m" ELSE "s"
Own(i) == <<Owner(i), got[i]>>

\* Every set of states has one that leads to none of them.
LoopFree(p) ==
  \A S \in SUBSET DOMAIN p :
    S # {} => \E n \in S : \A i \in DOMAIN p[n].to : p[n].to[i][2] \notin S

\* For parsers without loops: the headers of a frame, each as an object of the
\* program that parsed it, are in the deparser's order, and in the order they were
\* parsed in.  The target emits a valid header wherever the order has its name;
\* there is a second place for it exactly when the other program also has a
\* state that parses a header of this name, and the frame is then not put together
\* as it was.
EmitsOwnAsParsed ==
  LoopFree(pair[1]) /\ LoopFree(pair[2]) =>
    /\ \A i \in DOMAIN got : \E a \in DOMAIN order : order[a] = Own(i)
    /\ \A i, j \in DOMAIN got : i < j =>
         \A a, b \in DOMAIN order : order[a] = Own(i) /\ order[b] = Own(j) => a < b
    /\ \A i \in DOMAIN got :
         (\E a \in DOMAIN order : order[a][2] = got[i] /\ order[a] # Own(i))
           <=> \E o \in Accessible(Merged.heap, Merged.dict[Start]) :
                 o[1] # Own(i)[1] /\ Merged.heap[o].extract = got[i]
=============================================================================
