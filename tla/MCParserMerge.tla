--------------------------- MODULE MCParserMerge ---------------------------
(***************************************************************************)
(* Parsers that start with start and parse_ethernet, as the readme asks:   *)
(* with and without a select after ethernet, with a masked case, with a    *)
(* default that goes on, with a state that extracts nothing, with states   *)
(* of one name that do different things; with a loop, with the headers of  *)
(* another in the opposite order, with headers in both orders.  All frames *)
(* of four headers whose last one ends the loop.                           *)
(***************************************************************************)
EXTENDS ParserMerge, TLC

St(extract, on, to) == [extract |-> extract, on |-> on, to |-> to]
A == <<"parse_a">>
B == <<"parse_b">>
C == <<"parse_c">>
Mid == <<"parse_mid">>
End == EndOfParser
Else(n) == <<Default, n>>
On(k, n) == <<{k}, n>>

From(eth) == (Start :> St(NoHeader, FALSE, <<Else(Ethernet)>>)) @@ (Ethernet :> eth)

Plain  == From(St("ethernet", FALSE, <<Else(End)>>))
Chain  == From(St("ethernet", TRUE, <<On("a", A), Else(End)>>))
          @@ (A :> St("a", TRUE, <<On("b", B), Else(End)>>))
          @@ (B :> St("b", FALSE, <<Else(End)>>))
Always == From(St("ethernet", FALSE, <<Else(A)>>))
          @@ (A :> St("a", FALSE, <<Else(End)>>))
Masked == From(St("ethernet", TRUE, <<<<{"a", "b"}, Mid>>, Else(End)>>))
          @@ (Mid :> St(NoHeader, TRUE, <<On("b", B), Else(A)>>))
          @@ (A :> St("a", TRUE, <<On("b", B)>>))
          @@ (B :> St("b", FALSE, <<Else(End)>>))
Other  == From(St("ethernet", TRUE, <<On("b", A), On("a", B), Else(B)>>))
          @@ (A :> St("c", FALSE, <<Else(B)>>))
          @@ (B :> St("b", FALSE, <<Else(End)>>))
Vlan   == From(St("ethernet", TRUE, <<On(Tag, A), On("a", B), Else(End)>>))
          @@ (A :> St("vlan", TRUE, <<On("a", B), Else(End)>>))
          @@ (B :> St("b", FALSE, <<Else(End)>>))

Back   == From(St("ethernet", TRUE, <<On("b", B), Else(End)>>))
          @@ (A :> St("a", FALSE, <<Else(End)>>))
          @@ (B :> St("b", TRUE, <<On("a", A), Else(End)>>))
Loop   == From(St("ethernet", TRUE, <<On("a", A), On("b", B), Else(End)>>))
          @@ (A :> St("a", TRUE, <<On("b", B), On("a", A)>>))
          @@ (B :> St("b", TRUE, <<On("a", A), Else(End)>>))
Cross  == From(St("ethernet", TRUE, <<On("a", A), On("b", B), Else(End)>>))
          @@ (A :> St("a", TRUE, <<On("b", Mid), Else(End)>>))
          @@ (Mid :> St("b", FALSE, <<Else(End)>>))
          @@ (B :> St("b", TRUE, <<On("a", C), Else(End)>>))
          @@ (C :> St("a", FALSE, <<Else(End)>>))

Parsers == {Plain, Chain, Always, Masked, Other}
MCPairs ==
  (Parsers \X (Parsers \cup {Vlan}))
    \cup ({Chain, Back, Loop} \X {Chain, Back, Loop}) \cup {<<Cross, Plain>>, <<Plain, Cross>>}
VlanPairs == {Vlan} \X Parsers

MCFrames == {f \in [1 .. 4 -> {Tag, "a", "b", "x"}] : f[4] = "x"}
=============================================================================
