--------------------------- MODULE MCDiffTesting ---------------------------
EXTENDS DiffTesting, TLC

MCMacs == {"m0", "m1"}
MCPorts == 0 .. 3
MCController == 3
MCDrop == 511

Keep == [m \in MCMacs |-> m]
Onward == ("m0" :> "m1") @@ ("m1" :> "m1")

RoutersOf(prods, tests, rewrites) == [prod : prods, test : tests, rewrite : rewrites, cut : {FALSE}]
MCRouters == RoutersOf({1, MCDrop}, {1, 2, MCDrop}, {Keep, Onward})
               \cup {[prod |-> 1, test |-> 2, rewrite |-> Keep, cut |-> TRUE]}
\* cases/merge-DiffTesting: ports 1 and 2 for the same destination.
MCRouterPair == RoutersOf({2}, {1}, {Keep})
MCRouterOnward == RoutersOf({2}, {1}, {Onward})

Frames == {[eth |-> "ip", tag |-> "none"], [eth |-> "shadow", tag |-> "ip"], [eth |-> "shadow", tag |-> "shadow"]}
MCIncoming ==
  {[dst |-> m, ttl |-> t, eth |-> f.eth, tag |-> f.tag] : m \in MCMacs, t \in 0 .. 2, f \in Frames}

\* As a host sends them.
MCUntagged == {i \in MCIncoming : i.tag = "none"}

MCTargets == {"kept", "cleared"}
MCKept == {"kept"}

MCTables == [MCMacs -> STCActions]
\* commands_STC.txt: one address is marked, everything else goes to production.
MCCommands == {[m \in MCMacs |-> IF m = "m0" THEN "SP4_add_shadow_tag" ELSE "goto_production_pipe"]}
MCGoto == {[m \in MCMacs |-> "goto_testing_pipe"]}
=============================================================================
