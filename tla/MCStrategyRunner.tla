-------------------------- MODULE MCStrategyRunner --------------------------
(* Small strategies: graphs wired at will and run for a tick, a few graphs run *)
(* for longer, and the composite strategy.                                     *)
EXTENDS StrategyRunner

Graph(nodes, connections, wires, extra, ticks) ==
  [nodes |-> nodes, connections |-> connections, wires |-> wires, extra |-> extra, ticks |-> ticks]

Mom(id)  == Node(id, "momentum", 1, "none")
Rev(id)  == Node(id, "reversion", 2, "none")
Ema(id)  == Node(id, "ema", 3, "none")
Data(id) == Node(id, "data_source", 0, "none")
Cond(id, cmp, v) == Node(id, "condition", v, cmp)
And(id)  == Node(id, "and_gate", 0, "none")
Or(id)   == Node(id, "or_gate", 0, "none")
Buy(id)  == Node(id, "buy_signal", 0, "none")
Sell(id) == Node(id, "sell_signal", 0, "none")

\* Every wiring with up to four connections: chains, cycles, self loops, shared
\* nodes, doubled wires, wires into an indicator, a signal behind a signal.
AnyWiring ==
  Graph(<<Mom("m"), Cond("c", "gt", 1), And("g"), Buy("b")>>, <<>>,
        ({"m", "c", "g", "b"} \X {"c", "g", "b"}) \cup {<<"g", "m">>}, 4, 1)

\* Unknown types and ends, and an id given twice: the later node counts.
Malformed ==
  Graph(<<Node("x", "macd", 0, "none"), Data("d"), Or("d"), Buy("b"), Sell("s")>>, <<>>,
        ({"x", "d"} \X {"d", "b", "s"}) \cup {<<"d", "nobody">>, <<"nobody", "b">>}, 3, 1)

\* As examples/graph.json: each signal behind a condition on an indicator.
Sample ==
  Graph(<<Data("data"), Mom("mom"), Cond("gt", "gt", 1), Buy("buy"),
          Rev("rev"), Cond("lt", "lt", -1), Sell("sell")>>,
        <<<<"data", "mom">>, <<"mom", "gt">>, <<"gt", "buy">>,
          <<"data", "rev">>, <<"rev", "lt">>, <<"lt", "sell">>>>, {}, 0, 6)

\* One indicator behind both inputs of a gate, and a price beside an average.
Shared ==
  Graph(<<Mom("m"), Cond("up", "ge", 2), Cond("flat", "le", 3), Ema("e"),
          Cond("dear", "gt", 9000), And("and"), Or("or"), Sell("s"), Buy("b")>>,
        <<<<"m", "up">>, <<"m", "flat">>, <<"up", "and">>, <<"flat", "and">>, <<"and", "b">>,
          <<"e", "dear">>, <<"dear", "or">>, <<"up", "or">>, <<"or", "s">>>>, {}, 0, 5)

\* Gates nested on their last input: one cell of the stack for each.
Deep ==
  Graph(<<Data("d"), Or("g1"), Or("g2"), Or("g3"), Cond("c", "eq", 0), Buy("b")>>,
        <<<<"c", "g1">>, <<"g2", "g1">>, <<"c", "g2">>, <<"g3", "g2">>, <<"c", "g3">>,
          <<"d", "g3">>, <<"d", "c">>, <<"g1", "b">>>>, {}, 0, 2)

EmptyWindow == Graph(<<Node("r", "reversion", 0, "none"), Buy("b")>>, <<<<"r", "b">>>>, {}, 0, 2)

MCSources  == {AnyWiring, Malformed, Sample, Shared, Deep, EmptyWindow}
OneSource  == {EmptyWindow}
MCPrices   == {0, 1000, 1001}
CalmPrices == {1000, 1005, 1010}
MCWeights  == [trend |-> 5, momentum |-> 3, reversion |-> 2]
=============================================================================
