--------------------------- MODULE MCMarketServer ---------------------------
(* A chain of options and a search meet on one entry and one upstream slot;  *)
(* searches behind the key cache; two quotes on two entries and one flight.  *)
EXTENDS MarketServer, TLC

CONSTANTS c1, c2, chain, search, q1, q2

MCKind == chain :> "chain" @@ search :> "search" @@ q1 :> "quote"
          @@ q2 :> "quote"

MCSetups ==
    {[requests |-> {chain, search}, required |-> FALSE,
      entries |-> 1, bytes |-> 0, flights |-> 2, upstream |-> 1],
     [requests |-> {search}, required |-> TRUE,
      entries |-> 1, bytes |-> 1, flights |-> 2, upstream |-> 1],
     [requests |-> {q1, q2}, required |-> FALSE,
      entries |-> 2, bytes |-> 0, flights |-> 1, upstream |-> 2]}
=============================================================================
