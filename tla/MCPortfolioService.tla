------------------------- MODULE MCPortfolioService -------------------------
(* Model checking of PortfolioService: a purchase, a sale that needs it, the *)
(* same purchase moved to a day after the sale, a file whose sale has no id, *)
(* and one that sells before it buys.                                        *)
EXTENDS PortfolioService, TLC

Trade(id, side, day) == [id |-> id, side |-> side, day |-> day, quantity |-> 1]

bought == Trade(<<"a">>, "BUY", 1)
boughtLater == Trade(<<"a">>, "BUY", 3)
sold == Trade(<<"b">>, "SELL", 2)

MCTrades == {bought, boughtLater, sold}
unnamed == Trade(NoId, "SELL", 2)

MCImports == {<<unnamed, bought>>, <<boughtLater, unnamed>>}

\* A file imported twice adds nothing the second time, whatever rows it repeats
\* with or without ids; and no row without an id is lost.
Files == UNION {[1..n -> {bought, Trade(NoId, "BUY", 1), unnamed}] : n \in 1..3}

ASSUME ImportIsIdempotent ==
  \A rows \in Files :
    LET once == Merged(NoDocument, rows)
        unnamedRows == {i \in DOMAIN rows : rows[i].id = NoId}
    IN /\ Merged(once, rows) = once
       /\ Cardinality({i \in DOMAIN once.trades : once.trades[i].id # <<"a">>})
            = Cardinality(unnamedRows)
=============================================================================
