------------------------------ MODULE MCDesktop -----------------------------
(* A US market of Yahoo or of either of two versions of the Nasdaq fallback, *)
(* in two pages, and a Malaysian one with an intruder; 6 cannot be read.     *)
EXTENDS Desktop, TLC

\* The rest of Yahoo's provenance for the US are the totals of the exchanges.
Listing(market, feed, id, rows) ==
    [market |-> market, feed |-> feed, id |-> id, rows |-> rows,
     rest |-> IF market = "US" /\ feed = "yahoo" THEN Len(rows) ELSE None]

MCSources ==
    {Listing("US", "yahoo", None, <<>>), Listing("US", "nasdaq", "v1", <<1, 2, 3>>),
     Listing("US", "nasdaq", "v2", <<1, 3, 5>>), Listing("US", "yahoo", None, <<2, 6>>),
     Listing("MY", "yahoo", None, <<2, 3>>), Listing("MY", "yahoo", None, <<2, 4>>)}

MCVolume == 1 :> 20 @@ 2 :> 10 @@ 3 :> None @@ 4 :> 20 @@ 5 :> 5 @@ 6 :> None

Query(market, min, descending, offset) ==
    [market |-> market, min |-> min, descending |-> descending, offset |-> offset]

MCQueries == {Query("US", 10, TRUE, 0), Query("MY", None, FALSE, 1)}
=============================================================================
