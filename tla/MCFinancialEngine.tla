------------------------- MODULE MCFinancialEngine -------------------------
(* Three calls on one permit, an identifier that is used twice, and a        *)
(* registration beside an import from the command line.                      *)
EXTENDS FinancialEngine

CONSTANTS prices, filing, a, b, c

MCSeriesOf == [s \in Snapshots |-> IF s = filing THEN "statements" ELSE "prices"]

Pure == [does |-> "pure", of |-> None]

Register(s) == [does |-> "register", of |-> s]

Latest == [does |-> "latest", of |-> "prices"]

Asked(i, job) == [id |-> i, job |-> job]

MCPlans ==
    {[calls |-> <<Asked(a, Pure), Asked(b, Pure), Asked(c, Pure)>>, imports |-> {}],
     [calls |-> <<Asked(a, Register(prices)), Asked(b, Latest)>>, imports |-> {}],
     [calls |-> <<Asked(a, Pure), Asked(a, Pure), Asked(b, Pure)>>, imports |-> {}],
     [calls |-> <<Asked(a, Register(prices))>>, imports |-> {prices}],
     [calls |-> <<Asked(a, Latest)>>,
      imports |-> {prices, filing}]}
=============================================================================
