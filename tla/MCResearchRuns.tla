---------------------------- MODULE MCResearchRuns ----------------------------
(* Threads for ResearchRuns: a plain name, a qualified name that ends in it,  *)
(* and another conversation.                                                  *)
EXTENDS ResearchRuns

MCThreads == {<<"t">>, <<"o", "t">>, <<"u">>}
=============================================================================
