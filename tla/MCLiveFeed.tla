----------------------------- MODULE MCLiveFeed -----------------------------
(* Conditions for LiveFeed: two screens whose commands and timers are in     *)
(* order, one screen whose commands overtake each other, with timers on time *)
(* or late, and one screen in order whose resource falls due again.          *)
EXTENDS LiveFeed

CONSTANTS o1, o2

Of(screenSet, reordering, lateTimers) ==
  [screens |-> screenSet, reordering |-> reordering, lateTimers |-> lateTimers,
   begins |-> 2, dueUntil |-> 0, focus |-> TRUE]

DueAgain == [Of({o1}, FALSE, FALSE) EXCEPT !.begins = 1, !.dueUntil = 4]

InOrder == {[Of({o1}, FALSE, FALSE) EXCEPT !.focus = FALSE], DueAgain}
Overtaken == {Of({o1}, TRUE, FALSE)}
InOrderOrRacing == {Of({o1, o2}, FALSE, FALSE), Of({o1}, TRUE, TRUE), DueAgain}
=============================================================================
