----------------------------- MODULE ResearchRuns -----------------------------
(***************************************************************************)
(* Research runs of the desktop engine                                     *)
(* (crates/terminal-engine/src/research.rs).                               *)
(*                                                                         *)
(* Each run is a task that reads the server's event stream into a          *)
(* snapshot; screens list the snapshots, start runs and cancel them.  The  *)
(* task selects between the end of the stream (whose last events may still *)
(* be in the channel), a cancellation and the next event.                  *)
(* A thread is the sequence of its "__"-separated parts; texts are their   *)
(* lengths.                                                                *)
(***************************************************************************)
EXTENDS Naturals, Sequences, FiniteSets, SequencesExt

CONSTANTS
  Ids,         \* run ids; a number is the place in the ordered map
  Threads,     \* conversation threads, as sequences of parts
  MaxJobs,     \* runs kept (16 in the code)
  MaxRunning,  \* concurrent runs (4 in the code)
  MaxOutput,   \* retained text of a run (2 MiB in the code)
  Channel,     \* capacity of the event channel (32 in the code)
  MaxInputs    \* bound: runs started and events sent, together

ASSUME RunsAssumption ==
  /\ Ids \subseteq Nat /\ MaxRunning <= MaxJobs
  /\ \A t \in Threads : t \in Seq(ToSet(t)) \ {<<>>}

VARIABLES
  runs,      \* id -> run, for the runs kept or waited for by shutdown
  closed,    \* the flag set by shutdown
  shutdown,  \* "no", "begun", "joining" (the map was taken), "aborting" (the
             \* task it waits for was aborted) or "done"
  inputs     \* number of runs started and events sent so far

vars == <<runs, closed, shutdown, inputs>>
-----------------------------------------------------------------------------
\* A token of one unit, a final answer of one or two, the other three endings
\* and an event that changes nothing the model keeps.
Events == [kind : {"token"}, size : {1}] \cup [kind : {"done"}, size : {1, 2}]
          \cup [kind : {"error", "budget", "other"}, size : {0}]

\* Event kinds after which the provider lets the stream end; a budget stop is
\* not one of them, though it ends the run.
Final == {"done", "error"}
Ending == Final \cup {"budget"}

\* Auxiliary: first, the first ending the stream sent.
NewRun(thread, order) ==
  [thread |-> thread, order |-> order, running |-> TRUE, cancel |-> FALSE,
   size |-> 0, answered |-> FALSE, error |-> "none",
   channel |-> <<>>, final |-> FALSE, first |-> "none"]

\* (mutant) a qualified and a plain name of a thread are different threads
SameThreadExactly(a, b) == a = b

\* same_thread: equal, or one is the last part of the other's qualified name.
SameThread(a, b) ==
  \/ a = b
  \/ Len(a) = 1 /\ Len(b) > 1 /\ Last(b) = a[1]
  \/ Len(b) = 1 /\ Len(a) > 1 /\ Last(a) = b[1]

Running == {id \in DOMAIN runs : runs[id].running}
-----------------------------------------------------------------------------
\* What a run would retain after an event.
Retained(run, event) ==
  CASE event.kind = "token" -> run.size + event.size
    [] event.kind = "done" -> event.size
    [] OTHER -> run.size

\* apply_event returns TRUE for an event that ends the run.
Terminal(run, event) ==
  Retained(run, event) > MaxOutput \/ event.kind \in Ending

\* apply_event's effect on the snapshot.
Applied(run, event) ==
  IF Retained(run, event) > MaxOutput THEN [run EXCEPT !.error = "limit"]
  ELSE CASE event.kind = "token" -> [run EXCEPT !.size = @ + event.size]
         [] event.kind = "done" -> [run EXCEPT !.size = event.size, !.answered = TRUE]
         [] event.kind \in {"error", "budget"} -> [run EXCEPT !.error = "failed"]
         [] event.kind = "other" -> run

\* The task ends and its stream is dropped with it.
Ended(run) ==
  [run EXCEPT !.running = FALSE, !.channel = <<>>, !.final = FALSE]

\* (mutant) the events still in the channel are dropped
DrainedNothing(run) == [over |-> FALSE, run |-> run]

\* The run after the events left in the channel, up to the first ending.
Drained(run) ==
  FoldLeft(LAMBDA acc, event :
    IF acc.over THEN acc
    ELSE [over |-> Terminal(acc.run, event), run |-> Applied(acc.run, event)],
    [over |-> FALSE, run |-> run], run.channel)

-----------------------------------------------------------------------------
\* The list is sorted by order: one more than the highest order kept.
NextOrder(kept) == 1 + Max({0} \cup {kept[id].order : id \in DOMAIN kept})

\* (mutant) room is made by dropping the first run, running or not
KeptAnyRun ==
  LET first == CHOOSE id \in DOMAIN runs : \A other \in DOMAIN runs : id <= other
  IN IF Cardinality(DOMAIN runs) < MaxJobs THEN runs
     ELSE [id \in DOMAIN runs \ {first} |-> runs[id]]

\* At the limit, room is made by dropping the first run that has ended.
Kept ==
  LET ended == DOMAIN runs \ Running
      first == CHOOSE id \in ended : \A other \in ended : id <= other
  IN IF Cardinality(DOMAIN runs) < MaxJobs \/ ended = {} THEN runs
     ELSE [id \in DOMAIN runs \ {first} |-> runs[id]]

\* (mutant) a start does not look whether the engine shuts down
StartUnchecked(id, thread) ==
  /\ inputs < MaxInputs
  /\ inputs' = inputs + 1
  /\ id \notin DOMAIN runs
  /\ \A other \in Running : ~SameThread(runs[other].thread, thread)
  /\ Cardinality(Running) < MaxRunning
  /\ runs' = [i \in DOMAIN Kept \cup {id} |->
               IF i = id THEN NewRun(thread, NextOrder(Kept)) ELSE Kept[i]]
  /\ UNCHANGED <<closed, shutdown>>

\* ResearchAction::Start, under the lock of the map.
Start(id, thread) ==
  /\ inputs < MaxInputs
  /\ inputs' = inputs + 1
  /\ ~closed
  /\ id \notin DOMAIN runs
  /\ \A other \in Running : ~SameThread(runs[other].thread, thread)
  /\ Cardinality(Running) < MaxRunning
  /\ runs' = [i \in DOMAIN Kept \cup {id} |->
               IF i = id THEN NewRun(thread, NextOrder(Kept)) ELSE Kept[i]]
  /\ UNCHANGED <<closed, shutdown>>

\* ResearchAction::Cancel; nobody hears that of a run that has ended.
Cancel(id) ==
  /\ ~closed
  /\ id \in Running /\ ~runs[id].cancel
  /\ runs' = [runs EXCEPT ![id].cancel = TRUE]
  /\ UNCHANGED <<closed, shutdown, inputs>>

-----------------------------------------------------------------------------
\* The server's stream sends an event when the channel has room; the future
\* that reads it lives in the task, so it stops when the task ends.
Emit(id, event) ==
  LET run == runs[id]
  IN /\ run.running /\ inputs < MaxInputs /\ Len(run.channel) < Channel
     /\ runs' = [runs EXCEPT ![id] =
          [run EXCEPT !.channel = Append(@, event),
                      !.final = @ \/ event.kind \in Final,
                      !.first = IF @ = "none" /\ event.kind \in Ending
                                THEN event.kind ELSE @]]
     /\ inputs' = inputs + 1
     /\ UNCHANGED <<closed, shutdown>>

\* select: the next event of the channel.
Receive(id) ==
  LET run == runs[id]
      event == Head(run.channel)
      after == [Applied(run, event) EXCEPT !.channel = Tail(@)]
  IN /\ run.running /\ run.channel # <<>>
     /\ runs' = [runs EXCEPT ![id] =
                  IF Terminal(run, event) THEN Ended(after) ELSE after]
     /\ UNCHANGED <<closed, shutdown, inputs>>

\* select: the stream has ended, in order only after a final event, with an
\* error at any time.
FinishStream(id, failed) ==
  LET run == runs[id]
      drained == Drained(run)
  IN /\ run.running
     /\ failed \/ run.final
     /\ runs' = [runs EXCEPT ![id] = Ended(
          [run EXCEPT !.size = drained.run.size,
                      !.answered = drained.run.answered,
                      !.error = IF failed /\ ~drained.over THEN "failed"
                                ELSE drained.run.error])]
     /\ UNCHANGED <<closed, shutdown, inputs>>

\* (mutant) a cancellation only takes effect at the next event
CanceledAtEvent(id) ==
  /\ runs[id].running /\ runs[id].cancel /\ runs[id].channel # <<>>
  /\ runs' = [runs EXCEPT ![id] = Ended([@ EXCEPT !.error = "failed"])]
  /\ UNCHANGED <<closed, shutdown, inputs>>

\* select: a cancellation.
Canceled(id) ==
  /\ runs[id].running /\ runs[id].cancel
  /\ runs' = [runs EXCEPT ![id] = Ended([@ EXCEPT !.error = "failed"])]
  /\ UNCHANGED <<closed, shutdown, inputs>>

-----------------------------------------------------------------------------
BeginShutdown ==
  /\ shutdown = "no"
  /\ closed' = TRUE /\ shutdown' = "begun"
  /\ UNCHANGED <<runs, inputs>>

\* The map is taken under its lock and every run told to cancel.
TakeRuns ==
  /\ shutdown = "begun"
  /\ shutdown' = "joining"
  /\ runs' = [id \in DOMAIN runs |-> [runs[id] EXCEPT !.cancel = @ \/ runs[id].running]]
  /\ UNCHANGED <<closed, inputs>>

\* The runs taken are joined in the order of their ids.
JoinsNext(id) == \A other \in DOMAIN runs : id <= other

\* The task has not ended within 250 ms and is aborted.
TimesOut(id) ==
  /\ shutdown = "joining" /\ JoinsNext(id)
  /\ runs[id].running
  /\ shutdown' = "aborting"
  /\ UNCHANGED <<runs, closed, inputs>>

\* The runtime drops an aborted task the next time it awaits.
Aborted(id) ==
  /\ shutdown = "aborting" /\ JoinsNext(id)
  /\ runs[id].running
  /\ runs' = [runs EXCEPT ![id] = Ended(@)]
  /\ UNCHANGED <<closed, shutdown, inputs>>

\* The wait for a task returns when the task has ended, aborted or not.
Join(id) ==
  /\ shutdown \in {"joining", "aborting"} /\ JoinsNext(id)
  /\ ~runs[id].running
  /\ runs' = [other \in DOMAIN runs \ {id} |-> runs[other]]
  /\ shutdown' = "joining"
  /\ UNCHANGED <<closed, inputs>>

FinishShutdown ==
  /\ shutdown = "joining" /\ DOMAIN runs = {}
  /\ shutdown' = "done"
  /\ UNCHANGED <<runs, closed, inputs>>

-----------------------------------------------------------------------------
Init ==
  /\ runs = [id \in {} |-> NewRun(<<>>, 0)]
  /\ closed = FALSE /\ shutdown = "no" /\ inputs = 0

Next ==
  \/ \E id \in Ids, thread \in Threads : Start(id, thread)
  \/ \E id \in DOMAIN runs :
       \/ Cancel(id) \/ Receive(id) \/ Canceled(id)
       \/ TimesOut(id) \/ Aborted(id) \/ Join(id)
       \/ \E event \in Events : Emit(id, event)
       \/ \E failed \in BOOLEAN : FinishStream(id, failed)
  \/ BeginShutdown \/ TakeRuns \/ FinishShutdown

Spec == Init /\ [][Next]_vars

OfRun(Step(_), id) == id \in DOMAIN runs /\ Step(id)

\* Shutdown is scheduled, its 250 ms limits expire, and an aborted task is
\* dropped at its next await.  Nothing else is assumed of the server or the
\* tasks: a stream may hang and a task may never look at its cancellation.
FairSpec ==
  /\ Spec
  /\ \A id \in Ids : /\ WF_vars(OfRun(TimesOut, id))
                     /\ WF_vars(OfRun(Aborted, id))
                     /\ WF_vars(OfRun(Join, id))
  /\ WF_vars(TakeRuns) /\ WF_vars(FinishShutdown)

\* The runtime polls the task of a run whose cancellation is ready, and the
\* select picks it at last.
TasksPolled == \A id \in Ids : WF_vars(OfRun(Canceled, id))

-----------------------------------------------------------------------------
\* A conversation never has two runs at a time, under whichever of its two
\* names, plain or qualified by its owner, each was started.
OneRunPerThread ==
  \A a, b \in Running : LET ta == runs[a].thread
                            tb == runs[b].thread IN
    a # b => /\ ta # tb
             /\ Last(ta) = Last(tb) => Len(ta) > 1 /\ Len(tb) > 1

\* If the first ending the server sent is an answer, the run ends with it,
\* even when the stream broke off right behind it; only a cancellation or the
\* output limit may take its place.
AnswerNotLost ==
  \A id \in DOMAIN runs : LET run == runs[id] IN
    (~run.running /\ run.first = "done" /\ ~run.cancel)
      => run.answered \/ run.error = "limit"

\* A run leaves the table only when its task has ended, whether the table was
\* full or the engine shuts down; and a new run is the last of the list, however
\* many runs before it were dropped.
RunningKeptInOrder ==
  [][/\ Running \subseteq DOMAIN runs'
     /\ \A new \in DOMAIN runs' \ DOMAIN runs :
          \A old \in DOMAIN runs' \cap DOMAIN runs :
            runs'[new].order > runs[old].order]_vars

\* A canceled run whose task is polled ends, even if its stream hangs.
CancelEnds ==
  TasksPolled =>
    \A id \in Ids : (id \in Running /\ runs[id].cancel) ~> id \notin Running

\* Shutdown ends though every stream hangs and no task looks at its
\* cancellation, and leaves nothing behind: no run is started once the table was
\* taken.
ShutdownEnds == shutdown = "begun" ~> [](shutdown = "done" /\ DOMAIN runs = {})

=============================================================================
