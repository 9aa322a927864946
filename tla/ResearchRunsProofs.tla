-------------------------- MODULE ResearchRunsProofs --------------------------
(* The table of runs, for every set of ids and threads and every limit, and  *)
(* what the events left in a run's channel add up to: a fold over the        *)
(* channel, unfolded event by event (DrainedSteps).                          *)
EXTENDS ResearchRuns, WellFoundedInduction, TLAPS

Fields == {"thread", "order", "running", "cancel", "size", "answered",
           "error", "channel", "final", "first"}

IsRun(run) ==
  /\ DOMAIN run = Fields /\ run.thread \in Threads /\ run.order \in Nat
  /\ run.running \in BOOLEAN /\ run.cancel \in BOOLEAN
  /\ run.channel \in Seq(Events)

TableOK ==
  /\ DOMAIN runs \subseteq Ids
  /\ runs = [id \in DOMAIN runs |-> runs[id]]
  /\ \A id \in DOMAIN runs : IsRun(runs[id])

\* The guard of Start, kept by every later step.
ThreadsApart ==
  \A a, b \in Running : a # b => ~SameThread(runs[a].thread, runs[b].thread)

\* The orders have a greatest one.
OrdersOK == \E limit \in Nat : \A id \in DOMAIN runs : runs[id].order <= limit

\* Nothing starts once shutdown has begun, and the tasks it joins were told.
ShutdownOK ==
  /\ shutdown # "no" => closed
  /\ shutdown \in {"joining", "aborting"} => \A id \in Running : runs[id].cancel

RunsInv == TableOK /\ ThreadsApart /\ OrdersOK /\ ShutdownOK

\* A set of numbers has a least one.
LEMMA Least ==
  ASSUME NEW S, S \subseteq Nat, S # {}
  PROVE  \E m \in S : \A k \in S : m <= k
<1> DEFINE R == OpToRel(<, Nat)
<1>1. IsWellFoundedOn(R, Nat)
  BY NatLessThanWellFounded
<1>2. PICK m \in S : \A k \in S : <<k, m>> \notin R
  <2> HIDE DEF R
  <2> QED
    BY <1>1, WFMin
<1>3. \A k \in S : ~(k < m)
  BY <1>2 DEF OpToRel
<1> QED
  BY <1>3

\* The names of a conversation: a plain one is the last part of a qualified.
LEMMA ApartMeansApart ==
  ASSUME NEW s \in Threads, NEW t \in Threads, ~SameThread(s, t)
  PROVE  /\ s # t
         /\ Last(s) = Last(t) => Len(s) > 1 /\ Len(t) > 1
<1>1. /\ s \in Seq(ToSet(s)) /\ t \in Seq(ToSet(t)) /\ s # <<>> /\ t # <<>>
  BY RunsAssumption
<1>2. Len(s) \in Nat \ {0} /\ Len(t) \in Nat \ {0}
  BY <1>1
<1>3. s # t
  BY DEF SameThread
<1>4. CASE Len(s) = 1 /\ Len(t) = 1 /\ Last(s) = Last(t)
  <2>1. s[1] = t[1]
    BY <1>4 DEF Last
  <2>2. s = [i \in 1..1 |-> s[i]] /\ t = [i \in 1..1 |-> t[i]]
    BY <1>1, <1>4
  <2>3. s = t
    BY <2>1, <2>2
  <2> QED
    BY <1>3, <2>3
<1>5. CASE Len(s) = 1 /\ Len(t) > 1
  BY <1>5 DEF SameThread, Last
<1>6. CASE Len(t) = 1 /\ Len(s) > 1
  BY <1>6 DEF SameThread, Last
<1>7. CASE Len(s) > 1 /\ Len(t) > 1
  BY <1>3, <1>7
<1>8. CASE Last(s) # Last(t)
  BY <1>3, <1>8
<1>9. \A n \in Nat \ {0} : n = 1 \/ n > 1
  OBVIOUS
<1> QED
  BY <1>2, <1>4, <1>5, <1>6, <1>7, <1>8, <1>9

LEMMA RunsInvHolds == RunsInv => OneRunPerThread
BY ApartMeansApart DEF RunsInv, TableOK, IsRun, ThreadsApart, Running, OneRunPerThread

LEMMA RunsInvInit == Init => RunsInv
<1>1. Init => TableOK /\ ThreadsApart /\ ShutdownOK
  BY DEF Init, TableOK, ThreadsApart, ShutdownOK, Running
<1>2. Init => OrdersOK
  <2>1. 0 \in Nat
    OBVIOUS
  <2> QED
    BY <2>1 DEF Init, OrdersOK
<1> QED
  BY <1>1, <1>2 DEF RunsInv

\* A step of one run that keeps its thread and place and starts nothing.
Moves(before, after) ==
  /\ IsRun(after) /\ after.thread = before.thread /\ after.order = before.order
  /\ after.running => before.running /\ (before.cancel => after.cancel)

LEMMA RunMoves ==
  ASSUME RunsInv, NEW id \in DOMAIN runs, NEW run, Moves(runs[id], run),
         runs' = [runs EXCEPT ![id] = run],
         shutdown' = shutdown, closed' = closed
  PROVE  RunsInv' /\ DOMAIN runs' = DOMAIN runs
<1>1. /\ DOMAIN runs' = DOMAIN runs
      /\ \A d \in DOMAIN runs : runs'[d] = IF d = id THEN run ELSE runs[d]
  OBVIOUS
<1>2. TableOK'
  <2>1. runs' = [d \in DOMAIN runs' |-> runs'[d]]
    OBVIOUS
  <2> QED
    BY <1>1, <2>1 DEF RunsInv, TableOK, IsRun, Moves
<1>3. ThreadsApart'
  <2>1. /\ Running' \subseteq Running
        /\ \A d \in Running' : runs'[d].thread = runs[d].thread
    BY <1>1 DEF Running, Moves
  <2> QED
    BY <2>1 DEF RunsInv, ThreadsApart, SameThread
<1>4. OrdersOK'
  <2>1. \A d \in DOMAIN runs' : runs'[d].order = runs[d].order
    BY <1>1 DEF Moves
  <2> QED
    BY <1>1, <2>1 DEF RunsInv, OrdersOK
<1>5. ShutdownOK'
  <2>1. \A d \in Running' : d \in Running /\ (runs[d].cancel => runs'[d].cancel)
    BY <1>1 DEF Running, Moves
  <2> QED
    BY <2>1 DEF RunsInv, ShutdownOK
<1> QED
  BY <1>1, <1>2, <1>3, <1>4, <1>5 DEF RunsInv

\* Fewer runs, each as it was, while shutdown joins them.
LEMMA RunsLeave ==
  ASSUME RunsInv, NEW S, S \subseteq DOMAIN runs, runs' = [id \in S |-> runs[id]],
         shutdown \in {"joining", "aborting"}, shutdown' = "joining", closed' = closed
  PROVE  RunsInv'
<1>1. DOMAIN runs' = S /\ \A id \in S : runs'[id] = runs[id]
  OBVIOUS
<1>2. TableOK'
  <2>1. runs' = [d \in DOMAIN runs' |-> runs'[d]]
    OBVIOUS
  <2> QED
    BY <1>1, <2>1 DEF RunsInv, TableOK, IsRun
<1>3. ThreadsApart'
  BY <1>1 DEF RunsInv, ThreadsApart, Running, SameThread
<1>4. OrdersOK'
  BY <1>1 DEF RunsInv, OrdersOK
<1>5. ShutdownOK'
  BY <1>1 DEF RunsInv, ShutdownOK, Running
<1> QED
  BY <1>2, <1>3, <1>4, <1>5 DEF RunsInv

LEMMA AppliedKeeps ==
  ASSUME NEW run, IsRun(run), NEW event \in Events
  PROVE  /\ IsRun(Applied(run, event))
         /\ Applied(run, event).thread = run.thread
         /\ Applied(run, event).order = run.order
         /\ Applied(run, event).cancel = run.cancel
         /\ Applied(run, event).running = run.running
         /\ Applied(run, event).channel = run.channel
BY DEF Applied, IsRun, Fields, Events, Retained

LEMMA EndedKeeps ==
  ASSUME NEW run, IsRun(run)
  PROVE  /\ IsRun(Ended(run)) /\ Ended(run).thread = run.thread
         /\ Ended(run).order = run.order /\ ~Ended(run).running
BY DEF Ended, IsRun, Fields

\* Only an ended run makes room.
LEMMA KeptRuns ==
  ASSUME RunsInv
  PROVE  \E S \in SUBSET DOMAIN runs :
            Running \subseteq S /\ Kept = [id \in S |-> runs[id]]
<1> DEFINE ended == DOMAIN runs \ Running
           first == CHOOSE id \in ended : \A other \in ended : id <= other
<1>1. CASE Cardinality(DOMAIN runs) < MaxJobs \/ ended = {}
  <2>1. Kept = [id \in DOMAIN runs |-> runs[id]]
    BY <1>1 DEF Kept, RunsInv, TableOK
  <2>2. Running \subseteq DOMAIN runs
    BY DEF Running
  <2> QED
    BY <2>1, <2>2
<1>2. CASE ~(Cardinality(DOMAIN runs) < MaxJobs \/ ended = {})
  <2>1. \E id \in ended : \A other \in ended : id <= other
    BY <1>2, Least, RunsAssumption DEF RunsInv, TableOK
  <2>2. first \in ended
    BY <2>1
  <2>3. Kept = [id \in DOMAIN runs \ {first} |-> runs[id]]
    BY <1>2 DEF Kept
  <2>4. Running \subseteq DOMAIN runs \ {first}
    BY <2>2 DEF Running
  <2> QED
    BY <2>3, <2>4
<1> QED
  BY <1>1, <1>2

\* The number in a set of numbers that is at least every other is its maximum.
LEMMA MaxOfSet ==
  ASSUME NEW S, S \subseteq Nat, NEW m \in S, \A x \in S : m >= x
  PROVE  Max(S) = m
<1>1. \A x \in S : (\A y \in S : x >= y) => x = m
  OBVIOUS
<1> QED
  BY <1>1 DEF Max

\* The next order is beyond that of every run kept.
LEMMA NextOrderIsLast ==
  ASSUME RunsInv, NEW S \in SUBSET DOMAIN runs
  PROVE  LET next == NextOrder([id \in S |-> runs[id]])
         IN  next \in Nat /\ \A id \in S : next > runs[id].order
<1> DEFINE kept == [id \in S |-> runs[id]]
           orders == {0} \cup {kept[id].order : id \in DOMAIN kept}
           bounds == {u \in Nat : \A x \in orders : x <= u}
<1>1. \A id \in S : runs[id].order \in Nat
  BY DEF RunsInv, TableOK, IsRun
<1>2. orders = {0} \cup {runs[id].order : id \in S}
  OBVIOUS
<1>3. orders \subseteq Nat /\ 0 \in orders /\ \A id \in S : runs[id].order \in orders
  BY <1>1, <1>2
<1>4. PICK limit \in Nat : \A id \in DOMAIN runs : runs[id].order <= limit
  BY DEF RunsInv, OrdersOK
<1>5. limit \in bounds
  BY <1>2, <1>4
<1> HIDE DEF orders
<1>6. PICK m \in bounds : \A u \in bounds : m <= u
  <2>1. bounds \subseteq Nat /\ bounds # {}
    BY <1>5
  <2> HIDE DEF bounds
  <2> QED
    BY <2>1, Least
<1>7. m \in Nat /\ \A x \in orders : x <= m
  BY <1>6
<1>8. m \in orders
  <2> SUFFICES ASSUME m \notin orders PROVE FALSE
    OBVIOUS
  <2>1. m - 1 \in Nat /\ ~(m <= m - 1)
    BY <1>3, <1>7
  <2>2. \A x \in orders : x <= m - 1
    BY <1>3, <1>7, <2>1
  <2>3. m - 1 \in bounds
    BY <2>1, <2>2
  <2> QED
    BY <1>6, <2>1, <2>3
<1>9. Max(orders) = m
  BY <1>3, <1>7, <1>8, MaxOfSet
<1>10. NextOrder(kept) = 1 + m
  BY <1>9 DEF NextOrder, orders
<1> QED
  BY <1>1, <1>3, <1>7, <1>10

\* What a step keeps of the table: RunningKeptInOrder's two parts.
KeepsOrder ==
  /\ Running \subseteq DOMAIN runs'
  /\ \A new \in DOMAIN runs' \ DOMAIN runs :
       \A old \in DOMAIN runs' \cap DOMAIN runs :
         runs'[new].order > runs[old].order

LEMMA StartKeeps ==
  ASSUME RunsInv, NEW id \in Ids, NEW thread \in Threads, Start(id, thread)
  PROVE  RunsInv' /\ KeepsOrder
<1>1. PICK S \in SUBSET DOMAIN runs :
         Running \subseteq S /\ Kept = [i \in S |-> runs[i]]
  BY KeptRuns
<1> DEFINE order == NextOrder(Kept)
           new == NewRun(thread, order)
<1>0. order \in Nat /\ \A i \in S : order > runs[i].order
  BY <1>1, NextOrderIsLast
<1>2. /\ runs' = [i \in S \cup {id} |-> IF i = id THEN new ELSE runs[i]]
      /\ id \notin DOMAIN runs /\ ~closed /\ closed' = closed /\ shutdown' = shutdown
      /\ \A other \in Running : ~SameThread(runs[other].thread, thread)
  BY <1>1 DEF Start
<1> HIDE DEF order
<1>3. IsRun(new) /\ new.thread = thread /\ new.order = order
  BY <1>0 DEF NewRun, IsRun, Fields
<1> HIDE DEF new
<1>4. /\ DOMAIN runs' = S \cup {id} /\ runs'[id] = new
      /\ \A i \in S : runs'[i] = runs[i]
  BY <1>2
<1>5. TableOK'
  <2>1. runs' = [i \in DOMAIN runs' |-> runs'[i]]
    BY <1>2
  <2> QED
    BY <1>3, <1>4, <2>1 DEF RunsInv, TableOK, IsRun
<1>6. ThreadsApart'
  <2> SUFFICES ASSUME NEW a \in Running', NEW b \in Running', a # b
               PROVE  ~SameThread(runs'[a].thread, runs'[b].thread)
    BY DEF ThreadsApart, SameThread
  <2>1. \A i \in Running' : i # id => i \in Running /\ runs'[i] = runs[i]
    BY <1>4 DEF Running
  <2>2. CASE a # id /\ b # id
    BY <2>1, <2>2 DEF RunsInv, ThreadsApart
  <2>3. CASE a = id
    <3>1. b \in Running /\ runs'[b] = runs[b] /\ runs'[a].thread = thread
      BY <1>3, <1>4, <2>1, <2>3
    <3> QED
      BY <1>2, <3>1 DEF SameThread
  <2>4. CASE b = id
    <3>1. a \in Running /\ runs'[a] = runs[a] /\ runs'[b].thread = thread
      BY <1>3, <1>4, <2>1, <2>4
    <3> QED
      BY <1>2, <3>1 DEF SameThread
  <2> QED
    BY <2>2, <2>3, <2>4
<1>7. KeepsOrder
  <2>1. \A d \in DOMAIN runs' \ DOMAIN runs : runs'[d] = new
    BY <1>4
  <2>2. DOMAIN runs' \cap DOMAIN runs \subseteq S
    BY <1>2, <1>4
  <2> QED
    BY <1>0, <1>1, <1>3, <1>4, <2>1, <2>2 DEF KeepsOrder
<1>8. OrdersOK'
  <2>1. \A d \in DOMAIN runs' : runs'[d].order <= order
    <3>1. \A i \in S : runs[i].order \in Nat
      BY DEF RunsInv, TableOK, IsRun
    <3> QED
      BY <1>0, <1>3, <1>4, <3>1
  <2> QED
    BY <1>0, <2>1 DEF OrdersOK
<1>9. ShutdownOK'
  BY <1>2 DEF RunsInv, ShutdownOK
<1> QED
  BY <1>5, <1>6, <1>7, <1>8, <1>9 DEF RunsInv

\* The steps of one run while its task lives, its cancellation and its abort.
LEMMA TaskKeeps ==
  ASSUME RunsInv, NEW id \in DOMAIN runs,
         \/ Cancel(id) \/ Receive(id) \/ Canceled(id) \/ Aborted(id)
         \/ \E event \in Events : Emit(id, event)
         \/ \E failed \in BOOLEAN : FinishStream(id, failed)
  PROVE  RunsInv' /\ DOMAIN runs' = DOMAIN runs
<1>1. IsRun(runs[id])
  BY DEF RunsInv, TableOK
<1> DEFINE r == runs[id]
<1>u. shutdown' = shutdown /\ closed' = closed
  BY DEF Cancel, Receive, Canceled, Aborted, Emit, FinishStream
<1>2. ASSUME NEW run, Moves(r, run), runs' = [runs EXCEPT ![id] = run]
      PROVE  RunsInv' /\ DOMAIN runs' = DOMAIN runs
  BY <1>u, <1>2, RunMoves
<1>3. ASSUME NEW run, IsRun(run), run.thread = r.thread, run.order = r.order,
             runs' = [runs EXCEPT ![id] = Ended(run)]
      PROVE  RunsInv' /\ DOMAIN runs' = DOMAIN runs
  <2>1. Moves(r, Ended(run))
    BY <1>3, EndedKeeps DEF Moves
  <2> QED
    BY <1>2, <1>3, <2>1
<1>4. CASE Cancel(id)
  <2> DEFINE run == [r EXCEPT !.cancel = TRUE]
  <2>1. Moves(r, run)
    BY <1>1 DEF IsRun, Fields, Moves
  <2>2. runs' = [runs EXCEPT ![id] = run]
    BY <1>4 DEF Cancel
  <2> QED
    BY <1>2, <2>1, <2>2
<1>5. CASE \E event \in Events : Emit(id, event)
  <2>1. PICK event \in Events : Emit(id, event)
    BY <1>5
  <2> DEFINE run == [r EXCEPT !.channel = Append(@, event),
                              !.final = @ \/ event.kind \in Final,
                              !.first = IF @ = "none" /\ event.kind \in Ending
                                        THEN event.kind ELSE @]
  <2>2. Moves(r, run)
    <3>1. Append(r.channel, event) \in Seq(Events)
      BY <1>1, <2>1 DEF IsRun
    <3> QED
      BY <1>1, <3>1 DEF IsRun, Fields, Moves
  <2>3. runs' = [runs EXCEPT ![id] = run]
    BY <2>1 DEF Emit
  <2> HIDE DEF run
  <2> QED
    BY <1>2, <2>2, <2>3
<1>6. CASE Canceled(id)
  <2> DEFINE run == [r EXCEPT !.error = "failed"]
  <2>1. IsRun(run) /\ run.thread = r.thread /\ run.order = r.order
    BY <1>1 DEF IsRun, Fields
  <2>2. runs' = [runs EXCEPT ![id] = Ended(run)]
    BY <1>6 DEF Canceled
  <2> HIDE DEF run
  <2> QED
    BY <1>3, <2>1, <2>2
<1>9. CASE Aborted(id)
  BY <1>1, <1>3, <1>9 DEF Aborted
<1>7. CASE \E failed \in BOOLEAN : FinishStream(id, failed)
  <2>1. PICK failed \in BOOLEAN : FinishStream(id, failed)
    BY <1>7
  <2> DEFINE drained == Drained(r)
             run == [r EXCEPT !.size = drained.run.size,
                              !.answered = drained.run.answered,
                              !.error = IF failed /\ ~drained.over THEN "failed"
                                        ELSE drained.run.error]
  <2>2. runs' = [runs EXCEPT ![id] = Ended(run)]
    BY <2>1 DEF FinishStream
  <2> HIDE DEF drained
  <2>3. IsRun(run) /\ run.thread = r.thread /\ run.order = r.order
    BY <1>1 DEF IsRun, Fields
  <2> HIDE DEF run
  <2> QED
    BY <1>3, <2>2, <2>3
<1>8. CASE Receive(id)
  <2> DEFINE event == Head(r.channel)
             after == [Applied(r, event) EXCEPT !.channel = Tail(@)]
  <2>1. r.channel \in Seq(Events) /\ r.channel # <<>>
    BY <1>1, <1>8 DEF IsRun, Receive
  <2>2. event \in Events
    BY <2>1
  <2>3. /\ IsRun(Applied(r, event)) /\ Applied(r, event).thread = r.thread
        /\ Applied(r, event).order = r.order /\ Applied(r, event).cancel = r.cancel
        /\ Applied(r, event).running = r.running
        /\ Applied(r, event).channel = r.channel
    <3> HIDE DEF event
    <3> QED
      BY <1>1, <2>2, AppliedKeeps
  <2>4. Moves(r, after)
    <3> DEFINE applied == Applied(r, event)
    <3>1. Tail(r.channel) \in Seq(Events)
      BY <2>1
    <3> HIDE DEF applied
    <3> QED
      BY <2>3, <3>1 DEF IsRun, Fields, Moves, applied
  <2>5. runs' = [runs EXCEPT ![id] = IF Terminal(r, event) THEN Ended(after) ELSE after]
    BY <1>8 DEF Receive
  <2> HIDE DEF after, event
  <2> QED
    BY <1>2, <1>3, <2>4, <2>5 DEF Moves
<1> QED
  BY <1>4, <1>5, <1>6, <1>7, <1>8, <1>9

LEMMA NextKeeps == RunsInv /\ [Next]_vars => RunsInv' /\ KeepsOrder
<1> SUFFICES ASSUME RunsInv, [Next]_vars PROVE RunsInv' /\ KeepsOrder
  OBVIOUS
<1>1. Running \subseteq DOMAIN runs
  BY DEF Running
<1>2. CASE \E id \in Ids, thread \in Threads : Start(id, thread)
  BY <1>2, StartKeeps
<1>3. CASE \E id \in DOMAIN runs :
             \/ Cancel(id) \/ Receive(id) \/ Canceled(id) \/ Aborted(id)
             \/ \E event \in Events : Emit(id, event)
             \/ \E failed \in BOOLEAN : FinishStream(id, failed)
  BY <1>1, <1>3, TaskKeeps DEF KeepsOrder
<1>4. CASE \E id \in DOMAIN runs : Join(id)
  <2>1. PICK id \in DOMAIN runs : Join(id)
    BY <1>4
  <2>2. RunsInv'
    BY <2>1, RunsLeave DEF Join
  <2>3. KeepsOrder
    BY <2>1 DEF Join, KeepsOrder, Running
  <2> QED
    BY <2>2, <2>3
<1>5. CASE TakeRuns
  <2> DEFINE told(d) == [runs[d] EXCEPT !.cancel = @ \/ runs[d].running]
  <2>1. DOMAIN runs' = DOMAIN runs /\ \A d \in DOMAIN runs : runs'[d] = told(d)
    BY <1>5 DEF TakeRuns
  <2>2. runs' = [d \in DOMAIN runs' |-> runs'[d]]
    BY <1>5 DEF TakeRuns
  <2>3. ASSUME NEW d \in DOMAIN runs
        PROVE  /\ IsRun(told(d)) /\ told(d).thread = runs[d].thread
               /\ told(d).running = runs[d].running /\ told(d).order = runs[d].order
               /\ told(d).running => told(d).cancel
    <3>1. IsRun(runs[d])
      BY DEF RunsInv, TableOK
    <3> QED
      BY <3>1 DEF IsRun, Fields
  <2> HIDE DEF told
  <2>4. TableOK'
    BY <2>1, <2>2, <2>3 DEF RunsInv, TableOK, IsRun
  <2>5. ThreadsApart'
    BY <2>1, <2>3 DEF RunsInv, ThreadsApart, Running, SameThread
  <2>6. OrdersOK'
    BY <2>1, <2>3 DEF RunsInv, OrdersOK
  <2>7. ShutdownOK'
    BY <1>5, <2>1, <2>3 DEF RunsInv, ShutdownOK, Running, TakeRuns
  <2> QED
    BY <1>1, <2>1, <2>4, <2>5, <2>6, <2>7 DEF RunsInv, KeepsOrder
<1>6. CASE \/ BeginShutdown \/ FinishShutdown \/ UNCHANGED vars
           \/ \E id \in DOMAIN runs : TimesOut(id)
  <2>1. runs' = runs
    BY <1>6 DEF BeginShutdown, FinishShutdown, TimesOut, vars
  <2>2. ShutdownOK'
    BY <1>6, <2>1 DEF BeginShutdown, FinishShutdown, TimesOut, vars, RunsInv, ShutdownOK, Running
  <2> QED
    BY <1>1, <2>1, <2>2
    DEF RunsInv, TableOK, ThreadsApart, OrdersOK, Running, IsRun, SameThread, KeepsOrder
<1> QED
  BY <1>2, <1>3, <1>4, <1>5, <1>6 DEF Next

\* One event of what FinishStream drains.
Drain(acc, event) ==
  IF acc.over THEN acc
  ELSE [over |-> Terminal(acc.run, event), run |-> Applied(acc.run, event)]

Undrained(run) == [over |-> FALSE, run |-> run]

\* The equation of the fold, restricted to the first n events.
DrainedUpTo(run, n, h) ==
  h = [s \in SUBSET (1..n) |->
         IF s = {} THEN Undrained(run)
         ELSE Drain(h[s \ {Max(s)}], run.channel[Max(s)])]

LEMMA DrainedGrows ==
  ASSUME NEW run, NEW n \in Nat, NEW h, DrainedUpTo(run, n, h)
  PROVE  \E g : DrainedUpTo(run, n + 1, g)
<1> DEFINE g == [s \in SUBSET (1..(n + 1)) |->
                   IF n + 1 \notin s THEN h[s]
                   ELSE Drain(h[s \ {n + 1}], run.channel[n + 1])]
           F(s) == IF s = {} THEN Undrained(run)
                   ELSE Drain(g[s \ {Max(s)}], run.channel[Max(s)])
<1>1. \A s \in SUBSET (1..n) : h[s] = IF s = {} THEN Undrained(run)
                                      ELSE Drain(h[s \ {Max(s)}], run.channel[Max(s)])
  BY DEF DrainedUpTo
<1>2. \A s \in SUBSET (1..n) : s \in SUBSET (1..(n + 1)) /\ n + 1 \notin s
  OBVIOUS
<1>3. \A s \in SUBSET (1..n) : g[s] = h[s]
  BY <1>2
<1>n. \A x \in 1..(n + 1) : n + 1 >= x /\ (x = n + 1 \/ x \in 1..n)
  OBVIOUS
<1>4. ASSUME NEW s \in SUBSET (1..(n + 1))
      PROVE  g[s] = F(s)
  <2>1. CASE n + 1 \notin s
    <3>1. s \in SUBSET (1..n) /\ s \ {Max(s)} \in SUBSET (1..n)
      BY Zenon, <1>n, <2>1
    <3>2. g[s] = h[s] /\ g[s \ {Max(s)}] = h[s \ {Max(s)}]
      BY <1>3, <3>1
    <3> HIDE DEF g
    <3> QED
      BY <1>1, <3>1, <3>2
  <2>2. CASE n + 1 \in s
    <3>1. Max(s) = n + 1
      <4>1. s \subseteq Nat /\ \A x \in s : n + 1 >= x
        BY <1>n
      <4> QED
        BY <2>2, <4>1, MaxOfSet
    <3>2. s \ {n + 1} \in SUBSET (1..n)
      BY Zenon, <1>n
    <3>3. g[s \ {n + 1}] = h[s \ {n + 1}]
      BY <1>3, <3>2
    <3>4. g[s] = Drain(h[s \ {n + 1}], run.channel[n + 1])
      BY <2>2
    <3> HIDE DEF g
    <3>5. s # {} /\ F(s) = Drain(g[s \ {n + 1}], run.channel[n + 1])
      BY Zenon, <2>2, <3>1
    <3> QED
      BY Zenon, <3>3, <3>4, <3>5
  <2> QED
    BY <2>1, <2>2
<1>5. g = [s \in SUBSET (1..(n + 1)) |-> F(s)]
  <2>1. g = [s \in SUBSET (1..(n + 1)) |-> g[s]]
    OBVIOUS
  <2> HIDE DEF g
  <2> QED
    BY <1>4, <2>1
<1> HIDE DEF g
<1> QED
  BY <1>5 DEF DrainedUpTo

LEMMA DrainedExists ==
  ASSUME NEW run, NEW n \in Nat
  PROVE  \E h : DrainedUpTo(run, n, h)
<1> DEFINE Bad == {k \in 0..n : ~ \E h : DrainedUpTo(run, k, h)}
<1> SUFFICES ASSUME Bad # {} PROVE FALSE
  OBVIOUS
<1>1. PICK m \in Bad : \A k \in Bad : m <= k
  <2>1. Bad \subseteq Nat
    OBVIOUS
  <2> HIDE DEF Bad
  <2> QED
    BY <2>1, Least
<1>2. m # 0
  <2>1. DrainedUpTo(run, 0, [s \in SUBSET (1..0) |-> Undrained(run)])
    BY DEF DrainedUpTo
  <2> QED
    BY <1>1, <2>1
<1>3. m - 1 \in 0..n /\ m - 1 \notin Bad
  BY <1>1, <1>2
<1>4. PICK h : DrainedUpTo(run, m - 1, h)
  BY <1>3
<1> QED
  BY <1>1, <1>3, <1>4, DrainedGrows

\* What FinishStream drains, event by event.
LEMMA DrainedSteps ==
  ASSUME NEW run, run.channel \in Seq(Events)
  PROVE  \E acc : /\ acc[0] = Undrained(run)
                  /\ \A k \in 1..Len(run.channel) :
                        acc[k] = Drain(acc[k - 1], run.channel[k])
                  /\ Drained(run) = acc[Len(run.channel)]
<1> DEFINE n == Len(run.channel)
           h == CHOOSE f : DrainedUpTo(run, n, f)
<1>0. n \in Nat /\ DOMAIN run.channel = 1..n
  OBVIOUS
<1>1. Drained(run) = h[1..n]
  <2>1. Drained(run) = LET iter[s \in SUBSET DOMAIN run.channel] ==
                             IF s = {} THEN Undrained(run)
                             ELSE Drain(iter[s \ {Max(s)}], run.channel[Max(s)])
                       IN  iter[DOMAIN run.channel]
    BY Zenon DEF Drained, FoldLeft, MapThenFoldSet, Drain, Undrained
  <2> QED
    BY Zenon, <1>0, <2>1 DEF DrainedUpTo
<1>2. DrainedUpTo(run, n, h)
  <2> HIDE DEF n
  <2> QED
    BY <1>0, DrainedExists
<1> HIDE DEF h
<1> DEFINE acc == [k \in 0..n |-> h[1..k]]
<1>3. \A s \in SUBSET (1..n) : h[s] = IF s = {} THEN Undrained(run)
                                      ELSE Drain(h[s \ {Max(s)}], run.channel[Max(s)])
  BY <1>2 DEF DrainedUpTo
<1> HIDE DEF n
<1>4. acc[0] = Undrained(run)
  <2>1. 1..0 = {} /\ 1..0 \in SUBSET (1..n) /\ 0 \in 0..n
    BY <1>0
  <2>2. h[1..0] = Undrained(run)
    BY <1>3, <2>1
  <2> QED
    BY <2>1, <2>2
<1>5. ASSUME NEW k \in 1..n
      PROVE  acc[k] = Drain(acc[k - 1], run.channel[k])
  <2>1. Max(1..k) = k
    <3>1. k \in 1..k /\ 1..k \subseteq Nat /\ \A x \in 1..k : k >= x
      BY <1>0
    <3> QED
      BY <3>1, MaxOfSet
  <2>2. (1..k) \ {k} = 1..(k - 1) /\ 1..k \in SUBSET (1..n) /\ k \in 1..k
    BY <1>0
  <2>3. h[1..k] = Drain(h[1..(k - 1)], run.channel[k])
    <3> HIDE DEF acc
    <3>1. h[1..k] = IF 1..k = {} THEN Undrained(run)
                    ELSE Drain(h[(1..k) \ {Max(1..k)}], run.channel[Max(1..k)])
      BY Zenon, <1>3, <2>2
    <3> QED
      BY Zenon, <2>1, <2>2, <3>1
  <2>4. k \in 0..n /\ k - 1 \in 0..n
    BY <1>0
  <2> QED
    BY Zenon, <2>3, <2>4
<1>6. Drained(run) = acc[n]
  BY <1>0, <1>1
<1> HIDE DEF acc
<1> QED
  BY Zenon, <1>4, <1>5, <1>6 DEF n
-----------------------------------------------------------------------------
(* The answer a run was sent is still ahead of its task, or the run has it.  *)

AnswerAhead(channel) ==
  \E i \in 1..Len(channel) :
     /\ channel[i].kind = "done"
     /\ \A j \in 1..(i - 1) : channel[j].kind \notin Ending

HasAnswer(run) == run.answered \/ run.error = "limit"

\* The task of a running run has not met the first ending yet.
KeepsAnswer(run) ==
  /\ run.running /\ run.first = "none" =>
       \A i \in 1..Len(run.channel) : run.channel[i].kind \notin Ending
  /\ run.running /\ run.first = "done" => AnswerAhead(run.channel)
  /\ ~run.running /\ run.first = "done" /\ ~run.cancel => HasAnswer(run)

AnswersInv == \A id \in DOMAIN runs : KeepsAnswer(runs[id])

LEMMA AppliedAnswers ==
  ASSUME NEW run, IsRun(run), NEW event \in Events
  PROVE  /\ Applied(run, event).first = run.first
         /\ Applied(run, event).cancel = run.cancel
         /\ Terminal(run, event) /\ event.kind \notin {"error", "budget"}
              => HasAnswer(Applied(run, event))
         /\ event.kind = "done" => Terminal(run, event)
<1>1. event.kind \in {"token", "done", "error", "budget", "other"}
  BY DEF Events
<1>2. /\ Applied(run, event).first = run.first
      /\ Applied(run, event).cancel = run.cancel
  <2> DEFINE after == Applied(run, event)
  <2>1. \/ after = run
        \/ \E error : after = [run EXCEPT !.error = error]
        \/ \E size : after = [run EXCEPT !.size = size]
        \/ \E size : after = [run EXCEPT !.size = size, !.answered = TRUE]
    BY <1>1 DEF Applied
  <2> HIDE DEF after
  <2>2. after.first = run.first /\ after.cancel = run.cancel
    BY <2>1 DEF IsRun, Fields
  <2> QED
    BY <2>2 DEF after
<1>3. CASE Retained(run, event) > MaxOutput
  <2>1. Applied(run, event) = [run EXCEPT !.error = "limit"]
    BY <1>3 DEF Applied
  <2>2. Applied(run, event).error = "limit"
    BY <2>1 DEF IsRun, Fields
  <2> QED
    BY Zenon, <1>2, <1>3, <2>2 DEF HasAnswer, Terminal
<1>4. CASE ~(Retained(run, event) > MaxOutput)
  <2>1. ASSUME event.kind = "done"
        PROVE  Applied(run, event).answered = TRUE
    <3>1. Applied(run, event) = [run EXCEPT !.size = event.size, !.answered = TRUE]
      <4> DEFINE large == Retained(run, event) > MaxOutput
      <4>1. ~large /\ event.kind # "token"
        BY <1>4, <2>1
      <4> HIDE DEF large
      <4> QED
        BY <2>1, <4>1 DEF Applied, large
    <3> DEFINE after == Applied(run, event)
    <3> HIDE DEF after
    <3>2. after.answered = TRUE
      <4>1. after = [run EXCEPT !.size = event.size, !.answered = TRUE]
        BY <3>1 DEF after
      <4> QED
        BY <4>1 DEF IsRun, Fields
    <3> QED
      BY <3>2 DEF after
  <2>2. Terminal(run, event) <=> event.kind \in Ending
    BY Zenon, <1>4 DEF Terminal
  <2>3. event.kind \in Ending /\ event.kind \notin {"error", "budget"} <=> event.kind = "done"
    BY <1>1 DEF Ending, Final
  <2> QED
    BY Zenon, <1>2, <2>1, <2>2, <2>3 DEF HasAnswer
<1> QED
  BY <1>3, <1>4

\* Draining the channel reaches the answer unless the output limit comes first.
LEMMA DrainedAnswer ==
  ASSUME NEW run, IsRun(run), AnswerAhead(run.channel)
  PROVE  Drained(run).over /\ HasAnswer(Drained(run).run)
<1> DEFINE n == Len(run.channel)
<1>1. run.channel \in Seq(Events)
  BY DEF IsRun
<1>2. PICK acc : /\ acc[0] = Undrained(run)
                 /\ \A k \in 1..n : acc[k] = Drain(acc[k - 1], run.channel[k])
                 /\ Drained(run) = acc[n]
  BY <1>1, DrainedSteps
<1>3. PICK i \in 1..n : /\ run.channel[i].kind = "done"
                        /\ \A j \in 1..(i - 1) : run.channel[j].kind \notin Ending
  BY DEF AnswerAhead
<1>4. n \in Nat /\ \A k \in 1..n : run.channel[k] \in Events
  BY <1>1
<1> HIDE DEF n
<1> DEFINE Good(k) == /\ IsRun(acc[k].run)
                      /\ acc[k].over => HasAnswer(acc[k].run)
                      /\ k >= i => acc[k].over
           Bad == {k \in 0..n : ~Good(k)}
<1>5. Good(0)
  <2>1. acc[0].run = run /\ acc[0].over = FALSE
    BY <1>2 DEF Undrained
  <2> QED
    BY <1>3, <1>4, <2>1
<1>6. ASSUME NEW k \in 1..n, Good(k - 1)
      PROVE  Good(k)
  <2> DEFINE event == run.channel[k]
             before == acc[k - 1]
  <2>1. /\ event \in Events /\ acc[k] = Drain(before, event)
        /\ k < i => event.kind \notin Ending
        /\ k = i => event.kind = "done"
    BY <1>2, <1>3, <1>4
  <2>2. CASE before.over
    <3>1. acc[k] = before
      BY <2>1, <2>2 DEF Drain
    <3> HIDE DEF before
    <3> QED
      BY <1>6, <2>2, <3>1 DEF before
  <2>3. CASE ~before.over
    <3>1. k <= i
      BY <1>3, <1>4, <1>6, <2>3
    <3>2. acc[k].over = Terminal(before.run, event) /\ acc[k].run = Applied(before.run, event)
      BY <2>1, <2>3 DEF Drain
    <3>3. IsRun(before.run)
      BY <1>6
    <3>4. event.kind \notin {"error", "budget"}
      <4>1. k < i \/ k = i
        BY <1>3, <1>4, <3>1
      <4> HIDE DEF event
      <4> QED
        BY <2>1, <4>1 DEF Ending, Final
    <3> HIDE DEF event, before
    <3>5. IsRun(acc[k].run) /\ (acc[k].over => HasAnswer(acc[k].run))
      BY Zenon, <2>1, <3>2, <3>3, <3>4, AppliedKeeps, AppliedAnswers
    <3>6. k = i => acc[k].over
      BY Zenon, <2>1, <3>2, <3>3, AppliedAnswers
    <3>7. k >= i => k = i
      BY <1>3, <1>4, <3>1
    <3> QED
      BY Zenon, <3>5, <3>6, <3>7
  <2> QED
    BY <2>2, <2>3
<1>7. Bad = {}
  <2> SUFFICES ASSUME Bad # {} PROVE FALSE
    OBVIOUS
  <2>1. Bad \subseteq Nat
    OBVIOUS
  <2>2. PICK m \in Bad : \A k \in Bad : m <= k
    <3> HIDE DEF Bad
    <3> QED
      BY <2>1, Least
  <2>3. m \in 0..n /\ ~Good(m)
    OBVIOUS
  <2>4. m # 0
    <3> HIDE DEF Good
    <3> QED
      BY <1>5, <2>3
  <2>5. m \in 1..n /\ m - 1 \in 0..n /\ ~(m <= m - 1)
    BY <1>4, <2>3, <2>4
  <2>6. Good(m - 1)
    <3> HIDE DEF Good
    <3> QED
      BY <2>2, <2>5
  <2> QED
    <3> HIDE DEF Good, Bad
    <3> QED
      BY <1>6, <2>3, <2>5, <2>6
<1>8. Good(n)
  <2> HIDE DEF Good
  <2> QED
    BY <1>4, <1>7
<1> QED
  BY <1>2, <1>3, <1>4, <1>8

LEMMA AnswersMove ==
  ASSUME RunsInv, AnswersInv, NEW id \in DOMAIN runs, NEW run, KeepsAnswer(run),
         runs' = [runs EXCEPT ![id] = run]
  PROVE  AnswersInv'
<1>1. /\ DOMAIN runs' = DOMAIN runs
      /\ \A d \in DOMAIN runs : runs'[d] = IF d = id THEN run ELSE runs[d]
  OBVIOUS
<1>2. \A d \in DOMAIN runs' : KeepsAnswer(runs'[d])
  BY Zenon, <1>1 DEF AnswersInv
<1> QED
  BY <1>2 DEF AnswersInv, KeepsAnswer, HasAnswer, AnswerAhead, Ending, Final

\* A run that ends has its answer, if that was its first ending.
Answered(run) == run.first = "done" /\ ~run.cancel => HasAnswer(run)

LEMMA EndedAnswers ==
  ASSUME NEW run, IsRun(run), Answered(run)
  PROVE  KeepsAnswer(Ended(run))
<1> DEFINE after == Ended(run)
<1>1. after = [run EXCEPT !.running = FALSE, !.channel = <<>>, !.final = FALSE]
  BY DEF Ended
<1> HIDE DEF after
<1>2. /\ after.running = FALSE /\ after.first = run.first /\ after.cancel = run.cancel
      /\ after.answered = run.answered /\ after.error = run.error
  BY <1>1 DEF IsRun, Fields
<1>3. KeepsAnswer(after)
  BY Zenon, <1>2 DEF KeepsAnswer, Answered, HasAnswer
<1> QED
  BY <1>3 DEF after

\* The fields of a run with its channel replaced.
LEMMA ChannelReplaced ==
  ASSUME NEW run, IsRun(run), NEW channel
  PROVE  LET after == [run EXCEPT !.channel = channel]
         IN  /\ after.channel = channel /\ after.first = run.first
             /\ after.cancel = run.cancel /\ after.running = run.running
             /\ after.answered = run.answered /\ after.error = run.error
BY DEF IsRun, Fields

LEMMA CancelAnswers ==
  ASSUME RunsInv, AnswersInv, NEW id \in DOMAIN runs, Cancel(id)
  PROVE  AnswersInv'
<1> DEFINE r == runs[id]
           run == [r EXCEPT !.cancel = TRUE]
<1>1. IsRun(r) /\ KeepsAnswer(r)
  BY DEF RunsInv, TableOK, AnswersInv
<1>2. runs' = [runs EXCEPT ![id] = run]
  BY DEF Cancel
<1>3. /\ run.cancel = TRUE /\ run.running = r.running /\ run.first = r.first
      /\ run.channel = r.channel
  BY <1>1 DEF IsRun, Fields
<1> HIDE DEF run
<1>4. KeepsAnswer(run)
  BY Zenon, <1>1, <1>3 DEF KeepsAnswer
<1> QED
  BY <1>2, <1>4, AnswersMove

LEMMA CanceledAnswers ==
  ASSUME RunsInv, AnswersInv, NEW id \in DOMAIN runs, Canceled(id)
  PROVE  AnswersInv'
<1> DEFINE r == runs[id]
           run == [r EXCEPT !.error = "failed"]
<1>1. IsRun(r) /\ r.cancel
  BY DEF RunsInv, TableOK, Canceled
<1>2. runs' = [runs EXCEPT ![id] = Ended(run)]
  BY DEF Canceled
<1>3. IsRun(run) /\ run.cancel = r.cancel
  BY <1>1 DEF IsRun, Fields
<1> HIDE DEF run
<1>4. KeepsAnswer(Ended(run))
  BY <1>1, <1>3, EndedAnswers DEF Answered
<1> QED
  BY <1>2, <1>4, AnswersMove

\* Shutdown told every task before it aborts one.
LEMMA AbortedAnswers ==
  ASSUME RunsInv, AnswersInv, NEW id \in DOMAIN runs, Aborted(id)
  PROVE  AnswersInv'
<1>1. IsRun(runs[id]) /\ runs[id].cancel
  BY DEF RunsInv, TableOK, ShutdownOK, Running, Aborted
<1>2. runs' = [runs EXCEPT ![id] = Ended(runs[id])]
  BY DEF Aborted
<1>3. KeepsAnswer(Ended(runs[id]))
  BY <1>1, EndedAnswers DEF Answered
<1> QED
  BY <1>2, <1>3, AnswersMove

LEMMA EmitAnswers ==
  ASSUME RunsInv, AnswersInv, NEW id \in DOMAIN runs, NEW event \in Events, Emit(id, event)
  PROVE  AnswersInv'
<1> DEFINE r == runs[id]
           first == IF r.first = "none" /\ event.kind \in Ending THEN event.kind ELSE r.first
           channel == Append(r.channel, event)
           run == [r EXCEPT !.channel = Append(@, event),
                            !.final = @ \/ event.kind \in Final,
                            !.first = IF @ = "none" /\ event.kind \in Ending
                                      THEN event.kind ELSE @]
<1>1. IsRun(r) /\ KeepsAnswer(r) /\ r.running
  BY DEF RunsInv, TableOK, AnswersInv, Emit
<1>2. runs' = [runs EXCEPT ![id] = run]
  BY DEF Emit
<1>3. run.channel = channel /\ run.first = first /\ run.running = r.running
  BY <1>1 DEF IsRun, Fields
<1> HIDE DEF run
<1>4. /\ r.channel \in Seq(Events)
      /\ Len(channel) = Len(r.channel) + 1 /\ channel[Len(r.channel) + 1] = event
      /\ \A i \in 1..Len(r.channel) : channel[i] = r.channel[i]
  BY <1>1 DEF IsRun
<1> DEFINE n == Len(r.channel)
<1>5. n \in Nat
  BY <1>4
<1> HIDE DEF channel, n
<1>6. first = "none" => \A i \in 1..(n + 1) : channel[i].kind \notin Ending
  <2> SUFFICES ASSUME first = "none", NEW i \in 1..(n + 1)
               PROVE  channel[i].kind \notin Ending
    OBVIOUS
  <2>1. r.first = "none" /\ event.kind \notin Ending
    BY DEF Ending, Final
  <2>2. i \in 1..n \/ i = n + 1
    BY <1>5
  <2> QED
    BY <1>1, <1>4, <2>1, <2>2 DEF KeepsAnswer, n
<1>7. first = "done" => AnswerAhead(channel)
  <2>1. CASE r.first = "done"
    <3>1. PICK i \in 1..n : /\ r.channel[i].kind = "done"
                            /\ \A j \in 1..(i - 1) : r.channel[j].kind \notin Ending
      BY <1>1, <2>1 DEF KeepsAnswer, AnswerAhead, n
    <3>2. i \in 1..(n + 1) /\ \A j \in 1..(i - 1) : j \in 1..n
      BY <1>5
    <3> QED
      BY <1>4, <3>1, <3>2 DEF AnswerAhead, n
  <2>2. CASE r.first = "none" /\ first = "done"
    <3>1. event.kind = "done" /\ \A i \in 1..n : r.channel[i].kind \notin Ending
      BY <1>1, <2>2 DEF KeepsAnswer, n
    <3>2. n + 1 \in 1..(n + 1) /\ \A j \in 1..((n + 1) - 1) : j \in 1..n
      BY <1>5
    <3> QED
      BY <1>4, <3>1, <3>2 DEF AnswerAhead, n
  <2> QED
    BY <2>1, <2>2
<1> HIDE DEF first
<1>8. KeepsAnswer(run)
  BY <1>1, <1>3, <1>4, <1>6, <1>7 DEF KeepsAnswer, n
<1> QED
  BY <1>2, <1>8, AnswersMove

LEMMA ReceiveAnswers ==
  ASSUME RunsInv, AnswersInv, NEW id \in DOMAIN runs, Receive(id)
  PROVE  AnswersInv'
<1> DEFINE r == runs[id]
           event == Head(r.channel)
           applied == Applied(r, event)
           after == [applied EXCEPT !.channel = Tail(@)]
           rest == Tail(r.channel)
<1>1. IsRun(r) /\ KeepsAnswer(r) /\ r.running /\ r.channel # <<>>
  BY DEF RunsInv, TableOK, AnswersInv, Receive
<1>2. r.channel \in Seq(Events) /\ event \in Events
  BY <1>1 DEF IsRun
<1>3. /\ IsRun(applied) /\ applied.channel = r.channel /\ applied.first = r.first
      /\ applied.cancel = r.cancel /\ applied.running = r.running
      /\ Terminal(r, event) /\ event.kind \notin {"error", "budget"} => HasAnswer(applied)
      /\ event.kind = "done" => Terminal(r, event)
  <2> HIDE DEF event
  <2> QED
    BY <1>1, <1>2, AppliedKeeps, AppliedAnswers
<1>4. runs' = [runs EXCEPT ![id] = IF Terminal(r, event) THEN Ended(after) ELSE after]
  BY DEF Receive
<1> HIDE DEF applied
<1>5. /\ IsRun(after) /\ after.channel = rest /\ after.first = r.first
      /\ after.cancel = r.cancel /\ after.running = r.running
      /\ HasAnswer(applied) => HasAnswer(after)
  <2>1. after = [applied EXCEPT !.channel = rest] /\ rest \in Seq(Events)
    BY <1>1, <1>2, <1>3
  <2> HIDE DEF after, rest
  <2> QED
    BY <1>3, <2>1 DEF IsRun, Fields, HasAnswer
<1>6. /\ event = r.channel[1] /\ Len(rest) = Len(r.channel) - 1
      /\ Len(r.channel) \in Nat \ {0}
      /\ \A i \in 1..Len(rest) : rest[i] = r.channel[i + 1]
  BY <1>1, <1>2
<1> DEFINE n == Len(r.channel)
<1> HIDE DEF after, event, rest
\* The answer is the event received, or it is still ahead.
<1>7. ASSUME r.first = "done"
      PROVE  event.kind \notin {"error", "budget"} /\ (event.kind = "done" \/ AnswerAhead(rest))
  <2>1. PICK i \in 1..n : /\ r.channel[i].kind = "done"
                          /\ \A j \in 1..(i - 1) : r.channel[j].kind \notin Ending
    BY <1>1, <1>7 DEF KeepsAnswer, AnswerAhead
  <2>2. CASE i = 1
    BY <1>6, <2>1, <2>2
  <2>3. CASE i # 1
    <3>1. 1 \in 1..(i - 1) /\ i - 1 \in 1..Len(rest) /\ (i - 1) + 1 = i
      BY <1>6, <2>3
    <3>2. event.kind \notin Ending
      BY <1>6, <2>1, <3>1
    <3>3. \A j \in 1..((i - 1) - 1) : j + 1 \in 1..(i - 1) /\ j \in 1..Len(rest)
      BY <1>6, <3>1
    <3>4. AnswerAhead(rest)
      BY <1>6, <2>1, <3>1, <3>3 DEF AnswerAhead
    <3> QED
      BY <3>2, <3>4 DEF Ending, Final
  <2> QED
    BY <2>2, <2>3
<1>8. CASE Terminal(r, event)
  <2>1. Answered(after)
    BY <1>3, <1>5, <1>7, <1>8 DEF Answered
  <2> QED
    BY <1>4, <1>5, <1>8, <2>1, EndedAnswers, AnswersMove
<1>9. CASE ~Terminal(r, event)
  <2>1. r.first = "done" => AnswerAhead(rest)
    BY <1>3, <1>7, <1>9
  <2>2. r.first = "none" => \A i \in 1..Len(rest) : rest[i].kind \notin Ending
    <3>1. \A i \in 1..Len(rest) : i + 1 \in 1..Len(r.channel)
      BY <1>6
    <3> QED
      BY <1>1, <1>6, <3>1 DEF KeepsAnswer
  <2>3. KeepsAnswer(after)
    BY <1>1, <1>5, <2>1, <2>2 DEF KeepsAnswer
  <2> QED
    BY <1>4, <1>9, <2>3, AnswersMove
<1> QED
  BY <1>8, <1>9

\* What the channel still holds is drained before the run ends.
LEMMA FinishStreamAnswers ==
  ASSUME RunsInv, AnswersInv, NEW id \in DOMAIN runs, NEW failed, FinishStream(id, failed)
  PROVE  AnswersInv'
<1> DEFINE r == runs[id]
           drained == Drained(r)
           run == [r EXCEPT !.size = drained.run.size,
                            !.answered = drained.run.answered,
                            !.error = IF failed /\ ~drained.over THEN "failed"
                                      ELSE drained.run.error]
<1>1. IsRun(r) /\ KeepsAnswer(r) /\ r.running
  BY DEF RunsInv, TableOK, AnswersInv, FinishStream
<1>2. runs' = [runs EXCEPT ![id] = Ended(run)]
  BY DEF FinishStream
<1>3. r.first = "done" => drained.over /\ HasAnswer(drained.run)
  BY Zenon, <1>1, DrainedAnswer DEF KeepsAnswer
<1> HIDE DEF drained
<1> DEFINE error == IF failed /\ ~drained.over THEN "failed" ELSE drained.run.error
<1> HIDE DEF error
<1>4. /\ IsRun(run) /\ run.first = r.first /\ run.answered = drained.run.answered
      /\ run.error = error
  <2>1. run = [r EXCEPT !.size = drained.run.size, !.answered = drained.run.answered,
                        !.error = error]
    BY DEF error
  <2> HIDE DEF run
  <2> QED
    BY <1>1, <2>1 DEF IsRun, Fields
<1> HIDE DEF run
<1>5. Answered(run)
  BY Zenon, <1>3, <1>4 DEF Answered, HasAnswer, error
<1> QED
  BY <1>2, <1>4, <1>5, EndedAnswers, AnswersMove

LEMMA StartAnswers ==
  ASSUME RunsInv, AnswersInv, NEW id \in Ids, NEW thread \in Threads, Start(id, thread)
  PROVE  AnswersInv'
<1>1. PICK S \in SUBSET DOMAIN runs :
         Running \subseteq S /\ Kept = [i \in S |-> runs[i]]
  BY KeptRuns
<1> DEFINE new == NewRun(thread, NextOrder(Kept))
<1>2. runs' = [i \in S \cup {id} |-> IF i = id THEN new ELSE runs[i]]
  BY <1>1 DEF Start
<1>3. KeepsAnswer(new)
  BY DEF NewRun, KeepsAnswer
<1> HIDE DEF new
<1>4. \A i \in DOMAIN runs' : runs'[i] = new \/ (i \in DOMAIN runs /\ runs'[i] = runs[i])
  BY <1>2
<1>5. \A i \in DOMAIN runs' : KeepsAnswer(runs'[i])
  BY <1>3, <1>4 DEF AnswersInv
<1> QED
  BY <1>5 DEF AnswersInv, KeepsAnswer, HasAnswer, AnswerAhead, Ending, Final

LEMMA TakeRunsAnswers ==
  ASSUME RunsInv, AnswersInv, TakeRuns
  PROVE  AnswersInv'
<1> DEFINE told(d) == [runs[d] EXCEPT !.cancel = @ \/ runs[d].running]
<1>1. DOMAIN runs' = DOMAIN runs /\ \A d \in DOMAIN runs : runs'[d] = told(d)
  BY DEF TakeRuns
<1>2. ASSUME NEW d \in DOMAIN runs
      PROVE  KeepsAnswer(told(d))
  <2>1. IsRun(runs[d]) /\ KeepsAnswer(runs[d])
    BY DEF RunsInv, TableOK, AnswersInv
  <2> DEFINE run == told(d)
             canceled == runs[d].cancel \/ runs[d].running
  <2>2. run = [runs[d] EXCEPT !.cancel = canceled]
    OBVIOUS
  <2> HIDE DEF run, canceled
  <2>3. /\ run.cancel = canceled /\ run.running = runs[d].running
        /\ run.first = runs[d].first /\ run.channel = runs[d].channel
        /\ run.answered = runs[d].answered /\ run.error = runs[d].error
    BY <2>1, <2>2 DEF IsRun, Fields
  <2>4. KeepsAnswer(run)
    BY Zenon, <2>1, <2>3 DEF KeepsAnswer, HasAnswer, canceled
  <2> QED
    BY <2>4 DEF run
<1> HIDE DEF told
<1>3. \A i \in DOMAIN runs' : KeepsAnswer(runs'[i])
  BY <1>1, <1>2
<1> QED
  BY <1>3 DEF AnswersInv, KeepsAnswer, HasAnswer, AnswerAhead, Ending, Final

LEMMA NextAnswers == RunsInv /\ AnswersInv /\ [Next]_vars => AnswersInv'
<1> SUFFICES ASSUME RunsInv, AnswersInv, [Next]_vars PROVE AnswersInv'
  OBVIOUS
<1>1. CASE \E id \in Ids, thread \in Threads : Start(id, thread)
  BY <1>1, StartAnswers
<1>2. CASE \E id \in DOMAIN runs :
             Cancel(id) \/ Receive(id) \/ Canceled(id) \/ Aborted(id)
  BY <1>2, CancelAnswers, ReceiveAnswers, CanceledAnswers, AbortedAnswers
<1>3. CASE \E id \in DOMAIN runs, event \in Events : Emit(id, event)
  BY <1>3, EmitAnswers
<1>4. CASE \E id \in DOMAIN runs, failed \in BOOLEAN : FinishStream(id, failed)
  BY <1>4, FinishStreamAnswers
<1>5. CASE \E id \in DOMAIN runs : Join(id)
  <2>1. \A i \in DOMAIN runs' : i \in DOMAIN runs /\ runs'[i] = runs[i]
    BY <1>5 DEF Join
  <2>2. \A i \in DOMAIN runs' : KeepsAnswer(runs'[i])
    BY <2>1 DEF AnswersInv
  <2> QED
    BY <2>2 DEF AnswersInv, KeepsAnswer, HasAnswer, AnswerAhead, Ending, Final
<1>6. CASE TakeRuns
  BY <1>6, TakeRunsAnswers
<1>7. CASE \/ BeginShutdown \/ FinishShutdown \/ UNCHANGED vars
           \/ \E id \in DOMAIN runs : TimesOut(id)
  <2>1. runs' = runs
    BY <1>7 DEF BeginShutdown, FinishShutdown, TimesOut, vars
  <2> QED
    BY <2>1 DEF AnswersInv, KeepsAnswer, HasAnswer, AnswerAhead, Ending, Final
<1> QED
  BY Zenon, <1>1, <1>2, <1>3, <1>4, <1>5, <1>6, <1>7 DEF Next

-----------------------------------------------------------------------------
(* What Start's guard asks of the threads that run holds in every reachable  *)
(* state, whichever ids and threads are used (research.rs, action).          *)
THEOREM RunsInvariant == Spec => []RunsInv
BY RunsInvInit, NextKeeps, PTL DEF Spec

(* No conversation has two runs at a time, under its plain name, its         *)
(* qualified one, or one of each (research.rs, same_thread).                 *)
THEOREM OneRun == Spec => []OneRunPerThread
BY RunsInvariant, RunsInvHolds, PTL

(* Neither making room in a full table nor shutdown drops a run whose task   *)
(* lives, and a new run comes last in the list, whichever runs were dropped   *)
(* before it (research.rs, action and shutdown).                              *)
THEOREM RunningIsKept == Spec => RunningKeptInOrder
<1>1. RunsInv /\ [Next]_vars =>
        [/\ Running \subseteq DOMAIN runs'
         /\ \A new \in DOMAIN runs' \ DOMAIN runs :
              \A old \in DOMAIN runs' \cap DOMAIN runs :
                runs'[new].order > runs[old].order]_vars
  BY NextKeeps DEF KeepsOrder
<1> QED
  BY <1>1, RunsInvInit, NextKeeps, PTL DEF Spec, RunningKeptInOrder

(* Every running run still has its first ending ahead in its channel, and    *)
(* every ended one got the answer it was sent (research.rs, apply_event).    *)
THEOREM AnswersInvariant == Spec => []AnswersInv
<1>1. Init => AnswersInv
  BY DEF Init, AnswersInv
<1> QED
  BY <1>1, RunsInvInit, NextKeeps, NextAnswers, PTL DEF Spec

(* A run whose first ending is an answer has the answer when it ends, however *)
(* its stream breaks off and however many events its channel still holds:     *)
(* only a cancellation or the output limit takes its place (research.rs,      *)
(* action).                                                                   *)
THEOREM AnswersAreKept == Spec => []AnswerNotLost
<1>1. AnswersInv => AnswerNotLost
  BY DEF AnswersInv, KeepsAnswer, HasAnswer, AnswerNotLost
<1> QED
  BY <1>1, AnswersInvariant, PTL
=============================================================================
