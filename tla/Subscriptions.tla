---------------------------- MODULE Subscriptions ----------------------------
(***************************************************************************)
(* The owner-aware resource scheduler of the desktop engine                *)
(* (crates/terminal-engine/src/subscriptions.rs).                          *)
(*                                                                         *)
(* Screens ("owners") subscribe to resources ("requests").  Owners of the  *)
(* same request share one entry; the scheduler fetches an entry whenever   *)
(* it is due, runs a bounded number of fetches, aborts the fetch of an     *)
(* entry that lost its last owner, and publishes one immutable map from    *)
(* owner to update after every change.  One action is one branch of the    *)
(* scheduler's select! loop, or one step of a fetch task it spawned.       *)
(*                                                                         *)
(* A payload or an error is represented by the version (the entry          *)
(* generation) of the fetch that produced it; 0 stands for None.           *)
(***************************************************************************)
EXTENDS Naturals, FiniteSets

CONSTANTS
  Owners,           \* the screens that may subscribe
  Requests,         \* resource requests; a number is the BTreeMap position
  MaxOwners,        \* subscription capacity (4352 in the code)
  MaxTasks,         \* concurrent fetch tasks (4 in the code)
  RevisionModulus,  \* 2^64 in the code: revisions wrap
  MaxGeneration     \* bound: number of subscriptions a behaviour makes

ASSUME RequestsAssumption == Requests \subseteq Nat /\ IsFiniteSet(Requests)
ASSUME LimitsAssumption ==
  /\ MaxOwners \in Nat
  /\ MaxTasks \in Nat
  /\ RevisionModulus \in Nat \ {0}
  /\ MaxGeneration \in Nat

VARIABLES
  owners,      \* owner -> binding, for the owners bound now
  entries,     \* request -> entry, for the requests with an owner
  tasks,       \* the JoinSet: every spawned fetch not joined yet
  generation,  \* the last generation given to a subscription
  revision,    \* the last revision published
  latest,      \* the published map: owner -> update
  phase        \* "running", then "draining" after stop, then "stopped"

vars == <<owners, entries, tasks, generation, revision, latest, phase>>
-----------------------------------------------------------------------------
Binding == [request : Requests, generation : Nat]

Entry == [owners : SUBSET Owners, payload : Nat, error : Nat,
          due : BOOLEAN, fetching : BOOLEAN, generation : Nat]

Task == [request : Requests, version : Nat,
         status : {"running", "aborted", "ok", "failed", "cancelled"}]

Update == [generation : Nat, revision : Nat, request : Requests,
           payload : Nat, error : Nat]

\* A map with one more key, or one key fewer.
Put(map, key, value) ==
  [k \in DOMAIN map \cup {key} |-> IF k = key THEN value ELSE map[k]]

Drop(map, key) == [k \in DOMAIN map \ {key} |-> map[k]]

EmptyMap == [k \in {} |-> k]

\* An entry as or_insert_with creates it: nothing loaded, due at once.
FreshEntry(version) ==
  [owners |-> {}, payload |-> 0, error |-> 0,
   due |-> TRUE, fetching |-> FALSE, generation |-> version]

Loading(update) == update.payload = 0 /\ update.error = 0

\* What publish makes of the scheduler's state.
View(bound, shared, rev) ==
  [o \in {p \in DOMAIN bound : bound[p].request \in DOMAIN shared} |->
    LET entry == shared[bound[o].request]
    IN [generation |-> bound[o].generation, revision |-> rev,
        request |-> bound[o].request,
        payload |-> entry.payload, error |-> entry.error]]

Publish ==
  /\ revision' = (revision + 1) % RevisionModulus
  /\ latest' = View(owners', entries', revision')

\* A task that was told to abort may still finish first.
Aborted(task) == [task EXCEPT !.status = IF @ = "running" THEN "aborted" ELSE @]

Finished(task) == task.status \in {"ok", "failed", "cancelled"}

-----------------------------------------------------------------------------
\* (mutant) the entry outlives its last owner
ReleasedKeepsEntry(o) ==
  IF o \notin DOMAIN owners THEN entries
  ELSE [entries EXCEPT ![owners[o].request].owners = @ \ {o}]

\* release: the entries after owner o gave up its binding ...
Released(o) ==
  IF o \notin DOMAIN owners \/ owners[o].request \notin DOMAIN entries
  THEN entries
  ELSE LET r == owners[o].request
           remaining == entries[r].owners \ {o}
       IN IF remaining = {} THEN Drop(entries, r)
          ELSE [entries EXCEPT ![r].owners = remaining]

\* ... and the tasks: the fetch of a removed entry is aborted.
TasksAfterRelease(o) ==
  {IF /\ t.request \in DOMAIN entries \ DOMAIN Released(o)
      /\ entries[t.request].fetching
      /\ t.version = entries[t.request].generation
   THEN Aborted(t) ELSE t : t \in tasks}

NextGeneration == generation + 1

\* The entry a new owner of r joins.
JoinedEntry(left, r) ==
  IF r \in DOMAIN left THEN left[r] ELSE FreshEntry(NextGeneration)

\* Command::Subscribe.  At capacity the command is refused and nothing changes.
Subscribe(o, r) ==
  LET left == Released(o)
      version == NextGeneration
      entry == JoinedEntry(left, r)
  IN /\ phase = "running"
     /\ generation < MaxGeneration
     /\ o \in DOMAIN owners \/ Cardinality(DOMAIN owners) < MaxOwners
     /\ generation' = version
     /\ entries' = Put(left, r, [entry EXCEPT !.owners = @ \cup {o}])
     /\ owners' = Put(owners, o, [request |-> r, generation |-> version])
     /\ tasks' = TasksAfterRelease(o)
     /\ Publish
     /\ UNCHANGED phase

\* (mutant) the release is not published
UnsubscribeSilently(o, expected) ==
  /\ phase = "running"
  /\ o \in DOMAIN owners
  /\ owners[o].generation = expected
  /\ entries' = Released(o)
  /\ owners' = Drop(owners, o)
  /\ tasks' = TasksAfterRelease(o)
  /\ UNCHANGED <<generation, revision, latest, phase>>

\* Command::Unsubscribe.  A command that names an old generation is ignored.
Unsubscribe(o, expected) ==
  /\ phase = "running"
  /\ o \in DOMAIN owners
  /\ owners[o].generation = expected
  /\ entries' = Released(o)
  /\ owners' = Drop(owners, o)
  /\ tasks' = TasksAfterRelease(o)
  /\ Publish
  /\ UNCHANGED <<generation, phase>>

-----------------------------------------------------------------------------
Eligible == {r \in DOMAIN entries : entries[r].due /\ ~entries[r].fetching}

\* (mutant) the newest keys are served first
LaunchableHighestFirst(batch) ==
  /\ Cardinality(tasks) + Cardinality(batch) <= MaxTasks
  /\ batch = Eligible \/ Cardinality(tasks) + Cardinality(batch) = MaxTasks
  /\ \A r \in batch, q \in Eligible \ batch : r > q

\* The timer branch walks the entries in key order until the tasks are full:
\* it launches the lowest eligible requests, as many as there are free slots.
Launchable(batch) ==
  /\ Cardinality(tasks) + Cardinality(batch) <= MaxTasks
  /\ \/ batch = Eligible
     \/ Cardinality(tasks) + Cardinality(batch) = MaxTasks
  /\ \A r \in batch, q \in Eligible \ batch : r < q

Tick ==
  /\ phase = "running"
  /\ \E batch \in SUBSET Eligible :
       /\ batch # {}
       /\ Launchable(batch)
       /\ entries' = [r \in DOMAIN entries |->
                       IF r \in batch THEN [entries[r] EXCEPT !.fetching = TRUE]
                       ELSE entries[r]]
       /\ tasks' = tasks \cup
            {[request |-> r, version |-> entries[r].generation,
              status |-> "running"] : r \in batch}
  /\ UNCHANGED <<owners, generation, revision, latest, phase>>

\* A fetch task ends: with a payload, with an error, or (if aborted) cancelled.
FinishFetch(t, outcome) ==
  /\ \/ t.status = "running" /\ outcome \in {"ok", "failed"}
     \/ t.status = "aborted" /\ outcome \in {"ok", "failed", "cancelled"}
  /\ tasks' = (tasks \ {t}) \cup {[t EXCEPT !.status = outcome]}
  /\ UNCHANGED <<owners, entries, generation, revision, latest, phase>>

\* The entry after the completion of its own fetch; the next due time lies
\* in the future.  An error keeps the payload, a payload clears the error.
Completed(entry, t) ==
  [entry EXCEPT !.fetching = FALSE, !.due = FALSE,
                !.payload = IF t.status = "ok" THEN t.version ELSE @,
                !.error = IF t.status = "ok" THEN 0 ELSE t.version]

\* (mutant) any fetch of the request counts, whichever entry launched it
AcceptsAnyVersion(t) == t.status # "cancelled" /\ t.request \in DOMAIN entries

\* A completion counts only for the entry that launched it.
Accepts(t) ==
  /\ t.status # "cancelled"
  /\ t.request \in DOMAIN entries
  /\ entries[t.request].generation = t.version

\* The join branch of the loop.
JoinNext(t) ==
  /\ phase = "running"
  /\ Finished(t)
  /\ tasks' = tasks \ {t}
  /\ IF Accepts(t)
     THEN /\ entries' = [entries EXCEPT ![t.request] = Completed(@, t)]
          /\ UNCHANGED owners
          /\ Publish
     ELSE UNCHANGED <<owners, entries, revision, latest>>
  /\ UNCHANGED <<generation, phase>>

\* Time passes the due instant of an entry.
DueElapses(r) ==
  /\ phase = "running"
  /\ r \in DOMAIN entries
  /\ ~entries[r].due
  /\ entries' = [entries EXCEPT ![r].due = TRUE]
  /\ UNCHANGED <<owners, tasks, generation, revision, latest, phase>>

-----------------------------------------------------------------------------
\* stop, or every handle dropped: the loop breaks and aborts all tasks.
Stop ==
  /\ phase = "running"
  /\ phase' = "draining"
  /\ tasks' = {Aborted(t) : t \in tasks}
  /\ owners' = EmptyMap
  /\ entries' = EmptyMap
  /\ UNCHANGED <<generation, revision, latest>>

\* (mutant) only cancelled tasks are joined
DrainCancelled(t) ==
  /\ phase = "draining"
  /\ t.status = "cancelled"
  /\ tasks' = tasks \ {t}
  /\ UNCHANGED <<owners, entries, generation, revision, latest, phase>>

\* After the loop the tasks are joined one by one, results discarded.
DrainNext(t) ==
  /\ phase = "draining"
  /\ Finished(t)
  /\ tasks' = tasks \ {t}
  /\ UNCHANGED <<owners, entries, generation, revision, latest, phase>>

Exit ==
  /\ phase = "draining"
  /\ tasks = {}
  /\ phase' = "stopped"
  /\ UNCHANGED <<owners, entries, tasks, generation, revision, latest>>

Stopped == phase = "stopped" /\ UNCHANGED vars

-----------------------------------------------------------------------------
Init ==
  /\ owners = EmptyMap
  /\ entries = EmptyMap
  /\ tasks = {}
  /\ generation = 0
  /\ revision = 0
  /\ latest = EmptyMap
  /\ phase = "running"

Next ==
  \/ \E o \in Owners, r \in Requests : Subscribe(o, r)
  \/ \E o \in Owners, expected \in 1..generation : Unsubscribe(o, expected)
  \/ Tick
  \/ \E t \in tasks, outcome \in {"ok", "failed", "cancelled"} :
       FinishFetch(t, outcome)
  \/ \E t \in tasks : JoinNext(t)
  \/ \E r \in Requests : DueElapses(r)
  \/ Stop
  \/ \E t \in tasks : DrainNext(t)
  \/ Exit
  \/ Stopped

Spec == Init /\ [][Next]_vars

\* The tasks of one life of a request: at most one (FetchesTracked).
TasksOf(r, v) == {t \in tasks : t.request = r /\ t.version = v}

FinishSome(r, v) ==
  \E t \in TasksOf(r, v), outcome \in {"ok", "failed", "cancelled"} :
    FinishFetch(t, outcome)

\* The timer keeps ticking, every fetch ends (providers time out) and the
\* runtime polls the loop; nobody has to subscribe, unsubscribe or stop.
Fairness ==
  /\ WF_vars(Tick)
  /\ WF_vars(Exit)
  /\ \A r \in Requests, v \in 1..MaxGeneration :
       /\ WF_vars(FinishSome(r, v))
       /\ WF_vars(\E t \in TasksOf(r, v) : JoinNext(t))
       /\ WF_vars(\E t \in TasksOf(r, v) : DrainNext(t))

FairSpec == Spec /\ Fairness

-----------------------------------------------------------------------------
\* Every variable stays in the type the source declares for it.
TypeOK ==
  /\ DOMAIN owners \subseteq Owners
  /\ owners \in [DOMAIN owners -> Binding]
  /\ DOMAIN entries \subseteq Requests
  /\ entries \in [DOMAIN entries -> Entry]
  /\ tasks \subseteq Task
  /\ generation \in Nat
  /\ revision \in 0..(RevisionModulus - 1)
  /\ DOMAIN latest \subseteq Owners
  /\ latest \in [DOMAIN latest -> Update]
  /\ phase \in {"running", "draining", "stopped"}

\* The two maps agree: a bound owner is listed by the entry of its request,
\* an entry lists only owners bound to it, and no entry outlives its owners.
\* A rebinding or a release that touched one map and not the other would
\* leave a screen without data or a resource refreshed for nobody.
OwnersAndEntriesAgree ==
  /\ \A o \in DOMAIN owners :
       /\ owners[o].request \in DOMAIN entries
       /\ o \in entries[owners[o].request].owners
  /\ \A r \in DOMAIN entries :
       /\ entries[r].owners # {}
       /\ \A o \in entries[r].owners :
            o \in DOMAIN owners /\ owners[o].request = r

\* An entry that waits for its fetch (abort handle set) has exactly the task
\* of its own generation behind it, and a task nobody aborted belongs to a
\* live entry that waits for it: no fetch is leaked, none runs twice, and no
\* entry waits for a fetch that is gone.
FetchesTracked ==
  /\ \A r \in DOMAIN entries : entries[r].fetching =>
       \E t \in tasks : /\ t.request = r
                        /\ t.version = entries[r].generation
                        /\ t.status \in {"running", "ok", "failed"}
  /\ \A t \in tasks : t.status = "running" =>
       /\ t.request \in DOMAIN entries
       /\ entries[t.request].generation = t.version
       /\ entries[t.request].fetching
  /\ \A t, u \in tasks :
       t.request = u.request /\ t.version = u.version => t = u

\* What an entry shows was fetched for this very entry: the answer of a fetch
\* launched for an earlier life of the same request never lands in it.
OnlyOwnFetchLands ==
  \A r \in DOMAIN entries :
    /\ entries[r].payload \in {0, entries[r].generation}
    /\ entries[r].error \in {0, entries[r].generation}

\* Generations order the subscriptions: no two bindings share one, none is
\* newer than the counter, and an entry is at least as old as its owners.
GenerationsOrdered ==
  /\ \A o, p \in DOMAIN owners :
       owners[o].generation = owners[p].generation => o = p
  /\ \A o \in DOMAIN owners : owners[o].generation \in 1..generation
  /\ \A r \in DOMAIN entries : \A o \in entries[r].owners :
       entries[r].generation <= owners[o].generation

\* While the scheduler runs, a recovering screen reads exactly the current
\* bindings and payloads: no handler changes them without publishing.
PublishedIsCurrent ==
  phase = "running" => latest = View(owners, entries, revision)

\* The tick serves the lowest key first, so a screen whose resource is among
\* the MaxTasks lowest in demand gets a payload or an error: it is never
\* starved by the others, however often they are due again.
ServedInOrder ==
  LET Ahead(o) == {r \in DOMAIN entries : r < latest[o].request}
      Waiting(o) == o \in DOMAIN latest /\ Loading(latest[o])
  IN \A o \in Owners :
       (Waiting(o) /\ Cardinality(Ahead(o)) < MaxTasks) ~>
         (phase # "running" \/ ~Waiting(o) \/ Cardinality(Ahead(o)) >= MaxTasks)

\* After stop every fetch is joined and the scheduler task ends.
StopCompletes == (phase = "draining") ~> (phase = "stopped")
=============================================================================
