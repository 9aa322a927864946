--------------------------- MODULE LiveFeedProofs ---------------------------
(***************************************************************************)
(* Proofs about modules Subscriptions and LiveFeed.  The first part is     *)
(* about the resource scheduler alone, for every set of owners and         *)
(* requests and every value of the limits.                                 *)
(*                                                                         *)
(* The second part adds the window: the web view, the desktop commands and *)
(* the forwarder keep the invariant of the scheduler they use, every       *)
(* subscription the scheduler holds is known to a screen or given back,    *)
(* and what a settled screen shows is what the scheduler publishes.        *)
(*                                                                         *)
(* Two kinds of token go round.  An epoch is in one begin, one command or  *)
(* one answer at a time, so a screen hears once of the subscription it     *)
(* waits for.  A generation is in one answer, one screen or one unsubscribe*)
(* at a time, so what one owner gives back is not another screen's.        *)
(***************************************************************************)
EXTENDS LiveFeed, FiniteSetTheorems, SequenceTheorems, TLAPS

-----------------------------------------------------------------------------
(* The resource scheduler.                                                   *)

\* Maps with a varying key set, as TypeOK describes them.
MapOf(map, K, V) == DOMAIN map \subseteq K /\ map \in [DOMAIN map -> V]

LEMMA PutMap ==
  ASSUME NEW K, NEW V, NEW map, MapOf(map, K, V), NEW key \in K, NEW value \in V
  PROVE  /\ MapOf(Put(map, key, value), K, V)
         /\ DOMAIN Put(map, key, value) = DOMAIN map \cup {key}
         /\ Put(map, key, value)[key] = value
         /\ \A k \in DOMAIN map \ {key} : Put(map, key, value)[k] = map[k]
BY DEF MapOf, Put

LEMMA DropMap ==
  ASSUME NEW K, NEW V, NEW map, MapOf(map, K, V), NEW key
  PROVE  /\ MapOf(Drop(map, key), K, V)
         /\ DOMAIN Drop(map, key) = DOMAIN map \ {key}
         /\ \A k \in DOMAIN map \ {key} : Drop(map, key)[k] = map[k]
BY DEF MapOf, Drop

LEMMA EmptyMapType ==
  ASSUME NEW K, NEW V
  PROVE  MapOf(EmptyMap, K, V) /\ DOMAIN EmptyMap = {}
BY DEF MapOf, EmptyMap

\* The published view of well-typed maps is well typed.
LEMMA ViewType ==
  ASSUME NEW bound, MapOf(bound, Owners, Binding),
         NEW shared, MapOf(shared, Requests, Entry),
         NEW rev \in Nat
  PROVE  MapOf(View(bound, shared, rev), Owners, Update)
BY DEF MapOf, View, Binding, Entry, Update

SameButOwners(e, f) ==
  /\ e.payload = f.payload
  /\ e.error = f.error
  /\ e.due = f.due
  /\ e.fetching = f.fetching
  /\ e.generation = f.generation

\* Giving up a binding keeps the entries well typed, adds no key, and changes
\* nothing but the owner sets.
LEMMA ReleasedType ==
  ASSUME MapOf(owners, Owners, Binding), MapOf(entries, Requests, Entry), NEW o
  PROVE  /\ MapOf(Released(o), Requests, Entry)
         /\ DOMAIN Released(o) \subseteq DOMAIN entries
         /\ \A r \in DOMAIN Released(o) :
              /\ SameButOwners(Released(o)[r], entries[r])
              /\ Released(o)[r].owners \subseteq entries[r].owners
<1>1. CASE o \notin DOMAIN owners \/ owners[o].request \notin DOMAIN entries
  BY <1>1 DEF Released, MapOf, SameButOwners
<1>2. CASE o \in DOMAIN owners /\ owners[o].request \in DOMAIN entries
  <2> DEFINE r == owners[o].request
             remaining == entries[r].owners \ {o}
  <2>1. remaining \in SUBSET Owners
    BY <1>2 DEF MapOf, Entry
  <2>2. CASE remaining = {}
    BY <1>2, <2>2, DropMap DEF Released, MapOf, Drop, SameButOwners
  <2>3. CASE remaining # {}
    <3>1. Released(o) = [entries EXCEPT ![r].owners = remaining]
      BY <1>2, <2>3 DEF Released
    <3>2. DOMAIN Released(o) = DOMAIN entries
      BY <3>1
    <3>3. ASSUME NEW q \in DOMAIN entries
          PROVE  /\ Released(o)[q] \in Entry
                 /\ SameButOwners(Released(o)[q], entries[q])
                 /\ Released(o)[q].owners \subseteq entries[q].owners
      <4>1. entries[q] \in Entry
        BY DEF MapOf
      <4>2. CASE q = r
        <5>1. Released(o)[q] = [entries[q] EXCEPT !.owners = remaining]
          BY <3>1, <4>2
        <5>2. QED
          BY <2>1, <4>1, <4>2, <5>1 DEF Entry, SameButOwners
      <4>3. CASE q # r
        BY <3>1, <4>1, <4>3 DEF SameButOwners
      <4>4. QED
        BY <4>2, <4>3
    <3>4. Released(o) \in [DOMAIN Released(o) -> Entry]
      <4>1. Released(o) = [q \in DOMAIN entries |-> Released(o)[q]]
        BY <3>1, <3>2
      <4>2. QED
        BY <3>2, <3>3, <4>1
    <3>5. QED
      BY <3>2, <3>3, <3>4 DEF MapOf
  <2>4. QED
    BY <2>2, <2>3
<1>3. QED
  BY <1>1, <1>2

LEMMA AbortedType ==
  ASSUME NEW t \in Task
  PROVE  /\ Aborted(t) \in Task
         /\ Aborted(t).request = t.request
         /\ Aborted(t).version = t.version
         /\ Aborted(t).status # "running"
         /\ t.status # "running" => Aborted(t) = t
BY DEF Aborted, Task

LEMMA TasksAfterReleaseType ==
  ASSUME tasks \subseteq Task, NEW o
  PROVE  TasksAfterRelease(o) \subseteq Task
BY AbortedType DEF TasksAfterRelease

LEMMA PublishType ==
  ASSUME MapOf(owners', Owners, Binding), MapOf(entries', Requests, Entry),
         revision \in Nat, Publish
  PROVE  /\ revision' \in 0..(RevisionModulus - 1)
         /\ MapOf(latest', Owners, Update)
<1>1. revision' \in 0..(RevisionModulus - 1)
  BY LimitsAssumption DEF Publish
<1>2. revision' \in Nat
  BY <1>1, LimitsAssumption
<1>3. MapOf(View(owners', entries', revision'), Owners, Update)
  BY <1>2, ViewType
<1>4. QED
  BY <1>1, <1>3 DEF Publish

LEMMA TypeOKMaps ==
  TypeOK <=> /\ MapOf(owners, Owners, Binding)
             /\ MapOf(entries, Requests, Entry)
             /\ tasks \subseteq Task
             /\ generation \in Nat
             /\ revision \in 0..(RevisionModulus - 1)
             /\ MapOf(latest, Owners, Update)
             /\ phase \in {"running", "draining", "stopped"}
BY DEF TypeOK, MapOf

-----------------------------------------------------------------------------
LEMMA InitType == Init => TypeOK
BY EmptyMapType, LimitsAssumption, TypeOKMaps DEF Init

LEMMA SubscribeType ==
  ASSUME TypeOK, NEW o \in Owners, NEW r \in Requests, Subscribe(o, r)
  PROVE  TypeOK'
<1> DEFINE left == Released(o)
           entry == JoinedEntry(left, r)
<1>1. MapOf(left, Requests, Entry)
  BY ReleasedType, TypeOKMaps
<1>2. entry \in Entry
  BY <1>1 DEF JoinedEntry, FreshEntry, NextGeneration, Entry, MapOf, TypeOK
<1>3. [entry EXCEPT !.owners = @ \cup {o}] \in Entry
  BY <1>2 DEF Entry
<1>4. MapOf(entries', Requests, Entry)
  BY <1>1, <1>3, PutMap DEF Subscribe
<1>5. [request |-> r, generation |-> NextGeneration] \in Binding
  BY DEF Binding, NextGeneration, TypeOK
<1>6. MapOf(owners', Owners, Binding)
  BY <1>5, PutMap, TypeOKMaps DEF Subscribe
<1>7. tasks' \subseteq Task
  BY TasksAfterReleaseType DEF Subscribe, TypeOK
<1>8. generation' \in Nat /\ phase' = phase /\ Publish
  BY DEF Subscribe, NextGeneration, TypeOK
<1>9. revision \in Nat
  BY LimitsAssumption DEF TypeOK
<1>10. QED
  BY <1>4, <1>6, <1>7, <1>8, <1>9, PublishType DEF TypeOK, MapOf

LEMMA UnsubscribeType ==
  ASSUME TypeOK, NEW o \in Owners, NEW expected, Unsubscribe(o, expected)
  PROVE  TypeOK'
<1>1. MapOf(entries', Requests, Entry)
  BY ReleasedType, TypeOKMaps DEF Unsubscribe
<1>2. MapOf(owners', Owners, Binding)
  BY DropMap, TypeOKMaps DEF Unsubscribe
<1>3. tasks' \subseteq Task
  BY TasksAfterReleaseType DEF Unsubscribe, TypeOK
<1>4. generation' = generation /\ phase' = phase /\ Publish
  BY DEF Unsubscribe
<1>5. revision \in Nat
  BY LimitsAssumption DEF TypeOK
<1>6. QED
  BY <1>1, <1>2, <1>3, <1>4, <1>5, PublishType DEF TypeOK, MapOf

LEMMA TickType ==
  ASSUME TypeOK, Tick
  PROVE  TypeOK'
<1>1. PICK batch \in SUBSET Eligible :
        /\ entries' = [r \in DOMAIN entries |->
                        IF r \in batch
                        THEN [entries[r] EXCEPT !.fetching = TRUE]
                        ELSE entries[r]]
        /\ tasks' = tasks \cup
             {[request |-> r, version |-> entries[r].generation,
               status |-> "running"] : r \in batch}
  BY DEF Tick
<1>2. MapOf(entries', Requests, Entry)
  <2>1. \A r \in DOMAIN entries : r \in Requests /\ entries[r] \in Entry
    BY DEF TypeOK, MapOf
  <2>2. \A entry \in Entry : [entry EXCEPT !.fetching = TRUE] \in Entry
    BY DEF Entry
  <2>3. QED
    BY <1>1, <2>1, <2>2 DEF MapOf
<1>3. tasks' \subseteq Task
  BY <1>1 DEF TypeOK, Task, Entry, Eligible
<1>4. UNCHANGED <<owners, generation, revision, latest, phase>>
  BY DEF Tick
<1>5. QED
  BY <1>2, <1>3, <1>4 DEF TypeOK, MapOf

LEMMA JoinNextType ==
  ASSUME TypeOK, NEW t \in tasks, JoinNext(t)
  PROVE  TypeOK'
<1>1. UNCHANGED <<owners, generation, phase>> /\ tasks' \subseteq Task
  BY DEF JoinNext, TypeOK
<1>2. CASE Accepts(t)
  <2>1. Completed(entries[t.request], t) \in Entry
    <3>1. entries[t.request] \in Entry /\ t.version \in Nat
      BY <1>2 DEF Accepts, TypeOK, Task
    <3>2. QED
      BY <3>1 DEF Completed, Entry
  <2>2. MapOf(entries', Requests, Entry)
    BY <1>2, <2>1 DEF JoinNext, Accepts, TypeOK, MapOf
  <2>3. MapOf(owners', Owners, Binding) /\ Publish /\ revision \in Nat
    BY <1>1, <1>2, LimitsAssumption, TypeOKMaps DEF JoinNext, TypeOK
  <2>4. QED
    BY <1>1, <2>2, <2>3, PublishType DEF TypeOK, MapOf
<1>3. CASE ~Accepts(t)
  BY <1>1, <1>3 DEF JoinNext, TypeOK
<1>4. QED
  BY <1>2, <1>3

LEMMA NextType == TypeOK /\ [Next]_vars => TypeOK'
<1> SUFFICES ASSUME TypeOK, [Next]_vars PROVE TypeOK'
  OBVIOUS
<1>1. CASE \E o \in Owners, r \in Requests : Subscribe(o, r)
  BY <1>1, SubscribeType
<1>2. CASE \E o \in Owners, expected \in 1..generation : Unsubscribe(o, expected)
  BY <1>2, UnsubscribeType
<1>3. CASE Tick
  BY <1>3, TickType
<1>4. CASE \E t \in tasks, outcome \in {"ok", "failed", "cancelled"} :
             FinishFetch(t, outcome)
  BY <1>4 DEF FinishFetch, TypeOK, Task
<1>5. CASE \E t \in tasks : JoinNext(t)
  BY <1>5, JoinNextType
<1>6. CASE \E r \in Requests : DueElapses(r)
  <2>1. PICK r \in DOMAIN entries : entries' = [entries EXCEPT ![r].due = TRUE]
    BY <1>6 DEF DueElapses
  <2>2. entries[r] \in Entry
    BY DEF TypeOK
  <2>3. [entries[r] EXCEPT !.due = TRUE] \in Entry
    BY <2>2 DEF Entry
  <2>4. MapOf(entries', Requests, Entry)
    BY <2>1, <2>3 DEF TypeOK, MapOf
  <2>5. QED
    BY <1>6, <2>4 DEF DueElapses, TypeOK, MapOf
<1>7. CASE Stop
  <2>1. tasks' \subseteq Task
    BY <1>7, AbortedType DEF Stop, TypeOK
  <2>2. MapOf(owners', Owners, Binding) /\ MapOf(entries', Requests, Entry)
    BY <1>7, EmptyMapType DEF Stop
  <2>3. QED
    BY <1>7, <2>1, <2>2 DEF Stop, TypeOK, MapOf
<1>8. CASE \E t \in tasks : DrainNext(t)
  BY <1>8 DEF DrainNext, TypeOK
<1>9. CASE Exit
  BY <1>9 DEF Exit, TypeOK
<1>10. CASE Stopped \/ UNCHANGED vars
  BY <1>10 DEF Stopped, vars, TypeOK
<1>11. QED
  BY <1>1, <1>2, <1>3, <1>4, <1>5, <1>6, <1>7, <1>8, <1>9, <1>10 DEF Next

\* Type correctness of the scheduler.
THEOREM TypeCorrect == Spec => []TypeOK
<1>1. Init => TypeOK
  BY InitType
<1>2. TypeOK /\ [Next]_vars => TypeOK'
  BY NextType
<1>3. QED
  BY <1>1, <1>2, PTL DEF Spec
-----------------------------------------------------------------------------
\* The strengthening that makes the safety invariants inductive: versions are
\* never newer than the counter, so a version given out next is fresh; and the
\* task of a live entry's own version is awaited by it and was not aborted.
VersionsBounded ==
  /\ \A r \in DOMAIN entries : entries[r].generation \in 1..generation
  /\ \A t \in tasks : t.version \in 1..generation

LiveTasksAwaited ==
  \A t \in tasks :
    t.request \in DOMAIN entries /\ entries[t.request].generation = t.version =>
      entries[t.request].fetching /\ t.status \in {"running", "ok", "failed"}

\* After the loop the maps are gone.
MapsGone == phase # "running" => DOMAIN owners = {} /\ DOMAIN entries = {}

IInv ==
  /\ TypeOK
  /\ MapsGone
  /\ OwnersAndEntriesAgree
  /\ FetchesTracked
  /\ OnlyOwnFetchLands
  /\ GenerationsOrdered
  /\ VersionsBounded
  /\ LiveTasksAwaited

\* With the maps in agreement, a release removes the owner everywhere and
\* removes exactly the entry whose only owner it was.
LEMMA ReleasedShape ==
  ASSUME IInv, NEW o
  PROVE  /\ DOMAIN Released(o) = {r \in DOMAIN entries : entries[r].owners # {o}}
         /\ \A r \in DOMAIN Released(o) :
              /\ SameButOwners(Released(o)[r], entries[r])
              /\ Released(o)[r].owners = entries[r].owners \ {o}
<1> USE DEF IInv
<1>1. /\ MapOf(Released(o), Requests, Entry)
      /\ DOMAIN Released(o) \subseteq DOMAIN entries
      /\ \A r \in DOMAIN Released(o) : SameButOwners(Released(o)[r], entries[r])
  BY ReleasedType, TypeOKMaps
<1>2. CASE o \notin DOMAIN owners
  <2>1. Released(o) = entries
    BY <1>2 DEF Released
  <2>2. \A r \in DOMAIN entries : o \notin entries[r].owners
    BY <1>2 DEF OwnersAndEntriesAgree
  <2>3. QED
    BY <1>1, <2>1, <2>2
<1>3. CASE o \in DOMAIN owners
  <2> DEFINE q == owners[o].request
             remaining == entries[q].owners \ {o}
  <2>1. q \in DOMAIN entries /\ o \in entries[q].owners
    BY <1>3 DEF OwnersAndEntriesAgree
  <2>2. \A r \in DOMAIN entries : r # q => o \notin entries[r].owners
    BY <1>3 DEF OwnersAndEntriesAgree
  <2>3. CASE remaining = {}
    <3>1. Released(o) = Drop(entries, q)
      BY <1>3, <2>1, <2>3 DEF Released
    <3>2. entries[q].owners = {o}
      BY <2>1, <2>3
    <3>3. DOMAIN Released(o) = DOMAIN entries \ {q}
      BY <3>1 DEF Drop
    <3>4. \A r \in DOMAIN entries \ {q} : Released(o)[r] = entries[r]
      BY <3>1 DEF Drop
    <3>5. DOMAIN Released(o) = {r \in DOMAIN entries : entries[r].owners # {o}}
      BY <2>2, <3>2, <3>3
    <3>6. \A r \in DOMAIN Released(o) : Released(o)[r].owners = entries[r].owners \ {o}
      BY <2>2, <3>3, <3>4
    <3>7. QED
      BY <1>1, <3>5, <3>6
  <2>4. CASE remaining # {}
    <3>1. Released(o) = [entries EXCEPT ![q].owners = remaining]
      BY <1>3, <2>1, <2>4 DEF Released
    <3>2. DOMAIN Released(o) = DOMAIN entries
      BY <3>1
    <3>3. Released(o)[q].owners = remaining
      BY <2>1, <3>1 DEF TypeOK, Entry
    <3>4. \A r \in DOMAIN entries \ {q} : Released(o)[r] = entries[r]
      BY <3>1
    <3>5. entries[q].owners # {o}
      BY <2>4
    <3>6. \A r \in DOMAIN entries : entries[r].owners # {o}
      BY <2>2, <3>5
    <3>7. DOMAIN Released(o) = {r \in DOMAIN entries : entries[r].owners # {o}}
      BY <3>2, <3>6
    <3>8. \A r \in DOMAIN Released(o) : Released(o)[r].owners = entries[r].owners \ {o}
      BY <2>2, <3>2, <3>3, <3>4
    <3>9. QED
      BY <1>1, <3>7, <3>8
  <2>5. QED
    BY <2>3, <2>4
<1>4. QED
  BY <1>2, <1>3

\* The tasks after a release: the same fetches, and only those of the removed
\* entry aborted.
LEMMA ReleasedTasks ==
  ASSUME IInv, NEW o, NEW u \in TasksAfterRelease(o)
  PROVE  \E t \in tasks :
           /\ u.request = t.request
           /\ u.version = t.version
           /\ IF /\ t.request \in DOMAIN entries \ DOMAIN Released(o)
                 /\ entries[t.request].generation = t.version
              THEN u = Aborted(t) /\ u.status # "running" ELSE u = t
<1>1. PICK t \in tasks :
        u = IF /\ t.request \in DOMAIN entries \ DOMAIN Released(o)
               /\ entries[t.request].fetching
               /\ t.version = entries[t.request].generation
            THEN Aborted(t) ELSE t
  BY DEF TasksAfterRelease
<1>2. t \in Task
  BY DEF IInv, TypeOK
<1>3. t.request \in DOMAIN entries /\ entries[t.request].generation = t.version
        => entries[t.request].fetching
  BY DEF IInv, LiveTasksAwaited
<1>4. QED
  BY <1>1, <1>2, <1>3, AbortedType

\* The converse: a task outside the removed entry is kept as it is.
LEMMA ReleasedTasksKept ==
  ASSUME IInv, NEW o, NEW t \in tasks, t.request \in DOMAIN Released(o)
  PROVE  t \in TasksAfterRelease(o)
BY DEF TasksAfterRelease
-----------------------------------------------------------------------------
\* What a subscription does to the two maps, by key.
SubscribeEffect(o, r) ==
  /\ DOMAIN entries' = DOMAIN Released(o) \cup {r}
  /\ \A q \in DOMAIN Released(o) :
       /\ SameButOwners(entries'[q], entries[q])
       /\ entries'[q].owners =
            (entries[q].owners \ {o}) \cup (IF q = r THEN {o} ELSE {})
  /\ r \notin DOMAIN Released(o) =>
       /\ entries'[r].owners = {o}
       /\ entries'[r].generation = generation + 1
       /\ entries'[r].payload = 0 /\ entries'[r].error = 0
       /\ ~entries'[r].fetching
  /\ DOMAIN owners' = DOMAIN owners \cup {o}
  /\ owners'[o].request = r /\ owners'[o].generation = generation + 1
  /\ \A p \in DOMAIN owners : p # o => owners'[p] = owners[p]
  /\ generation' = generation + 1
  /\ tasks' = TasksAfterRelease(o)

LEMMA SubscribeShape ==
  ASSUME IInv, NEW o \in Owners, NEW r \in Requests, Subscribe(o, r)
  PROVE  SubscribeEffect(o, r)
<1> DEFINE left == Released(o)
           entry == JoinedEntry(left, r)
           joined == [entry EXCEPT !.owners = @ \cup {o}]
<1>1. MapOf(left, Requests, Entry)
  BY ReleasedType, TypeOKMaps DEF IInv
<1>2. entry \in Entry
  BY <1>1 DEF JoinedEntry, FreshEntry, NextGeneration, Entry, MapOf, IInv, TypeOK
<1>3. joined \in Entry
  BY <1>2 DEF Entry
<1>4. SameButOwners(joined, entry) /\ joined.owners = entry.owners \cup {o}
  BY <1>2 DEF Entry, SameButOwners
<1>5. /\ DOMAIN entries' = DOMAIN left \cup {r}
      /\ entries'[r] = joined
      /\ \A q \in DOMAIN left \ {r} : entries'[q] = left[q]
  <2>1. entries' = Put(left, r, joined)
    BY DEF Subscribe
  <2> HIDE DEF left, entry, joined
  <2>2. /\ DOMAIN Put(left, r, joined) = DOMAIN left \cup {r}
        /\ Put(left, r, joined)[r] = joined
        /\ \A q \in DOMAIN left \ {r} : Put(left, r, joined)[q] = left[q]
    BY DEF Put
  <2>3. QED
    BY <2>1, <2>2
<1>6. \A q \in DOMAIN left : /\ SameButOwners(left[q], entries[q])
                             /\ left[q].owners = entries[q].owners \ {o}
  BY ReleasedShape
<1>7. ASSUME NEW q \in DOMAIN left
      PROVE  /\ SameButOwners(entries'[q], entries[q])
             /\ entries'[q].owners =
                  (entries[q].owners \ {o}) \cup (IF q = r THEN {o} ELSE {})
  <2>1. CASE q = r
    <3>1. entry = left[r]
      BY <2>1 DEF JoinedEntry
    <3>2. /\ SameButOwners(joined, left[q]) /\ joined.owners = left[q].owners \cup {o}
          /\ SameButOwners(left[q], entries[q])
          /\ left[q].owners = entries[q].owners \ {o}
      BY <1>4, <1>6, <2>1, <3>1
    <3>3. entries'[q] = joined
      BY <1>5, <2>1
    <3>4. QED
      BY <2>1, <3>2, <3>3, Zenon DEF SameButOwners
  <2>2. CASE q # r
    BY <1>5, <1>6, <2>2
  <2>3. QED
    BY <2>1, <2>2
<1>8. ASSUME r \notin DOMAIN left
      PROVE  /\ entries'[r].owners = {o}
             /\ entries'[r].generation = generation + 1
             /\ entries'[r].payload = 0 /\ entries'[r].error = 0
             /\ ~entries'[r].fetching
  <2>1. entry = FreshEntry(generation + 1)
    BY <1>8 DEF JoinedEntry, NextGeneration
  <2>2. QED
    BY <1>4, <1>5, <2>1 DEF FreshEntry, SameButOwners
<1>9. [request |-> r, generation |-> generation + 1] \in Binding
  BY DEF Binding, IInv, TypeOK
<1>10. /\ DOMAIN owners' = DOMAIN owners \cup {o}
       /\ owners'[o] = [request |-> r, generation |-> generation + 1]
       /\ \A p \in DOMAIN owners \ {o} : owners'[p] = owners[p]
  <2>1. owners' = Put(owners, o, [request |-> r, generation |-> generation + 1])
    BY DEF Subscribe, NextGeneration
  <2>2. MapOf(owners, Owners, Binding)
    BY TypeOKMaps DEF IInv
  <2>3. QED
    BY <1>9, <2>1, <2>2, PutMap
<1>11. generation' = generation + 1 /\ tasks' = TasksAfterRelease(o)
  BY DEF Subscribe, NextGeneration
<1>12. QED
  BY <1>5, <1>7, <1>8, <1>10, <1>11 DEF SubscribeEffect

LEMMA SubscribeInv ==
  ASSUME IInv, NEW o \in Owners, NEW r \in Requests, Subscribe(o, r)
  PROVE  IInv'
<1> DEFINE left == Released(o)
<1>0. SubscribeEffect(o, r)
  BY SubscribeShape
<1>1. TypeOK'
  BY SubscribeType DEF IInv
<1>2. /\ generation \in Nat /\ tasks \subseteq Task
      /\ \A p \in DOMAIN owners : owners[p].generation \in Nat
      /\ \A q \in DOMAIN entries : entries[q].generation \in Nat
  BY DEF IInv, TypeOK, Binding, Entry
<1>3. DOMAIN left = {q \in DOMAIN entries : entries[q].owners # {o}}
  BY ReleasedShape
<1>4. OwnersAndEntriesAgree'
  <2>1. ASSUME NEW p \in DOMAIN owners'
        PROVE  /\ owners'[p].request \in DOMAIN entries'
               /\ p \in entries'[owners'[p].request].owners
    <3>1. CASE p = o
      BY <3>1, <1>0 DEF SubscribeEffect
    <3>2. CASE p # o
      <4>1. p \in DOMAIN owners /\ owners'[p] = owners[p]
        BY <3>2, <1>0 DEF SubscribeEffect
      <4>2. /\ owners[p].request \in DOMAIN entries
            /\ p \in entries[owners[p].request].owners
        BY <4>1 DEF IInv, OwnersAndEntriesAgree
      <4>3. owners[p].request \in DOMAIN left
        BY <1>3, <3>2, <4>2
      <4>4. QED
        BY <3>2, <4>1, <4>2, <4>3, <1>0 DEF SubscribeEffect
    <3>3. QED
      BY <3>1, <3>2
  <2>2. ASSUME NEW q \in DOMAIN entries'
        PROVE  /\ entries'[q].owners # {}
               /\ \A p \in entries'[q].owners :
                    p \in DOMAIN owners' /\ owners'[p].request = q
    <3>1. CASE q \in DOMAIN left
      <4>1. entries'[q].owners =
              (entries[q].owners \ {o}) \cup (IF q = r THEN {o} ELSE {})
        BY <3>1, <1>0 DEF SubscribeEffect
      <4>2. q \in DOMAIN entries /\ entries[q].owners # {o}
        BY <1>3, <3>1
      <4>3. /\ entries[q].owners # {}
            /\ \A p \in entries[q].owners :
                 p \in DOMAIN owners /\ owners[p].request = q
        BY <4>2 DEF IInv, OwnersAndEntriesAgree
      <4>4. \A p \in entries[q].owners \ {o} :
              p \in DOMAIN owners' /\ owners'[p].request = q
        BY <4>3, <1>0 DEF SubscribeEffect
      <4>5. o \in DOMAIN owners' /\ owners'[o].request = r
        BY <1>0 DEF SubscribeEffect
      <4>6. QED
        BY <4>1, <4>2, <4>3, <4>4, <4>5
    <3>2. CASE q \notin DOMAIN left
      BY <3>2, <1>0 DEF SubscribeEffect
    <3>3. QED
      BY <3>1, <3>2
  <2>3. QED
    BY <2>1, <2>2 DEF OwnersAndEntriesAgree
<1>5. VersionsBounded'
  <2>1. \A q \in DOMAIN entries' : entries'[q].generation \in 1..generation'
    BY <1>2, <1>3, <1>0 DEF SubscribeEffect, IInv, VersionsBounded, SameButOwners
  <2>2. \A u \in tasks' : u.version \in 1..generation'
    BY <1>2, ReleasedTasks, <1>0 DEF SubscribeEffect, IInv, VersionsBounded
  <2>3. QED
    BY <2>1, <2>2 DEF VersionsBounded
<1>6. ASSUME NEW u \in tasks', u.request \in DOMAIN entries',
             entries'[u.request].generation = u.version
      PROVE  /\ u \in tasks
             /\ u.request \in DOMAIN left
             /\ entries[u.request].generation = u.version
  \* A fresh entry has a version no task carries, so u's entry survived.
  <2>1. PICK t \in tasks :
          /\ u.request = t.request
          /\ u.version = t.version
          /\ IF /\ t.request \in DOMAIN entries \ DOMAIN left
                /\ entries[t.request].generation = t.version
             THEN u = Aborted(t) /\ u.status # "running" ELSE u = t
    BY ReleasedTasks, <1>0 DEF SubscribeEffect
  <2>2. t.version <= generation
    BY <1>2 DEF IInv, VersionsBounded
  <2>3. u.request \in DOMAIN left
    <3>1. SUFFICES ASSUME u.request \notin DOMAIN left PROVE FALSE
      OBVIOUS
    <3>2. u.request = r /\ entries'[r].generation = generation + 1
      BY <1>6, <3>1, <1>0 DEF SubscribeEffect
    <3>3. QED
      BY <1>2, <1>6, <2>1, <2>2, <3>2
  <2>4. QED
    BY <1>6, <2>1, <2>3, <1>0 DEF SubscribeEffect, SameButOwners
<1>7. LiveTasksAwaited'
  <2> SUFFICES ASSUME NEW u \in tasks', u.request \in DOMAIN entries',
                      entries'[u.request].generation = u.version
               PROVE  /\ entries'[u.request].fetching
                      /\ u.status \in {"running", "ok", "failed"}
    BY DEF LiveTasksAwaited
  <2>1. /\ u \in tasks
        /\ u.request \in DOMAIN left
        /\ entries[u.request].generation = u.version
    BY <1>6
  <2>2. entries[u.request].fetching /\ u.status \in {"running", "ok", "failed"}
    BY <1>3, <2>1 DEF IInv, LiveTasksAwaited
  <2>3. QED
    BY <2>1, <2>2, <1>0 DEF SubscribeEffect, SameButOwners
<1>8. FetchesTracked'
  <2>1. ASSUME NEW q \in DOMAIN entries', entries'[q].fetching
        PROVE  \E t \in tasks' : /\ t.request = q
                                 /\ t.version = entries'[q].generation
                                 /\ t.status \in {"running", "ok", "failed"}
    <3>1. q \in DOMAIN left
      BY <2>1, <1>0 DEF SubscribeEffect
    <3>2. SameButOwners(entries'[q], entries[q]) /\ q \in DOMAIN entries
      BY <1>3, <3>1, <1>0 DEF SubscribeEffect
    <3>3. PICK t \in tasks : /\ t.request = q
                             /\ t.version = entries[q].generation
                             /\ t.status \in {"running", "ok", "failed"}
      BY <2>1, <3>2 DEF IInv, FetchesTracked, SameButOwners
    <3>4. t \in tasks'
      BY <3>1, <3>3, ReleasedTasksKept, <1>0 DEF SubscribeEffect
    <3>5. QED
      BY <3>2, <3>3, <3>4 DEF SameButOwners
  <2>2. ASSUME NEW u \in tasks', u.status = "running"
        PROVE  /\ u.request \in DOMAIN entries'
               /\ entries'[u.request].generation = u.version
               /\ entries'[u.request].fetching
    <3>1. PICK t \in tasks :
            /\ u.request = t.request
            /\ u.version = t.version
            /\ IF /\ t.request \in DOMAIN entries \ DOMAIN left
                  /\ entries[t.request].generation = t.version
               THEN u = Aborted(t) /\ u.status # "running" ELSE u = t
      BY ReleasedTasks, <1>0 DEF SubscribeEffect
    <3>2. /\ u.request \in DOMAIN entries
          /\ entries[u.request].generation = u.version
          /\ entries[u.request].fetching
      BY <2>2, <3>1 DEF IInv, FetchesTracked
    <3>3. u.request \in DOMAIN left
      BY <2>2, <3>1, <3>2
    <3>4. QED
      BY <3>2, <3>3, <1>0 DEF SubscribeEffect, SameButOwners
  <2>3. ASSUME NEW u \in tasks', NEW w \in tasks',
               u.request = w.request, u.version = w.version
        PROVE  u = w
    BY <2>3, ReleasedTasks, <1>0 DEF SubscribeEffect, IInv, FetchesTracked
  <2>4. QED
    BY <2>1, <2>2, <2>3 DEF FetchesTracked
<1>9. OnlyOwnFetchLands'
  BY <1>3, <1>0 DEF SubscribeEffect, IInv, OnlyOwnFetchLands, SameButOwners
<1>10. GenerationsOrdered'
  <2>1. \A p, q \in DOMAIN owners' :
          owners'[p].generation = owners'[q].generation => p = q
    BY <1>2, <1>0 DEF SubscribeEffect, IInv, GenerationsOrdered
  <2>2. \A p \in DOMAIN owners' : owners'[p].generation \in 1..generation'
    BY <1>2, <1>0 DEF SubscribeEffect, IInv, GenerationsOrdered
  <2>3. ASSUME NEW q \in DOMAIN entries', NEW p \in entries'[q].owners
        PROVE  entries'[q].generation <= owners'[p].generation
    <3>1. p \in DOMAIN owners'
      BY <1>4 DEF OwnersAndEntriesAgree
    <3>2. CASE p = o
      <4>1. entries'[q].generation \in 1..generation'
        BY <1>5 DEF VersionsBounded
      <4>2. QED
        BY <1>2, <3>2, <4>1, <1>0 DEF SubscribeEffect
    <3>3. CASE p # o
      <4>1. q \in DOMAIN left /\ p \in entries[q].owners
        BY <3>3, <1>0 DEF SubscribeEffect
      <4>2. p \in DOMAIN owners
        BY <3>1, <3>3, <1>0 DEF SubscribeEffect
      <4>3. entries[q].generation <= owners[p].generation
        BY <1>3, <4>1 DEF IInv, GenerationsOrdered
      <4>4. QED
        BY <3>3, <4>1, <4>2, <4>3, <1>0 DEF SubscribeEffect, SameButOwners
    <3>4. QED
      BY <3>2, <3>3
  <2>4. QED
    BY <2>1, <2>2, <2>3 DEF GenerationsOrdered
<1>11. QED
  BY <1>1, <1>4, <1>5, <1>7, <1>8, <1>9, <1>10 DEF IInv, MapsGone, Subscribe
\* What a release by command does to the two maps, by key.
UnsubscribeEffect(o) ==
  /\ DOMAIN entries' = DOMAIN Released(o)
  /\ \A q \in DOMAIN Released(o) :
       /\ SameButOwners(entries'[q], entries[q])
       /\ entries'[q].owners = entries[q].owners \ {o}
  /\ DOMAIN owners' = DOMAIN owners \ {o}
  /\ \A p \in DOMAIN owners \ {o} : owners'[p] = owners[p]
  /\ generation' = generation
  /\ tasks' = TasksAfterRelease(o)

LEMMA UnsubscribeShape ==
  ASSUME IInv, NEW o \in Owners, NEW expected, Unsubscribe(o, expected)
  PROVE  UnsubscribeEffect(o)
<1>1. entries' = Released(o) /\ owners' = Drop(owners, o)
  BY DEF Unsubscribe
<1>2. /\ DOMAIN owners' = DOMAIN owners \ {o}
      /\ \A p \in DOMAIN owners \ {o} : owners'[p] = owners[p]
  BY <1>1 DEF Drop
<1>3. generation' = generation /\ tasks' = TasksAfterRelease(o)
  BY DEF Unsubscribe
<1>4. QED
  BY <1>1, <1>2, <1>3, ReleasedShape DEF UnsubscribeEffect

LEMMA UnsubscribeInv ==
  ASSUME IInv, NEW o \in Owners, NEW expected, Unsubscribe(o, expected)
  PROVE  IInv'
<1> DEFINE left == Released(o)
<1>0. UnsubscribeEffect(o)
  BY UnsubscribeShape
<1>1. TypeOK'
  BY UnsubscribeType DEF IInv
<1>2. DOMAIN left = {q \in DOMAIN entries : entries[q].owners # {o}}
  BY ReleasedShape
<1>3. OwnersAndEntriesAgree'
  <2>1. ASSUME NEW p \in DOMAIN owners'
        PROVE  /\ owners'[p].request \in DOMAIN entries'
               /\ p \in entries'[owners'[p].request].owners
    <3>1. p \in DOMAIN owners /\ p # o /\ owners'[p] = owners[p]
      BY <1>0 DEF UnsubscribeEffect
    <3>2. /\ owners[p].request \in DOMAIN entries
          /\ p \in entries[owners[p].request].owners
      BY <3>1 DEF IInv, OwnersAndEntriesAgree
    <3>3. owners[p].request \in DOMAIN left
      BY <1>2, <3>1, <3>2
    <3>4. QED
      BY <1>0, <3>1, <3>2, <3>3 DEF UnsubscribeEffect
  <2>2. ASSUME NEW q \in DOMAIN entries'
        PROVE  /\ entries'[q].owners # {}
               /\ \A p \in entries'[q].owners :
                    p \in DOMAIN owners' /\ owners'[p].request = q
    <3>1. /\ q \in DOMAIN entries /\ entries[q].owners # {o}
          /\ entries'[q].owners = entries[q].owners \ {o}
      BY <1>0, <1>2 DEF UnsubscribeEffect
    <3>2. /\ entries[q].owners # {}
          /\ \A p \in entries[q].owners :
               p \in DOMAIN owners /\ owners[p].request = q
      BY <3>1 DEF IInv, OwnersAndEntriesAgree
    <3>3. QED
      BY <1>0, <3>1, <3>2 DEF UnsubscribeEffect
  <2>3. QED
    BY <2>1, <2>2 DEF OwnersAndEntriesAgree
<1>4. VersionsBounded'
  <2>1. \A q \in DOMAIN entries' : entries'[q].generation \in 1..generation'
    BY <1>0, <1>2 DEF UnsubscribeEffect, IInv, VersionsBounded, SameButOwners
  <2>2. \A u \in tasks' : u.version \in 1..generation'
    BY <1>0, ReleasedTasks DEF UnsubscribeEffect, IInv, VersionsBounded
  <2>3. QED
    BY <2>1, <2>2 DEF VersionsBounded
<1>5. LiveTasksAwaited'
  <2> SUFFICES ASSUME NEW u \in tasks', u.request \in DOMAIN entries',
                      entries'[u.request].generation = u.version
               PROVE  /\ entries'[u.request].fetching
                      /\ u.status \in {"running", "ok", "failed"}
    BY DEF LiveTasksAwaited
  <2>1. u.request \in DOMAIN left
    BY <1>0 DEF UnsubscribeEffect
  <2>2. u \in tasks
    BY <1>0, <2>1, ReleasedTasks DEF UnsubscribeEffect
  <2>3. SameButOwners(entries'[u.request], entries[u.request])
    BY <1>0, <2>1 DEF UnsubscribeEffect
  <2>4. entries[u.request].fetching /\ u.status \in {"running", "ok", "failed"}
    BY <1>2, <2>1, <2>2, <2>3 DEF IInv, LiveTasksAwaited, SameButOwners
  <2>5. QED
    BY <2>3, <2>4 DEF SameButOwners
<1>6. FetchesTracked'
  <2>1. ASSUME NEW q \in DOMAIN entries', entries'[q].fetching
        PROVE  \E t \in tasks' : /\ t.request = q
                                 /\ t.version = entries'[q].generation
                                 /\ t.status \in {"running", "ok", "failed"}
    <3>1. q \in DOMAIN left /\ SameButOwners(entries'[q], entries[q])
      BY <1>0, <2>1 DEF UnsubscribeEffect
    <3>2. PICK t \in tasks : /\ t.request = q
                             /\ t.version = entries[q].generation
                             /\ t.status \in {"running", "ok", "failed"}
      BY <1>2, <2>1, <3>1 DEF IInv, FetchesTracked, SameButOwners
    <3>3. t \in tasks'
      BY <1>0, <3>1, <3>2, ReleasedTasksKept DEF UnsubscribeEffect
    <3>4. QED
      BY <3>1, <3>2, <3>3 DEF SameButOwners
  <2>2. ASSUME NEW u \in tasks', u.status = "running"
        PROVE  /\ u.request \in DOMAIN entries'
               /\ entries'[u.request].generation = u.version
               /\ entries'[u.request].fetching
    <3>1. PICK t \in tasks :
            /\ u.request = t.request
            /\ u.version = t.version
            /\ IF /\ t.request \in DOMAIN entries \ DOMAIN left
                  /\ entries[t.request].generation = t.version
               THEN u = Aborted(t) /\ u.status # "running" ELSE u = t
      BY <1>0, ReleasedTasks DEF UnsubscribeEffect
    <3>2. /\ u.request \in DOMAIN entries
          /\ entries[u.request].generation = u.version
          /\ entries[u.request].fetching
      BY <2>2, <3>1 DEF IInv, FetchesTracked
    <3>3. u.request \in DOMAIN left
      BY <2>2, <3>1, <3>2
    <3>4. QED
      BY <1>0, <3>2, <3>3 DEF UnsubscribeEffect, SameButOwners
  <2>3. ASSUME NEW u \in tasks', NEW w \in tasks',
               u.request = w.request, u.version = w.version
        PROVE  u = w
    BY <1>0, <2>3, ReleasedTasks DEF UnsubscribeEffect, IInv, FetchesTracked
  <2>4. QED
    BY <2>1, <2>2, <2>3 DEF FetchesTracked
<1>7. OnlyOwnFetchLands'
  BY <1>0, <1>2 DEF UnsubscribeEffect, IInv, OnlyOwnFetchLands, SameButOwners
<1>8. GenerationsOrdered'
  <2>1. \A q \in DOMAIN entries' : \A p \in entries'[q].owners :
          entries'[q].generation <= owners'[p].generation
    <3> SUFFICES ASSUME NEW q \in DOMAIN entries', NEW p \in entries'[q].owners
                 PROVE  entries'[q].generation <= owners'[p].generation
      OBVIOUS
    <3>1. q \in DOMAIN entries /\ p \in entries[q].owners /\ p # o
      BY <1>0, <1>2 DEF UnsubscribeEffect
    <3>2. p \in DOMAIN owners /\ entries[q].generation <= owners[p].generation
      BY <3>1 DEF IInv, OwnersAndEntriesAgree, GenerationsOrdered
    <3>3. QED
      BY <1>0, <3>1, <3>2 DEF UnsubscribeEffect, SameButOwners
  <2>2. QED
    BY <1>0, <2>1 DEF UnsubscribeEffect, IInv, GenerationsOrdered
<1>9. QED
  BY <1>1, <1>3, <1>4, <1>5, <1>6, <1>7, <1>8 DEF IInv, MapsGone, Unsubscribe
-----------------------------------------------------------------------------
LEMMA TickInv ==
  ASSUME IInv, Tick
  PROVE  IInv'
<1>1. PICK batch \in SUBSET Eligible :
        /\ entries' = [r \in DOMAIN entries |->
                        IF r \in batch
                        THEN [entries[r] EXCEPT !.fetching = TRUE]
                        ELSE entries[r]]
        /\ tasks' = tasks \cup
             {[request |-> r, version |-> entries[r].generation,
               status |-> "running"] : r \in batch}
  BY DEF Tick
<1>2. TypeOK' /\ UNCHANGED <<owners, generation>>
  BY TickType DEF IInv, Tick
<1>3. /\ DOMAIN entries' = DOMAIN entries
      /\ \A r \in DOMAIN entries :
           /\ entries'[r].owners = entries[r].owners
           /\ entries'[r].payload = entries[r].payload
           /\ entries'[r].error = entries[r].error
           /\ entries'[r].generation = entries[r].generation
           /\ entries'[r].fetching = IF r \in batch THEN TRUE ELSE entries[r].fetching
  BY <1>1 DEF IInv, TypeOK, Entry
<1>4. \A r \in batch : /\ r \in DOMAIN entries
                       /\ ~entries[r].fetching
                       /\ \A t \in tasks :
                            t.request = r => t.version # entries[r].generation
  BY DEF Eligible, IInv, LiveTasksAwaited
<1>5. \A t \in tasks' :
        \/ t \in tasks
        \/ /\ t.request \in batch
           /\ t.version = entries[t.request].generation
           /\ t.status = "running"
  BY <1>1
<1>6. OwnersAndEntriesAgree'
  <2>1. /\ owners' = owners /\ DOMAIN entries' = DOMAIN entries
        /\ \A r \in DOMAIN entries : entries'[r].owners = entries[r].owners
    BY <1>2, <1>3
  <2>2. QED
    BY <2>1, Zenon DEF IInv, OwnersAndEntriesAgree
<1>7. VersionsBounded'
  BY <1>2, <1>3, <1>4, <1>5 DEF IInv, VersionsBounded
<1>8. LiveTasksAwaited'
  BY <1>3, <1>4, <1>5 DEF IInv, LiveTasksAwaited
<1>9. FetchesTracked'
  <2>1. ASSUME NEW q \in DOMAIN entries', entries'[q].fetching
        PROVE  \E t \in tasks' : /\ t.request = q
                                 /\ t.version = entries'[q].generation
                                 /\ t.status \in {"running", "ok", "failed"}
    <3>1. CASE q \in batch
      <4> DEFINE t == [request |-> q, version |-> entries[q].generation,
                       status |-> "running"]
      <4>1. t \in tasks'
        BY <1>1, <3>1
      <4>2. QED
        BY <1>3, <1>4, <3>1, <4>1
    <3>2. CASE q \notin batch
      BY <1>1, <1>3, <2>1, <3>2 DEF IInv, FetchesTracked
    <3>3. QED
      BY <3>1, <3>2
  <2>2. \A t \in tasks' : t.status = "running" =>
          /\ t.request \in DOMAIN entries'
          /\ entries'[t.request].generation = t.version
          /\ entries'[t.request].fetching
    <3>1. ASSUME NEW t \in tasks, t.status = "running"
          PROVE  /\ t.request \in DOMAIN entries
                 /\ entries[t.request].generation = t.version
                 /\ entries[t.request].fetching
      BY <3>1 DEF IInv, FetchesTracked
    <3>2. ASSUME NEW t \in tasks', t \notin tasks
          PROVE  t.request \in batch /\ t.version = entries[t.request].generation
      BY <1>5, <3>2
    <3>3. QED
      BY <1>3, <1>4, <3>1, <3>2
  <2>3. \A t, u \in tasks' :
          t.request = u.request /\ t.version = u.version => t = u
    BY <1>1, <1>4 DEF IInv, FetchesTracked
  <2>4. QED
    BY <2>1, <2>2, <2>3 DEF FetchesTracked
<1>10. OnlyOwnFetchLands'
  BY <1>3 DEF IInv, OnlyOwnFetchLands
<1>11. GenerationsOrdered'
  BY <1>2, <1>3 DEF IInv, GenerationsOrdered
<1>12. QED
  BY <1>2, <1>6, <1>7, <1>8, <1>9, <1>10, <1>11 DEF IInv, MapsGone, Tick

LEMMA FinishFetchInv ==
  ASSUME IInv, NEW t \in tasks, NEW outcome \in {"ok", "failed", "cancelled"},
         FinishFetch(t, outcome)
  PROVE  IInv'
<1> DEFINE u == [t EXCEPT !.status = outcome]
<1>1. t \in Task
  BY DEF IInv, TypeOK
<1>2. /\ u.request = t.request /\ u.version = t.version /\ u.status = outcome
      /\ u \in Task
  BY <1>1 DEF Task
<1>3. tasks' = (tasks \ {t}) \cup {u}
  BY DEF FinishFetch
<1>4. UNCHANGED <<owners, entries, generation, revision, latest, phase>>
  BY DEF FinishFetch
<1>5. t.status = "running" => outcome \in {"ok", "failed"}
  BY DEF FinishFetch
<1>6. t.status \in {"running", "aborted"}
  BY DEF FinishFetch
<1> HIDE DEF u
<1>7. TypeOK'
  BY <1>2, <1>3, <1>4 DEF IInv, TypeOK
<1>8. VersionsBounded' /\ OwnersAndEntriesAgree' /\ OnlyOwnFetchLands'
        /\ GenerationsOrdered'
  BY <1>2, <1>3, <1>4 DEF IInv, VersionsBounded, OwnersAndEntriesAgree,
       OnlyOwnFetchLands, GenerationsOrdered
<1>9. LiveTasksAwaited'
  BY <1>2, <1>3, <1>4, <1>5, <1>6 DEF IInv, LiveTasksAwaited
<1>10. FetchesTracked'
  <2>1. \A r \in DOMAIN entries : entries[r].fetching =>
          \E w \in tasks' : /\ w.request = r
                            /\ w.version = entries[r].generation
                            /\ w.status \in {"running", "ok", "failed"}
    BY <1>2, <1>3, <1>5, <1>6 DEF IInv, FetchesTracked
  <2>2. \A w \in tasks' : w.status = "running" =>
          /\ w.request \in DOMAIN entries
          /\ entries[w.request].generation = w.version
          /\ entries[w.request].fetching
    BY <1>2, <1>3 DEF IInv, FetchesTracked
  <2>3. \A w, x \in tasks' :
          w.request = x.request /\ w.version = x.version => w = x
    BY <1>2, <1>3 DEF IInv, FetchesTracked
  <2>4. QED
    BY <1>4, <2>1, <2>2, <2>3 DEF FetchesTracked
<1>11. QED
  BY <1>4, <1>7, <1>8, <1>9, <1>10 DEF IInv, MapsGone

LEMMA JoinNextInv ==
  ASSUME IInv, NEW t \in tasks, JoinNext(t)
  PROVE  IInv'
<1>1. TypeOK' /\ UNCHANGED <<owners, generation>> /\ tasks' = tasks \ {t}
  BY JoinNextType DEF IInv, JoinNext
<1>2. t.status \in {"ok", "failed", "cancelled"}
  BY DEF JoinNext, Finished
<1>3. CASE Accepts(t)
  <2> DEFINE r == t.request
  <2>1. r \in DOMAIN entries /\ entries[r].generation = t.version
    BY <1>3 DEF Accepts
  <2>2. entries' = [entries EXCEPT ![r] = Completed(@, t)]
    BY <1>3 DEF JoinNext
  <2>3. entries[r] \in Entry
    BY <2>1 DEF IInv, TypeOK
  <2>4. /\ DOMAIN entries' = DOMAIN entries
        /\ \A q \in DOMAIN entries : q # r => entries'[q] = entries[q]
        /\ entries'[r] = Completed(entries[r], t)
    BY <2>1, <2>2
  <2>5. /\ entries'[r].owners = entries[r].owners
        /\ entries'[r].generation = entries[r].generation
        /\ ~entries'[r].fetching
        /\ entries'[r].payload \in {entries[r].payload, t.version}
        /\ entries'[r].error \in {0, t.version}
    BY <2>3, <2>4 DEF Completed, Entry
  <2>6. \A u \in tasks' : u.request = r => u.version # t.version
    BY <1>1 DEF IInv, FetchesTracked
  <2>7. OwnersAndEntriesAgree'
    BY <1>1, <2>1, <2>4, <2>5 DEF IInv, OwnersAndEntriesAgree
  <2>8. VersionsBounded'
    BY <1>1, <2>1, <2>4, <2>5 DEF IInv, VersionsBounded
  <2>9. LiveTasksAwaited'
    BY <1>1, <2>1, <2>4, <2>5, <2>6 DEF IInv, LiveTasksAwaited
  <2>10. FetchesTracked'
    <3>1. \A q \in DOMAIN entries' : entries'[q].fetching =>
            \E w \in tasks' : /\ w.request = q
                              /\ w.version = entries'[q].generation
                              /\ w.status \in {"running", "ok", "failed"}
      <4> SUFFICES ASSUME NEW q \in DOMAIN entries', entries'[q].fetching
                   PROVE  \E w \in tasks' :
                            /\ w.request = q
                            /\ w.version = entries'[q].generation
                            /\ w.status \in {"running", "ok", "failed"}
        OBVIOUS
      <4>1. q # r /\ q \in DOMAIN entries /\ entries'[q] = entries[q]
        BY <2>4, <2>5
      <4>2. QED
        BY <1>1, <4>1 DEF IInv, FetchesTracked
    <3>2. \A u \in tasks' : u.status = "running" =>
            /\ u.request \in DOMAIN entries'
            /\ entries'[u.request].generation = u.version
            /\ entries'[u.request].fetching
      BY <1>1, <2>1, <2>4, <2>6 DEF IInv, FetchesTracked
    <3>3. QED
      BY <1>1, <3>1, <3>2 DEF IInv, FetchesTracked
  <2>11. OnlyOwnFetchLands'
    BY <2>1, <2>4, <2>5 DEF IInv, OnlyOwnFetchLands
  <2>12. GenerationsOrdered'
    BY <1>1, <2>1, <2>4, <2>5 DEF IInv, GenerationsOrdered
  <2>13. QED
    BY <1>1, <2>7, <2>8, <2>9, <2>10, <2>11, <2>12 DEF IInv, MapsGone, JoinNext
<1>4. CASE ~Accepts(t)
  <2>1. UNCHANGED entries
    BY <1>4 DEF JoinNext
  <2>2. ~(t.request \in DOMAIN entries /\ entries[t.request].generation = t.version)
    BY <1>2, <1>4 DEF Accepts, IInv, LiveTasksAwaited
  <2>3. FetchesTracked'
    BY <1>1, <2>1, <2>2 DEF IInv, FetchesTracked
  <2>4. QED
    BY <1>1, <2>1, <2>3 DEF IInv, OwnersAndEntriesAgree, OnlyOwnFetchLands,
         GenerationsOrdered, VersionsBounded, LiveTasksAwaited, MapsGone,
         JoinNext
<1>5. QED
  BY <1>3, <1>4

LEMMA DueElapsesInv ==
  ASSUME IInv, NEW r \in Requests, DueElapses(r)
  PROVE  IInv'
<1>1. TypeOK'
  BY NextType DEF IInv, Next
<1>2. UNCHANGED <<owners, tasks, generation>>
  BY DEF DueElapses
<1>3. /\ DOMAIN entries' = DOMAIN entries
      /\ \A q \in DOMAIN entries :
           /\ entries'[q].owners = entries[q].owners
           /\ entries'[q].payload = entries[q].payload
           /\ entries'[q].error = entries[q].error
           /\ entries'[q].generation = entries[q].generation
           /\ entries'[q].fetching = entries[q].fetching
  BY DEF DueElapses, IInv, TypeOK, Entry
<1>4. QED
  BY <1>1, <1>2, <1>3 DEF IInv, OwnersAndEntriesAgree, FetchesTracked,
       OnlyOwnFetchLands, GenerationsOrdered, VersionsBounded, LiveTasksAwaited, MapsGone, DueElapses

LEMMA StopInv ==
  ASSUME IInv, Stop
  PROVE  IInv'
<1>1. TypeOK'
  BY NextType DEF IInv, Next
<1>2. DOMAIN owners' = {} /\ DOMAIN entries' = {} /\ generation' = generation
  BY EmptyMapType DEF Stop
<1>3. \A u \in tasks' : \E t \in tasks :
        u = Aborted(t) /\ u.request = t.request /\ u.version = t.version
          /\ u.status # "running"
  BY AbortedType DEF Stop, IInv, TypeOK
<1>4. FetchesTracked'
  BY <1>2, <1>3 DEF IInv, FetchesTracked
<1>5. VersionsBounded'
  BY <1>2, <1>3 DEF IInv, VersionsBounded
<1>6. QED
  BY <1>1, <1>2, <1>4, <1>5 DEF IInv, OwnersAndEntriesAgree,
       OnlyOwnFetchLands, GenerationsOrdered, LiveTasksAwaited, MapsGone

LEMMA InitInv == Init => IInv
<1> SUFFICES ASSUME Init PROVE IInv
  OBVIOUS
<1>1. DOMAIN owners = {} /\ DOMAIN entries = {} /\ tasks = {}
  BY EmptyMapType DEF Init
<1>2. QED
  BY <1>1, InitType DEF IInv, OwnersAndEntriesAgree, FetchesTracked,
       OnlyOwnFetchLands, GenerationsOrdered, VersionsBounded, LiveTasksAwaited, MapsGone

LEMMA NextInv == IInv /\ [Next]_vars => IInv'
<1> SUFFICES ASSUME IInv, [Next]_vars PROVE IInv'
  OBVIOUS
<1>0. TypeOK'
  BY NextType DEF IInv
<1>1. CASE \E o \in Owners, r \in Requests : Subscribe(o, r)
  BY <1>1, SubscribeInv
<1>2. CASE \E o \in Owners, expected \in 1..generation : Unsubscribe(o, expected)
  BY <1>2, UnsubscribeInv
<1>3. CASE Tick
  BY <1>3, TickInv
<1>4. CASE \E t \in tasks, outcome \in {"ok", "failed", "cancelled"} :
             FinishFetch(t, outcome)
  BY <1>4, FinishFetchInv
<1>5. CASE \E t \in tasks : JoinNext(t)
  BY <1>5, JoinNextInv
<1>6. CASE \E r \in Requests : DueElapses(r)
  BY <1>6, DueElapsesInv
<1>7. CASE Stop
  BY <1>7, StopInv
<1>8. CASE \E t \in tasks : DrainNext(t)
  <2>1. PICK t \in tasks : DrainNext(t)
    BY <1>8
  <2>2. /\ tasks' = tasks \ {t}
        /\ UNCHANGED <<owners, entries, generation, phase>>
        /\ phase = "draining"
    BY <2>1 DEF DrainNext
  <2>3. DOMAIN owners = {} /\ DOMAIN entries = {}
    BY <2>2 DEF IInv, MapsGone
  <2>4. FetchesTracked'
    BY <2>2, <2>3 DEF IInv, FetchesTracked
  <2>5. QED
    BY <1>0, <2>2, <2>3, <2>4 DEF IInv, OwnersAndEntriesAgree,
       OnlyOwnFetchLands, GenerationsOrdered, VersionsBounded, LiveTasksAwaited,
       MapsGone
<1>9. CASE Exit
  BY <1>0, <1>9 DEF Exit, IInv, OwnersAndEntriesAgree, FetchesTracked,
       OnlyOwnFetchLands, GenerationsOrdered, VersionsBounded, LiveTasksAwaited, MapsGone
<1>10. CASE Stopped \/ UNCHANGED vars
  BY <1>0, <1>10 DEF Stopped, vars, IInv, OwnersAndEntriesAgree, FetchesTracked,
       OnlyOwnFetchLands, GenerationsOrdered, VersionsBounded, LiveTasksAwaited, MapsGone
<1>11. QED
  BY <1>1, <1>2, <1>3, <1>4, <1>5, <1>6, <1>7, <1>8, <1>9, <1>10 DEF Next

\* The safety invariants of the scheduler, for every instance.
THEOREM SchedulerSafety ==
  Spec => [](/\ OwnersAndEntriesAgree
             /\ FetchesTracked
             /\ OnlyOwnFetchLands
             /\ GenerationsOrdered)
<1>1. Init => IInv
  BY InitInv
<1>2. IInv /\ [Next]_vars => IInv'
  BY NextInv
<1>3. IInv => /\ OwnersAndEntriesAgree
              /\ FetchesTracked
              /\ OnlyOwnFetchLands
              /\ GenerationsOrdered
  BY DEF IInv
<1>4. QED
  BY <1>1, <1>2, <1>3, PTL DEF Spec

\* What an entry shows comes from a fetch that was made for it: a request that
\* was dropped and asked for again never shows the old fetch's answer.
THEOREM OwnFetchLands == Spec => []OnlyOwnFetchLands
BY SchedulerSafety, PTL

\* Owners and entries name each other in every reachable state.
THEOREM OwnersHaveEntries == Spec => []OwnersAndEntriesAgree
BY SchedulerSafety, PTL
-----------------------------------------------------------------------------
\* The view depends on the entries only through what an update shows.
LEMMA ViewUnchanged ==
  ASSUME NEW bound, NEW rev, NEW before, NEW after,
         DOMAIN before = DOMAIN after,
         \A r \in DOMAIN before : /\ before[r].payload = after[r].payload
                                  /\ before[r].error = after[r].error
  PROVE  View(bound, before, rev) = View(bound, after, rev)
BY DEF View

LEMMA PublishedStep ==
  IInv /\ PublishedIsCurrent /\ [Next]_vars => PublishedIsCurrent'
<1> SUFFICES ASSUME IInv, PublishedIsCurrent, [Next]_vars, phase' = "running"
             PROVE  latest' = View(owners', entries', revision')
  BY DEF PublishedIsCurrent
<1>1. CASE Publish
  BY <1>1 DEF Publish
<1>2. ASSUME phase = "running", UNCHANGED <<owners, revision, latest>>,
             DOMAIN entries = DOMAIN entries',
             \A r \in DOMAIN entries : /\ entries[r].payload = entries'[r].payload
                                       /\ entries[r].error = entries'[r].error
      PROVE  latest' = View(owners', entries', revision')
  BY <1>2, ViewUnchanged DEF PublishedIsCurrent
<1>3. CASE (\E o \in Owners, r \in Requests : Subscribe(o, r))
        \/ (\E o \in Owners, expected \in 1..generation : Unsubscribe(o, expected))
  BY <1>1, <1>3 DEF Subscribe, Unsubscribe
<1>4. CASE Tick
  <2>1. /\ DOMAIN entries = DOMAIN entries'
        /\ \A r \in DOMAIN entries : /\ entries[r].payload = entries'[r].payload
                                     /\ entries[r].error = entries'[r].error
    BY <1>4 DEF Tick, IInv, TypeOK, Entry
  <2>2. QED
    BY <1>2, <1>4, <2>1 DEF Tick
<1>5. CASE \E t \in tasks, outcome \in {"ok", "failed", "cancelled"} :
             FinishFetch(t, outcome)
  BY <1>2, <1>5 DEF FinishFetch
<1>6. CASE \E t \in tasks : JoinNext(t)
  BY <1>1, <1>2, <1>6 DEF JoinNext
<1>7. CASE \E r \in Requests : DueElapses(r)
  <2>1. /\ DOMAIN entries = DOMAIN entries'
        /\ \A r \in DOMAIN entries : /\ entries[r].payload = entries'[r].payload
                                     /\ entries[r].error = entries'[r].error
    BY <1>7 DEF DueElapses, IInv, TypeOK, Entry
  <2>2. QED
    BY <1>2, <1>7, <2>1 DEF DueElapses
<1>8. CASE Stop \/ (\E t \in tasks : DrainNext(t)) \/ Exit \/ Stopped
  BY <1>8 DEF Stop, DrainNext, Exit, Stopped, vars
<1>9. CASE UNCHANGED vars
  BY <1>2, <1>9 DEF vars
<1>10. QED
  BY <1>3, <1>4, <1>5, <1>6, <1>7, <1>8, <1>9 DEF Next

\* A recovering screen always reads the scheduler's current state.
THEOREM PublishedMatchesState == Spec => []PublishedIsCurrent
<1>1. Init => PublishedIsCurrent
  BY DEF Init, PublishedIsCurrent, View, EmptyMap
<1>2. Init => IInv
  BY InitInv
<1>3. IInv /\ [Next]_vars => IInv'
  BY NextInv
<1>4. QED
  BY <1>1, <1>2, <1>3, PublishedStep, PTL DEF Spec

-----------------------------------------------------------------------------
\* What the published map says of an owner, read off the two maps.
LEMMA LatestReadsMaps ==
  ASSUME IInv, PublishedIsCurrent, phase = "running", NEW o \in DOMAIN latest
  PROVE  /\ o \in DOMAIN owners
         /\ owners[o].request \in DOMAIN entries
         /\ latest[o].generation = owners[o].generation
         /\ latest[o].request = owners[o].request
         /\ latest[o].payload = entries[owners[o].request].payload
BY DEF PublishedIsCurrent, View

LEMMA NewLatestReadsMaps ==
  ASSUME Publish, NEW o \in DOMAIN latest'
  PROVE  /\ o \in DOMAIN owners'
         /\ owners'[o].request \in DOMAIN entries'
         /\ latest'[o].generation = owners'[o].generation
         /\ latest'[o].request = owners'[o].request
         /\ latest'[o].payload = entries'[owners'[o].request].payload
BY DEF Publish, View

\* A binding whose entry stays is read off the two maps as it was.
LEMMA BindingStays ==
  ASSUME IInv, PublishedIsCurrent, phase = "running", Publish,
         NEW o \in DOMAIN latest, o \in DOMAIN owners', owners'[o] = owners[o],
         owners[o].request \in DOMAIN entries',
         \/ SameButOwners(entries'[owners[o].request], entries[owners[o].request])
         \/ entries'[owners[o].request].payload # 0
  PROVE  /\ o \in DOMAIN latest'
         /\ latest'[o].generation = latest[o].generation
         /\ latest'[o].request = latest[o].request
         /\ latest[o].payload # 0 => latest'[o].payload # 0
<1>1. o \in DOMAIN latest'
  BY DEF Publish, View
<1> QED
  BY <1>1, LatestReadsMaps, NewLatestReadsMaps DEF SameButOwners

LEMMA OtherSubscribes ==
  ASSUME IInv, PublishedIsCurrent, NEW p \in Owners, NEW r \in Requests, Subscribe(p, r),
         NEW o \in DOMAIN latest, o # p
  PROVE  /\ o \in DOMAIN latest'
         /\ latest'[o].generation = latest[o].generation
         /\ latest'[o].request = latest[o].request
         /\ latest[o].payload # 0 => latest'[o].payload # 0
<1> DEFINE q == owners[o].request
<1>1. SubscribeEffect(p, r) /\ phase = "running" /\ Publish
  BY SubscribeShape DEF Subscribe
<1>2. o \in DOMAIN owners /\ q \in DOMAIN entries
  BY <1>1, LatestReadsMaps
<1>3. owners'[o] = owners[o] /\ o \in DOMAIN owners'
  BY <1>1, <1>2 DEF SubscribeEffect
<1>4. q \in DOMAIN Released(p)
  <2>1. o \in entries[q].owners
    BY <1>2 DEF IInv, OwnersAndEntriesAgree
  <2>2. DOMAIN Released(p) = {x \in DOMAIN entries : entries[x].owners # {p}}
    BY ReleasedShape
  <2> QED
    BY <1>2, <2>1, <2>2
<1>5. q \in DOMAIN entries' /\ SameButOwners(entries'[q], entries[q])
  BY <1>1, <1>4 DEF SubscribeEffect
<1> QED
  BY <1>1, <1>3, <1>5, BindingStays

LEMMA OtherUnsubscribes ==
  ASSUME IInv, PublishedIsCurrent, NEW p \in Owners, NEW expected, Unsubscribe(p, expected),
         NEW o \in DOMAIN latest, o # p
  PROVE  /\ o \in DOMAIN latest'
         /\ latest'[o].generation = latest[o].generation
         /\ latest'[o].request = latest[o].request
         /\ latest[o].payload # 0 => latest'[o].payload # 0
<1> DEFINE q == owners[o].request
<1>1. UnsubscribeEffect(p) /\ phase = "running" /\ Publish
  BY UnsubscribeShape DEF Unsubscribe
<1>2. o \in DOMAIN owners /\ q \in DOMAIN entries
  BY <1>1, LatestReadsMaps
<1>3. owners'[o] = owners[o] /\ o \in DOMAIN owners'
  BY <1>1, <1>2 DEF UnsubscribeEffect
<1>4. q \in DOMAIN Released(p)
  <2>1. o \in entries[q].owners
    BY <1>2 DEF IInv, OwnersAndEntriesAgree
  <2>2. DOMAIN Released(p) = {x \in DOMAIN entries : entries[x].owners # {p}}
    BY ReleasedShape
  <2> QED
    BY <1>2, <2>1, <2>2
<1>5. q \in DOMAIN entries' /\ SameButOwners(entries'[q], entries[q])
  BY <1>1, <1>4 DEF UnsubscribeEffect
<1> QED
  BY <1>1, <1>3, <1>5, BindingStays

LEMMA AcceptedKeepsBindings ==
  ASSUME IInv, PublishedIsCurrent, NEW t \in tasks, JoinNext(t), Accepts(t),
         NEW o \in DOMAIN latest
  PROVE  /\ o \in DOMAIN latest'
         /\ latest'[o].generation = latest[o].generation
         /\ latest'[o].request = latest[o].request
         /\ latest[o].payload # 0 => latest'[o].payload # 0
<1> DEFINE q == owners[o].request
<1>1. /\ phase = "running" /\ Publish /\ owners' = owners
      /\ entries' = [entries EXCEPT ![t.request] = Completed(@, t)]
      /\ t.request \in DOMAIN entries
  BY DEF JoinNext, Accepts
<1>2. o \in DOMAIN owners /\ q \in DOMAIN entries
  BY <1>1, LatestReadsMaps
<1>3. entries[q] \in Entry
  BY <1>2 DEF IInv, TypeOK
<1>4. t.version # 0
  BY DEF IInv, VersionsBounded
<1>5. o \in DOMAIN latest'
  BY <1>1, <1>2 DEF Publish, View
<1>6. entries'[q].payload = entries[q].payload \/ entries'[q].payload = t.version
  BY <1>1, <1>2, <1>3 DEF Completed, Entry
<1>7. latest[o].generation = owners[o].generation /\ latest[o].request = q
      /\ latest[o].payload = entries[q].payload
  BY <1>1, LatestReadsMaps
<1>8. latest'[o].generation = owners'[o].generation /\ latest'[o].request = owners'[o].request
      /\ latest'[o].payload = entries'[owners'[o].request].payload
  BY <1>1, <1>5, NewLatestReadsMaps
<1> QED
  BY <1>1, <1>4, <1>5, <1>6, <1>7, <1>8

-----------------------------------------------------------------------------
(* The window.                                                               *)

Pictured == [generation : Nat, revision : Nat, payload : Nat, error : Nat]

Screen == [request : Requests, mounted : BOOLEAN, releasing : BOOLEAN,
           latest : Pictured, epoch : Nat, generation : Nat, failed : BOOLEAN]

BeginCall == [owner : Owners, request : Requests, epoch : Nat]

SubscribeCall == [kind : {"subscribe"}, owner : Owners, request : Requests, epoch : Nat]

GiveBack == [kind : {"unsubscribe"}, owner : Owners, generation : Nat]

Call == SubscribeCall \cup GiveBack

IsUpdates(map) == MapOf(map, Owners, Update)

IsReply(reply) ==
  /\ reply = [kind |-> reply.kind, owner |-> reply.owner, epoch |-> reply.epoch,
              updates |-> reply.updates]
  /\ reply.kind \in {"subscribed", "refused", "recovered"}
  /\ reply.owner \in Owners
  /\ reply.epoch \in Nat
  /\ IsUpdates(reply.updates)
  /\ reply.kind = "subscribed" => reply.owner \in DOMAIN reply.updates

ScreenTypes == MapOf(screens, Owners, Screen) /\ IsFiniteSet(DOMAIN screens)

EventTypes ==
  /\ events \in Seq(UNION {[D -> Update] : D \in SUBSET Owners})
  /\ \A reply \in replies : IsReply(reply)

FeedTypes ==
  /\ ScreenTypes
  /\ EventTypes
  /\ conditions.screens \subseteq Owners
  /\ visible \in BOOLEAN /\ begun \in Nat
  /\ begins \subseteq BeginCall
  /\ calls \in Seq(Call)

-----------------------------------------------------------------------------
\* Sequences of commands: one more, or one handled.
LEMMA CallAdded ==
  ASSUME NEW s \in Seq(Call), NEW c \in Call
  PROVE  /\ Append(s, c) \in Seq(Call)
         /\ Len(Append(s, c)) = Len(s) + 1
         /\ \A i \in 1..Len(s) : Append(s, c)[i] = s[i]
         /\ Append(s, c)[Len(s) + 1] = c
BY AppendProperties

LEMMA CallHandled ==
  ASSUME calls \in Seq(Call), NEW i \in 1..Len(calls)
  PROVE  /\ CallsWithout(i) \in Seq(Call)
         /\ Len(CallsWithout(i)) = Len(calls) - 1
         /\ \A j \in 1..(Len(calls) - 1) :
              CallsWithout(i)[j] = calls[IF j < i THEN j ELSE j + 1]
<1> DEFINE a == SubSeq(calls, 1, i - 1)
           b == SubSeq(calls, i + 1, Len(calls))
<1>1. Len(calls) \in Nat /\ \A j \in 1..Len(calls) : calls[j] \in Call
  BY LenProperties, ElementOfSeq
<1>2. /\ a \in Seq(Call) /\ Len(a) = i - 1
      /\ \A j \in 1..(i - 1) : a[j] = calls[j]
  <2>1. \A j \in 1..(i - 1) : calls[j] \in Call
    BY <1>1
  <2> HIDE DEF a
  <2>2. /\ a \in Seq(Call)
        /\ Len(a) = IF 1 <= i - 1 THEN (i - 1) - 1 + 1 ELSE 0
        /\ \A j \in 1..((i - 1) - 1 + 1) : a[j] = calls[1 + j - 1]
    BY <2>1, <1>1, SubSeqProperties, SMTT(30) DEF a
  <2> QED
    BY <2>2, <1>1
<1>3. /\ b \in Seq(Call) /\ Len(b) = Len(calls) - i
      /\ \A j \in 1..(Len(calls) - i) : b[j] = calls[i + j]
  <2>1. \A j \in (i + 1)..Len(calls) : calls[j] \in Call
    BY <1>1
  <2> HIDE DEF b
  <2>2. /\ b \in Seq(Call)
        /\ Len(b) = IF i + 1 <= Len(calls) THEN Len(calls) - (i + 1) + 1 ELSE 0
        /\ \A j \in 1..(Len(calls) - (i + 1) + 1) : b[j] = calls[(i + 1) + j - 1]
    BY <2>1, <1>1, SubSeqProperties, SMTT(30) DEF b
  <2> QED
    BY <2>2, <1>1
<1>4. CallsWithout(i) = a \o b
  BY DEF CallsWithout
<1> HIDE DEF a, b
<1>5. /\ a \o b \in Seq(Call)
      /\ Len(a \o b) = Len(a) + Len(b)
      /\ \A j \in 1..(Len(a) + Len(b)) :
           (a \o b)[j] = IF j <= Len(a) THEN a[j] ELSE b[j - Len(a)]
  BY <1>2, <1>3, ConcatProperties
<1>6. \A j \in 1..(Len(calls) - 1) : (a \o b)[j] = calls[IF j < i THEN j ELSE j + 1]
  BY <1>1, <1>2, <1>3, <1>5
<1> QED
  BY <1>1, <1>2, <1>3, <1>4, <1>5, <1>6

\* A sequence of all the elements of a set has each of them.
LEMMA AllInOrder ==
  ASSUME NEW S, IsFiniteSet(S), NEW order \in SetToSeqs(S)
  PROVE  /\ order \in [1..Cardinality(S) -> S]
         /\ Cardinality(S) \in Nat
         /\ \A x \in S : \E i \in 1..Cardinality(S) : order[i] = x
<1> DEFINE D == 1..Cardinality(S)
<1>1. Cardinality(S) \in Nat
  BY FS_CardinalityType
<1>2. order \in [D -> S] /\ \A i, j \in D : i # j => order[i] # order[j]
  BY Zenon DEF SetToSeqs
<1>3. order \in Injection(D, S)
  BY <1>2 DEF Injection, IsInjective
<1>4. Cardinality(D) = Cardinality(S)
  BY <1>1, FS_Interval
<1>5. order \in Surjection(D, S)
  BY <1>3, <1>4, FS_Injection, Zenon
<1> QED
  BY <1>1, <1>2, <1>5, Zenon DEF Surjection

-----------------------------------------------------------------------------
\* A begin, a subscribe command and its answer ask for the same subscription.
SameAsk(x, y) == x.owner = y.owner /\ x.epoch = y.epoch

Asks(call) == call.kind = "subscribe"
GivesBack(call) == call.kind = "unsubscribe"
Answers(reply) == reply.kind # "recovered"
Grants(reply) == reply.kind = "subscribed"

\* The binding that an answer grants.
Granted(reply) == reply.updates[reply.owner]

\* x asks for what the screen of its owner waits for.
Awaited(x) == x.owner \in DOMAIN screens /\ x.epoch = screens[x.owner].epoch

EpochsGiven ==
  /\ \A b \in begins : b.epoch \in 1..begun
  /\ \A i \in 1..Len(calls) : Asks(calls[i]) => calls[i].epoch \in 1..begun
  /\ \A reply \in replies : Answers(reply) => reply.epoch \in 1..begun
  /\ \A o \in DOMAIN screens : screens[o].epoch \in 0..begun

OneAskPerEpoch ==
  /\ \A b, c \in begins : SameAsk(b, c) => b = c
  /\ \A i, j \in 1..Len(calls) :
       Asks(calls[i]) /\ Asks(calls[j]) /\ SameAsk(calls[i], calls[j]) => i = j
  /\ \A reply, other \in replies :
       Answers(reply) /\ Answers(other) /\ SameAsk(reply, other) => reply = other
  /\ \A b \in begins, i \in 1..Len(calls) : Asks(calls[i]) => ~SameAsk(b, calls[i])
  /\ \A b \in begins, reply \in replies : Answers(reply) => ~SameAsk(b, reply)
  /\ \A i \in 1..Len(calls), reply \in replies :
       Asks(calls[i]) /\ Answers(reply) => ~SameAsk(calls[i], reply)

\* Whoever waits for an answer has no generation yet, and asked while visible.
AskedBeforeBound ==
  /\ \A b \in begins : Awaited(b) =>
       b.request = screens[b.owner].request /\ screens[b.owner].generation = 0
  /\ \A i \in 1..Len(calls) : Asks(calls[i]) /\ Awaited(calls[i]) =>
       /\ calls[i].request = screens[calls[i].owner].request
       /\ screens[calls[i].owner].generation = 0
       /\ visible
  /\ \A reply \in replies : Answers(reply) /\ Awaited(reply) =>
       /\ screens[reply.owner].generation = 0
       /\ visible
       /\ Grants(reply) => Granted(reply).request = screens[reply.owner].request

HiddenGaveUp == ~visible => \A o \in DOMAIN screens : screens[o].generation = 0

\* A generation is on one screen, in one answer or given back, and no two of it.
OnePlacePerGeneration ==
  /\ \A o \in DOMAIN screens : screens[o].generation \in 0..generation
  /\ \A i \in 1..Len(calls) : GivesBack(calls[i]) =>
       /\ calls[i].generation \in 1..generation
       /\ calls[i].owner \in DOMAIN screens =>
            screens[calls[i].owner].generation # calls[i].generation
  /\ \A reply \in replies : Grants(reply) =>
       /\ Granted(reply).generation \in 1..generation
       /\ reply.owner \in DOMAIN screens =>
            screens[reply.owner].generation # Granted(reply).generation
       /\ \A i \in 1..Len(calls) :
            GivesBack(calls[i]) /\ calls[i].owner = reply.owner =>
              calls[i].generation # Granted(reply).generation
       /\ reply.owner \in DOMAIN owners
            /\ owners[reply.owner].generation = Granted(reply).generation =>
              owners[reply.owner].request = Granted(reply).request
  /\ \A reply, other \in replies :
       /\ Grants(reply) /\ Grants(other) /\ reply.owner = other.owner
       /\ Granted(reply).generation = Granted(other).generation
       => reply = other

TimersMatch == \A o \in DOMAIN screens : screens[o].releasing <=> ~screens[o].mounted

FeedInv ==
  /\ IInv /\ PublishedIsCurrent /\ phase = "running"
  /\ FeedTypes
  /\ EpochsGiven
  /\ OneAskPerEpoch
  /\ AskedBeforeBound
  /\ HiddenGaveUp
  /\ OnePlacePerGeneration
  /\ TimersMatch

\* Every binding is on its screen, in an answer on its way, or given back.
KnownOrGivenBack ==
  \A o \in DOMAIN owners :
    \/ Bound(o)
    \/ \E reply \in replies : /\ Grants(reply) /\ reply.owner = o
                               /\ Granted(reply).generation = owners[o].generation
    \/ \E i \in 1..Len(calls) : calls[i] = UnsubscribeCall(o, owners[o].generation)

\* Commands are handled in order, and a due timer runs first.
Ordered == ~conditions.reordering /\ ~conditions.lateTimers

NoAskOf(o) == \A i \in 1..Len(calls) : Asks(calls[i]) => calls[i].owner # o

\* A begin, or a command or an answer that nothing can overtake, stands for
\* the subscription o waits for.
WaitsInTurn(o) ==
  \/ \E b \in begins : b.owner = o /\ b.epoch = screens[o].epoch
  \/ \E i \in 1..Len(calls) :
       /\ Asks(calls[i]) /\ calls[i].owner = o /\ calls[i].epoch = screens[o].epoch
       /\ \A j \in 1..Len(calls) : Asks(calls[j]) /\ calls[j].owner = o => j <= i
  \/ \E reply \in replies :
       /\ Answers(reply) /\ reply.owner = o /\ reply.epoch = screens[o].epoch
       /\ Grants(reply) => /\ o \in DOMAIN owners
                           /\ owners[o].generation = Granted(reply).generation
                           /\ NoAskOf(o)

\* When nothing overtakes, a screen waits for its subscription or has it.
WaitsOrBound ==
  Ordered /\ visible =>
    \A o \in DOMAIN screens : ~screens[o].failed =>
      WaitsInTurn(o) \/ (Bound(o) /\ NoAskOf(o))
-----------------------------------------------------------------------------
\* What most steps have in common: the screens of B begin, those of D give up
\* their generations, and nothing is asked for or answered besides.
GivesUp(D) ==
  /\ calls' \in Seq(Call)
  /\ Len(calls') >= Len(calls)
  /\ \A i \in 1..Len(calls) : calls'[i] = calls[i]
  /\ \A i \in 1..Len(calls') : i > Len(calls) =>
       \E o \in D \cap DOMAIN screens :
         screens[o].generation # 0 /\ calls'[i] = UnsubscribeCall(o, screens[o].generation)
  /\ \A o \in D \cap DOMAIN screens : screens[o].generation # 0 =>
       \E i \in 1..Len(calls') : calls'[i] = UnsubscribeCall(o, screens[o].generation)

SameScreen(o) ==
  /\ o \in DOMAIN screens
  /\ screens'[o].request = screens[o].request
  /\ screens'[o].epoch = screens[o].epoch
  /\ screens'[o].generation = screens[o].generation
  /\ screens[o].failed => screens'[o].failed

Turn(B, D) ==
  /\ GivesUp(D)
  /\ begun' \in Nat /\ begun' >= begun /\ (B # {} => begun' = begun + 1)
  /\ begins' = begins \cup {BeginOf(o, screens'[o].request) : o \in B}
  /\ B \subseteq DOMAIN screens'
  /\ \A o \in B : screens'[o].epoch = begun + 1 /\ screens'[o].generation = 0
  /\ \A o \in DOMAIN screens' :
       \/ o \in B
       \/ o \in D /\ screens'[o].epoch = 0 /\ screens'[o].generation = 0
       \/ o \notin D /\ SameScreen(o)
  /\ \A o \in DOMAIN screens \ D :
       o \in DOMAIN screens' /\ (o \in B => screens[o].generation = 0)
  /\ visible' \in BOOLEAN
  /\ ~visible' => ~visible \/ DOMAIN screens' \subseteq D
  /\ visible' => visible \/ \A o \in DOMAIN screens : screens[o].generation = 0
  /\ Ordered /\ visible' =>
       \A o \in DOMAIN screens' : o \in B \/ (visible /\ o \notin D)
  /\ TimersMatch' /\ conditions' = conditions
  /\ \A reply \in replies' : Answers(reply) => reply \in replies
  /\ \A reply \in replies : Answers(reply) =>
       \/ reply \in replies'
       \/ ~Grants(reply) /\ (Awaited(reply)' => screens'[reply.owner].failed)
  /\ owners' = owners /\ generation' = generation

LEMMA TurnEpochs ==
  ASSUME FeedInv, ScreenTypes', NEW B \in SUBSET Owners, NEW D \in SUBSET Owners, Turn(B, D)
  PROVE  EpochsGiven' /\ OneAskPerEpoch'
<1>0. FeedTypes /\ EpochsGiven /\ OneAskPerEpoch
  BY DEF FeedInv
<1>1. Len(calls) \in Nat /\ \A i \in 1..Len(calls) : calls[i] \in Call
  BY <1>0, LenProperties, ElementOfSeq DEF FeedTypes
<1>2. Len(calls') \in Nat /\ \A i \in 1..Len(calls') : Asks(calls'[i]) =>
         i \in 1..Len(calls) /\ calls'[i] = calls[i]
  <2>1. Len(calls') \in Nat /\ Len(calls') >= Len(calls)
    BY LenProperties DEF Turn, GivesUp
  <2>2. ASSUME NEW i \in 1..Len(calls'), i > Len(calls) PROVE ~Asks(calls'[i])
    <3>1. PICK o \in D \cap DOMAIN screens :
                 calls'[i] = UnsubscribeCall(o, screens[o].generation)
      BY <2>2 DEF Turn, GivesUp
    <3> QED
      BY <3>1 DEF UnsubscribeCall, Asks
  <2> QED
    BY <2>1, <2>2, <1>1 DEF Turn, GivesUp
<1>3. \A b \in begins' : \/ b \in begins
                         \/ b.epoch = begun + 1 /\ begun' = begun + 1
                            /\ b = BeginOf(b.owner, screens'[b.owner].request)
  BY DEF Turn, BeginOf
<1>4. begun \in Nat /\ begun' \in Nat /\ begun' >= begun
  BY <1>0 DEF Turn, FeedTypes
<1>5. \A reply \in replies' : Answers(reply) => reply \in replies
  BY DEF Turn
<1>6. EpochsGiven'
  <2>1. \A o \in DOMAIN screens' : screens'[o].epoch \in 0..begun'
    BY <1>0, <1>4 DEF Turn, EpochsGiven, SameScreen
  <2>2. \A b \in begins' : b.epoch \in 1..begun'
    BY <1>0, <1>3, <1>4 DEF EpochsGiven
  <2>3. \A i \in 1..Len(calls') : Asks(calls'[i]) => calls'[i].epoch \in 1..begun'
    BY <1>0, <1>2, <1>4 DEF EpochsGiven
  <2>4. \A reply \in replies' : Answers(reply) => reply.epoch \in 1..begun'
    BY <1>0, <1>5, <1>4 DEF EpochsGiven
  <2> QED
    BY <2>1, <2>2, <2>3, <2>4 DEF EpochsGiven, Asks, Answers
<1>7. OneAskPerEpoch'
  <2>1. \A b, c \in begins' : SameAsk(b, c) => b = c
    BY <1>0, <1>3, <1>4 DEF EpochsGiven, OneAskPerEpoch, SameAsk
  <2>2. \A i, j \in 1..Len(calls') :
          Asks(calls'[i]) /\ Asks(calls'[j]) /\ SameAsk(calls'[i], calls'[j]) => i = j
    BY <1>0, <1>2 DEF OneAskPerEpoch
  <2>3. \A reply, other \in replies' :
          Answers(reply) /\ Answers(other) /\ SameAsk(reply, other) => reply = other
    BY <1>0, <1>5 DEF OneAskPerEpoch
  <2>4. \A b \in begins', i \in 1..Len(calls') : Asks(calls'[i]) => ~SameAsk(b, calls'[i])
    BY <1>0, <1>2, <1>3, <1>4 DEF OneAskPerEpoch, EpochsGiven, SameAsk
  <2>5. \A b \in begins', reply \in replies' : Answers(reply) => ~SameAsk(b, reply)
    BY <1>0, <1>5, <1>3, <1>4 DEF OneAskPerEpoch, EpochsGiven, SameAsk
  <2>6. \A i \in 1..Len(calls'), reply \in replies' :
          Asks(calls'[i]) /\ Answers(reply) => ~SameAsk(calls'[i], reply)
    BY <1>0, <1>2, <1>5 DEF OneAskPerEpoch
  <2> QED
    BY <2>1, <2>2, <2>3, <2>4, <2>5, <2>6 DEF OneAskPerEpoch, Asks, Answers, SameAsk
<1> QED
  BY <1>6, <1>7

LEMMA TurnPlaces ==
  ASSUME FeedInv, ScreenTypes', NEW B \in SUBSET Owners, NEW D \in SUBSET Owners, Turn(B, D)
  PROVE  AskedBeforeBound' /\ HiddenGaveUp' /\ OnePlacePerGeneration'
<1>0. /\ FeedTypes /\ EpochsGiven /\ OneAskPerEpoch /\ AskedBeforeBound
      /\ HiddenGaveUp /\ OnePlacePerGeneration
  BY DEF FeedInv
<1>1. Len(calls) \in Nat /\ \A i \in 1..Len(calls) : calls[i] \in Call
  BY <1>0, LenProperties, ElementOfSeq DEF FeedTypes
<1>2. /\ Len(calls') \in Nat /\ Len(calls') >= Len(calls)
      /\ \A i \in 1..Len(calls') :
           \/ i \in 1..Len(calls) /\ calls'[i] = calls[i]
           \/ \E o \in D \cap DOMAIN screens :
                screens[o].generation # 0 /\ calls'[i] = UnsubscribeCall(o, screens[o].generation)
  <2>1. Len(calls') \in Nat /\ Len(calls') >= Len(calls)
    BY LenProperties DEF Turn, GivesUp
  <2> QED
    BY <2>1, <1>1 DEF Turn, GivesUp
<1>3. \A b \in begins' : \/ b \in begins
                         \/ b.owner \in B /\ b.request = screens'[b.owner].request
  BY DEF Turn, BeginOf
<1>4. begun \in Nat /\ begun' \in Nat /\ begun' >= begun /\ visible \in BOOLEAN
  BY <1>0 DEF Turn, FeedTypes
<1>5. \A reply \in replies' : Answers(reply) => reply \in replies
  BY DEF Turn
<1>6. generation' = generation /\ generation \in Nat /\ owners' = owners
  BY DEF Turn, FeedInv, IInv, TypeOK
\* A screen that waits for an older ask is one that stays as it is.
<1>7. \A x : /\ x.epoch \in 1..begun
             /\ x.owner \in DOMAIN screens' /\ x.epoch = screens'[x.owner].epoch
             => x.owner \notin B \cup D /\ SameScreen(x.owner)
  BY <1>4 DEF Turn
<1>8. HiddenGaveUp'
  BY <1>0 DEF Turn, HiddenGaveUp, SameScreen
<1>9. \A o \in DOMAIN screens' : o \notin B \cup D /\ visible => visible'
  BY DEF Turn
<1>10. AskedBeforeBound'
  <2>1. ASSUME NEW b \in begins', Awaited(b)'
        PROVE  b.request = screens'[b.owner].request /\ screens'[b.owner].generation = 0
    BY <2>1, <1>0, <1>3, <1>7 DEF Awaited, EpochsGiven, AskedBeforeBound, Turn, SameScreen
  <2>2. ASSUME NEW i \in 1..Len(calls'), Asks(calls'[i]), Awaited(calls[i])'
        PROVE  /\ calls'[i].request = screens'[calls'[i].owner].request
               /\ screens'[calls'[i].owner].generation = 0
               /\ visible'
    <3>1. i \in 1..Len(calls) /\ calls'[i] = calls[i]
      <4>1. \A o : ~Asks(UnsubscribeCall(o, screens[o].generation))
        BY DEF UnsubscribeCall, Asks
      <4> QED
        BY <2>2, <1>2, <4>1
    <3> DEFINE x == calls[i]
    <3>2. x.epoch \in 1..begun /\ x.owner \in DOMAIN screens' /\ x.epoch = screens'[x.owner].epoch
      BY <3>1, <2>2, <1>0 DEF EpochsGiven, Awaited
    <3>3. x.owner \notin B \cup D /\ SameScreen(x.owner)
      BY <3>2, <1>7
    <3> QED
      BY <3>1, <3>2, <3>3, <2>2, <1>0, <1>9 DEF Awaited, AskedBeforeBound, SameScreen
  <2>3. ASSUME NEW reply \in replies', Answers(reply), Awaited(reply)'
        PROVE  /\ screens'[reply.owner].generation = 0
               /\ visible'
               /\ Grants(reply) => Granted(reply).request = screens'[reply.owner].request
    <3>1. reply \in replies
      BY <2>3, <1>5
    <3>2. reply.epoch \in 1..begun /\ reply.owner \in DOMAIN screens' /\ reply.epoch = screens'[reply.owner].epoch
      BY <3>1, <2>3, <1>0 DEF EpochsGiven, Awaited
    <3>3. reply.owner \notin B \cup D /\ SameScreen(reply.owner)
      BY <3>2, <1>7
    <3> QED
      BY <3>1, <3>2, <3>3, <2>3, <1>0, <1>9 DEF Awaited, AskedBeforeBound, SameScreen
  <2> QED
    BY <2>1, <2>2, <2>3 DEF AskedBeforeBound, Asks, Answers, Grants, Granted
<1>11. OnePlacePerGeneration'
  <2>1. \A o \in DOMAIN screens' : \/ screens'[o].generation = 0
                                   \/ o \notin D /\ SameScreen(o)
    BY DEF Turn
  <2>2. \A o \in DOMAIN screens' : screens'[o].generation \in 0..generation'
    BY <2>1, <1>0, <1>6 DEF OnePlacePerGeneration, SameScreen
  <2>3. ASSUME NEW i \in 1..Len(calls'), GivesBack(calls'[i])
        PROVE  /\ calls'[i].generation \in 1..generation'
               /\ calls'[i].owner \in DOMAIN screens' =>
                    screens'[calls'[i].owner].generation # calls'[i].generation
    <3>1. CASE i \in 1..Len(calls) /\ calls'[i] = calls[i]
      BY <2>3, <3>1, <2>1, <1>0, <1>6 DEF OnePlacePerGeneration, SameScreen
    <3>2. CASE \E o \in D \cap DOMAIN screens :
                 screens[o].generation # 0 /\ calls'[i] = UnsubscribeCall(o, screens[o].generation)
      BY <2>3, <3>2, <2>1, <1>0, <1>6 DEF OnePlacePerGeneration, SameScreen, UnsubscribeCall
    <3> QED
      BY <3>1, <3>2, <1>2
  <2>4. ASSUME NEW reply \in replies', Grants(reply)
        PROVE  /\ reply \in replies
               /\ Granted(reply).generation \in 1..generation'
               /\ reply.owner \in DOMAIN screens' =>
                    screens'[reply.owner].generation # Granted(reply).generation
    <3>1. reply \in replies
      BY <2>4, <1>5 DEF Grants, Answers
    <3>2. Granted(reply).generation \in 1..generation
      BY <3>1, <2>4, <1>0 DEF OnePlacePerGeneration
    <3> QED
      BY <3>1, <3>2, <2>4, <2>1, <1>0, <1>6 DEF OnePlacePerGeneration, SameScreen
  <2>5. ASSUME NEW reply \in replies', Grants(reply), NEW i \in 1..Len(calls'),
               GivesBack(calls'[i]), calls'[i].owner = reply.owner
        PROVE  calls'[i].generation # Granted(reply).generation
    <3>1. CASE i \in 1..Len(calls) /\ calls'[i] = calls[i]
      BY <3>1, <2>4, <2>5, <1>0 DEF OnePlacePerGeneration
    <3>2. CASE \E o \in D \cap DOMAIN screens :
                 screens[o].generation # 0 /\ calls'[i] = UnsubscribeCall(o, screens[o].generation)
      BY <3>2, <2>4, <2>5, <1>0 DEF OnePlacePerGeneration, UnsubscribeCall
    <3> QED
      BY <3>1, <3>2, <1>2
  <2>6. ASSUME NEW reply \in replies', Grants(reply), reply.owner \in DOMAIN owners',
               owners'[reply.owner].generation = Granted(reply).generation
        PROVE  owners'[reply.owner].request = Granted(reply).request
    BY <2>4, <2>6, <1>0, <1>6 DEF OnePlacePerGeneration
  <2>7. \A reply, other \in replies' :
          /\ Grants(reply) /\ Grants(other) /\ reply.owner = other.owner
          /\ Granted(reply).generation = Granted(other).generation
          => reply = other
    BY <2>4, <1>0 DEF OnePlacePerGeneration
  <2> QED
    BY <2>2, <2>3, <2>4, <2>5, <2>6, <2>7, Zenon
       DEF OnePlacePerGeneration, GivesBack, Grants, Granted
<1> QED
  BY <1>8, <1>10, <1>11

LEMMA TurnKnown ==
  ASSUME FeedInv, KnownOrGivenBack, NEW B \in SUBSET Owners, NEW D \in SUBSET Owners,
         ScreenTypes', Turn(B, D)
  PROVE  KnownOrGivenBack'
<1> SUFFICES ASSUME NEW o \in DOMAIN owners', ~Bound(o)'
             PROVE  \/ \E reply \in replies' :
                         /\ Grants(reply) /\ reply.owner = o
                         /\ Granted(reply).generation = owners'[o].generation
                    \/ \E i \in 1..Len(calls') :
                         calls'[i] = UnsubscribeCall(o, owners'[o].generation)
  BY DEF KnownOrGivenBack, Grants, Granted, UnsubscribeCall
<1>1. owners' = owners /\ o \in DOMAIN owners /\ owners[o].generation # 0
  BY DEF Turn, FeedInv, IInv, GenerationsOrdered
<1>2. Len(calls) \in Nat /\ Len(calls') \in Nat /\ Len(calls') >= Len(calls)
  BY LenProperties DEF Turn, GivesUp, FeedInv, FeedTypes
<1>3. CASE Bound(o)
  <2>1. o \in D
    <3> SUFFICES ASSUME o \notin D PROVE FALSE
      OBVIOUS
    <3>1. o \in DOMAIN screens' /\ o \notin B
      BY <1>1, <1>3 DEF Turn, Bound
    <3>2. SameScreen(o)
      BY <3>1 DEF Turn
    <3> QED
      BY <3>1, <3>2, <1>1, <1>3 DEF SameScreen, Bound
  <2> QED
    BY <2>1, <1>1, <1>3 DEF Bound, Turn, GivesUp
<1>4. CASE \E reply \in replies : /\ Grants(reply) /\ reply.owner = o
                                 /\ Granted(reply).generation = owners[o].generation
  BY <1>4, <1>1 DEF Turn, Grants, Answers
<1>5. CASE \E i \in 1..Len(calls) : calls[i] = UnsubscribeCall(o, owners[o].generation)
  BY <1>5, <1>1, <1>2 DEF Turn, GivesUp
<1> QED
  BY <1>1, <1>3, <1>4, <1>5 DEF KnownOrGivenBack

LEMMA TurnWaits ==
  ASSUME FeedInv, WaitsOrBound, NEW B \in SUBSET Owners, NEW D \in SUBSET Owners,
         ScreenTypes', Turn(B, D)
  PROVE  WaitsOrBound'
<1> SUFFICES ASSUME Ordered, visible', NEW o \in DOMAIN screens', ~screens'[o].failed
             PROVE  WaitsInTurn(o)' \/ (Bound(o)' /\ NoAskOf(o)')
  BY DEF WaitsOrBound, Ordered, Turn
<1>1. CASE o \in B
  <2>1. BeginOf(o, screens'[o].request) \in begins' /\ screens'[o].epoch = begun + 1
    BY <1>1 DEF Turn
  <2> QED
    BY <2>1 DEF WaitsInTurn, BeginOf
<1>2. CASE o \notin B
  <2>1. visible /\ SameScreen(o)
    BY <1>2 DEF Turn
  <2>2. WaitsInTurn(o) \/ (Bound(o) /\ NoAskOf(o))
    BY <2>1 DEF WaitsOrBound, SameScreen
  <2>3. Len(calls) \in Nat /\ Len(calls') \in Nat /\ Len(calls') >= Len(calls)
    BY LenProperties DEF Turn, GivesUp, FeedInv, FeedTypes
  <2>4. \A i \in 1..Len(calls') : Asks(calls'[i]) =>
          i \in 1..Len(calls) /\ calls'[i] = calls[i]
    <3>1. ASSUME NEW i \in 1..Len(calls'), i > Len(calls) PROVE ~Asks(calls'[i])
      <4>1. PICK p \in D \cap DOMAIN screens :
                   calls'[i] = UnsubscribeCall(p, screens[p].generation)
        BY <3>1 DEF Turn, GivesUp
      <4> QED
        BY <4>1 DEF UnsubscribeCall, Asks
    <3> QED
      BY <3>1, <2>3 DEF Turn, GivesUp
  <2>5. NoAskOf(o) => NoAskOf(o)'
    BY <2>4, Zenon DEF NoAskOf, Asks
  <2>6. owners' = owners /\ begins \subseteq begins'
    BY DEF Turn
  <2>7. CASE \E b \in begins : b.owner = o /\ b.epoch = screens[o].epoch
    BY <2>7, <2>6, <2>1 DEF WaitsInTurn, SameScreen
  <2>8. CASE \E i \in 1..Len(calls) :
               /\ Asks(calls[i]) /\ calls[i].owner = o /\ calls[i].epoch = screens[o].epoch
               /\ \A j \in 1..Len(calls) : Asks(calls[j]) /\ calls[j].owner = o => j <= i
    <3>1. PICK i \in 1..Len(calls) :
               /\ Asks(calls[i]) /\ calls[i].owner = o /\ calls[i].epoch = screens[o].epoch
               /\ \A j \in 1..Len(calls) : Asks(calls[j]) /\ calls[j].owner = o => j <= i
      BY <2>8
    <3>2. i \in 1..Len(calls') /\ calls'[i] = calls[i]
      BY <2>3 DEF Turn, GivesUp
    <3>3. \A j \in 1..Len(calls') : Asks(calls'[j]) /\ calls'[j].owner = o => j <= i
      BY <3>1, <2>4
    <3>4. Asks(calls'[i]) /\ calls'[i].owner = o /\ calls'[i].epoch = screens'[o].epoch
      BY <3>1, <3>2, <2>1 DEF SameScreen
    <3> QED
      BY <3>2, <3>3, <3>4, Zenon DEF WaitsInTurn, Asks
  <2>9. CASE \E reply \in replies :
               /\ Answers(reply) /\ reply.owner = o /\ reply.epoch = screens[o].epoch
               /\ Grants(reply) => /\ o \in DOMAIN owners
                                   /\ owners[o].generation = Granted(reply).generation
                                   /\ NoAskOf(o)
    <3>1. PICK reply \in replies :
               /\ Answers(reply) /\ reply.owner = o /\ reply.epoch = screens[o].epoch
               /\ Grants(reply) => /\ o \in DOMAIN owners
                                   /\ owners[o].generation = Granted(reply).generation
                                   /\ NoAskOf(o)
      BY <2>9
    <3>2. reply \in replies'
      BY <3>1, <2>1 DEF Turn, Awaited, SameScreen
    <3>3. reply.epoch = screens'[o].epoch
      BY <3>1, <2>1 DEF SameScreen
    <3> QED
      BY <3>1, <3>2, <3>3, <2>5, <2>6, Zenon DEF WaitsInTurn, Answers, Grants, Granted
  <2>10. CASE Bound(o) /\ NoAskOf(o)
    BY <2>10, <2>1, <2>5, <2>6 DEF Bound, SameScreen
  <2> QED
    BY <2>2, <2>7, <2>8, <2>9, <2>10, Zenon DEF WaitsInTurn
<1> QED
  BY <1>1, <1>2

-----------------------------------------------------------------------------
\* The steps that are turns.
LEMMA NobodyBegins == begins = begins \cup {BeginOf(o, screens'[o].request) : o \in {}}
OBVIOUS

LEMMA CallsKept ==
  ASSUME FeedTypes, calls' = calls
  PROVE  GivesUp({})
<1>1. Len(calls) \in Nat
  BY LenProperties DEF FeedTypes
<1> QED
  BY <1>1 DEF GivesUp, FeedTypes

LEMMA SuspendsOne ==
  ASSUME FeedTypes, NEW o \in DOMAIN screens, calls' = calls \o SuspendCalls(o)
  PROVE  GivesUp({o})
<1> DEFINE c == UnsubscribeCall(o, screens[o].generation)
<1>1. calls \in Seq(Call) /\ Len(calls) \in Nat
  BY LenProperties DEF FeedTypes
<1>2. CASE screens[o].generation = 0
  BY <1>1, <1>2, ConcatEmptySeq DEF GivesUp, SuspendCalls
<1>3. CASE screens[o].generation # 0
  <2>1. c \in Call
    BY DEF UnsubscribeCall, Call, GiveBack, FeedTypes, ScreenTypes, MapOf, Screen
  <2>2. calls' = Append(calls, c)
    BY <1>1, <1>3, <2>1, AppendIsConcat DEF SuspendCalls
  <2> HIDE DEF c
  <2>3. /\ calls' \in Seq(Call) /\ Len(calls') = Len(calls) + 1
        /\ \A i \in 1..Len(calls) : calls'[i] = calls[i]
        /\ calls'[Len(calls) + 1] = c
    BY <1>1, <2>1, <2>2, CallAdded
  <2> QED
    BY <1>1, <1>3, <2>3 DEF GivesUp, c
<1> QED
  BY <1>2, <1>3

LEMMA MountTurn ==
  ASSUME FeedInv, steady, NEW o \in Owners, NEW r \in Requests, Mount(o, r)
  PROVE  FeedTypes' /\ \E B, D \in SUBSET Owners : Turn(B, D)
<1>1. FeedTypes /\ TimersMatch /\ DOMAIN screens \subseteq Owners
  BY DEF FeedInv, FeedTypes, ScreenTypes, MapOf
<1>2. /\ UNCHANGED <<conditions, visible, replies, notes, lagged, events, owners, generation>>
  BY DEF Mount, schedulerIdle, steady, vars
<1>3. CASE o \in DOMAIN screens /\ screens[o].request = r
  <2>1. /\ screens' = [screens EXCEPT ![o].mounted = TRUE, ![o].releasing = FALSE]
        /\ UNCHANGED <<begun, begins, calls>>
    BY <1>3 DEF Mount
  <2>2. /\ DOMAIN screens' = DOMAIN screens
        /\ \A p \in DOMAIN screens :
             /\ screens'[p] \in Screen
             /\ SameScreen(p)
             /\ (screens'[p].releasing <=> ~screens'[p].mounted)
    BY <1>1, <1>3, <2>1 DEF FeedTypes, ScreenTypes, MapOf, Screen, SameScreen, TimersMatch
  <2>3. ScreenTypes'
    BY <1>1, <2>1, <2>2 DEF FeedTypes, ScreenTypes, MapOf
  <2>4. GivesUp({})
    BY <1>1, <2>1, CallsKept
  <2>5. TimersMatch'
    BY <2>2 DEF TimersMatch
  <2>6. Turn({}, {})
    BY <1>1, <1>2, <2>1, <2>2, <2>4, <2>5, NobodyBegins DEF Turn, FeedTypes
  <2> QED
    BY <1>1, <1>2, <2>1, <2>3, <2>6 DEF FeedTypes, EventTypes
<1>4. CASE ~(o \in DOMAIN screens /\ screens[o].request = r)
  <2> DEFINE D == {o} \cap DOMAIN screens
             new == Begun(NewScreen(r))
  <2>1. /\ begun' = begun + 1
        /\ screens' = Put(screens, o, new)
        /\ begins' = begins \cup {BeginOf(o, r)}
        /\ calls' = IF o \in DOMAIN screens THEN calls \o SuspendCalls(o) ELSE calls
    BY <1>4 DEF Mount
  <2>2. /\ new \in Screen /\ new.request = r /\ new.epoch = begun + 1
        /\ new.generation = 0 /\ new.mounted /\ ~new.releasing
    <3>1. NewScreen(r) \in Screen
      BY DEF NewScreen, NothingShown, Screen, Pictured
    <3>2. begun + 1 \in Nat
      BY <1>1 DEF FeedTypes
    <3> QED
      BY <3>1, <3>2 DEF Begun, NewScreen, Screen
  <2> HIDE DEF new
  <2>3. /\ MapOf(screens', Owners, Screen)
        /\ DOMAIN screens' = DOMAIN screens \cup {o}
        /\ screens'[o] = new
        /\ \A p \in DOMAIN screens \ {o} : screens'[p] = screens[p]
    <3>1. MapOf(screens, Owners, Screen)
      BY <1>1 DEF FeedTypes, ScreenTypes
    <3> QED
      BY <2>1, <2>2, <3>1 DEF MapOf, Put
  <2>4. ScreenTypes'
    BY <1>1, <2>3, FS_AddElement DEF FeedTypes, ScreenTypes
  <2>5. GivesUp(D)
    <3>1. CASE o \in DOMAIN screens
      <4>1. D = {o}
        BY <3>1
      <4> QED
        BY <3>1, <4>1, <1>1, <2>1, SuspendsOne, Zenon
    <3>2. CASE o \notin DOMAIN screens
      <4>1. D = {}
        BY <3>2
      <4> QED
        BY <3>2, <4>1, <1>1, <2>1, CallsKept, Zenon
    <3> QED
      BY <3>1, <3>2
  <2>6. calls' \in Seq(Call)
    BY <2>5 DEF GivesUp
  <2>7. BeginOf(o, r) \in BeginCall /\ begins' = begins \cup {BeginOf(p, screens'[p].request) : p \in {o}}
    BY <1>1, <2>1, <2>2, <2>3 DEF BeginOf, BeginCall, FeedTypes
  <2>8. \A p \in DOMAIN screens' : p = o \/ (SameScreen(p) /\ screens'[p] = screens[p])
    BY <2>3 DEF SameScreen
  <2>9. TimersMatch'
    <3>1. new.releasing <=> ~new.mounted
      BY <2>2
    <3> QED
      BY <1>1, <2>3, <3>1 DEF TimersMatch
  <2>10. Turn({o}, D)
    <3> HIDE DEF D
    <3>1. D \subseteq {o} /\ (o \in DOMAIN screens => o \in D)
      BY DEF D
    <3> QED
      BY <1>1, <1>2, <2>1, <2>2, <2>3, <2>5, <2>7, <2>8, <2>9, <3>1 DEF Turn, FeedTypes
  <2>11. FeedTypes'
    BY <1>1, <1>2, <2>1, <2>4, <2>6, <2>7 DEF FeedTypes, EventTypes
  <2> QED
    BY <2>10, <2>11
<1> QED
  BY <1>3, <1>4

LEMMA UnmountTurn ==
  ASSUME FeedInv, steady, NEW o \in Owners, Unmount(o)
  PROVE  FeedTypes' /\ \E B, D \in SUBSET Owners : Turn(B, D)
<1>1. FeedTypes /\ TimersMatch
  BY DEF FeedInv
<1>2. /\ UNCHANGED <<conditions, visible, replies, notes, lagged, events, owners, generation,
                     begun, begins, calls>>
      /\ o \in DOMAIN screens
      /\ screens' = [screens EXCEPT ![o].mounted = FALSE, ![o].releasing = TRUE]
  BY DEF Unmount, schedulerIdle, steady, vars
<1>3. /\ DOMAIN screens' = DOMAIN screens
      /\ \A p \in DOMAIN screens :
           /\ screens'[p] \in Screen
           /\ SameScreen(p)
           /\ (screens'[p].releasing <=> ~screens'[p].mounted)
  BY <1>1, <1>2 DEF FeedTypes, ScreenTypes, MapOf, Screen, SameScreen, TimersMatch
<1>4. ScreenTypes'
  BY <1>1, <1>2, <1>3 DEF FeedTypes, ScreenTypes, MapOf
<1>5. GivesUp({})
  BY <1>1, <1>2, CallsKept
<1>6. TimersMatch'
  BY <1>3 DEF TimersMatch
<1>7. Turn({}, {})
  BY <1>1, <1>2, <1>3, <1>5, <1>6, NobodyBegins DEF Turn, FeedTypes
<1> QED
  BY <1>1, <1>2, <1>4, <1>7 DEF FeedTypes, EventTypes

LEMMA ReleaseTimerTurn ==
  ASSUME FeedInv, steady, NEW o \in Owners, ReleaseTimer(o)
  PROVE  FeedTypes' /\ \E B, D \in SUBSET Owners : Turn(B, D)
<1>1. FeedTypes /\ TimersMatch
  BY DEF FeedInv
<1>2. /\ UNCHANGED <<conditions, visible, replies, notes, lagged, events, owners, generation,
                     begun, begins>>
      /\ o \in DOMAIN screens
      /\ screens' = Drop(screens, o)
      /\ calls' = calls \o SuspendCalls(o)
  BY DEF ReleaseTimer, schedulerIdle, steady, vars
<1>3. /\ MapOf(screens', Owners, Screen)
      /\ DOMAIN screens' = DOMAIN screens \ {o}
      /\ \A p \in DOMAIN screens' : screens'[p] = screens[p]
  <2>1. MapOf(screens, Owners, Screen)
    BY <1>1 DEF FeedTypes, ScreenTypes
  <2> QED
    BY <1>2, <2>1 DEF MapOf, Drop
<1>4. ScreenTypes'
  BY <1>1, <1>3, FS_RemoveElement DEF FeedTypes, ScreenTypes
<1>5. GivesUp({o})
  BY <1>1, <1>2, SuspendsOne
<1>6. calls' \in Seq(Call)
  BY <1>5 DEF GivesUp
<1>7. \A p \in DOMAIN screens' : p # o /\ SameScreen(p)
  BY <1>3 DEF SameScreen
<1>8. TimersMatch'
  BY <1>1, <1>3 DEF TimersMatch
<1>9. Turn({}, {o})
  BY <1>1, <1>2, <1>3, <1>5, <1>7, <1>8, NobodyBegins DEF Turn, FeedTypes
<1> QED
  BY <1>1, <1>2, <1>4, <1>6, <1>9 DEF FeedTypes, EventTypes

\* What a screen is after a begin, a suspend and an update.
LEMMA BegunScreen ==
  ASSUME NEW s \in Screen, begun \in Nat
  PROVE  /\ Begun(s) \in Screen
         /\ Begun(s).request = s.request
         /\ Begun(s).epoch = begun + 1
         /\ Begun(s).generation = s.generation
         /\ Begun(s).mounted = s.mounted
         /\ Begun(s).releasing = s.releasing
         /\ Begun(s).latest = s.latest
<1>1. begun + 1 \in Nat
  OBVIOUS
<1>2. Begun(s) \in Screen
  BY <1>1 DEF Begun, Screen
<1>3. /\ Begun(s).request = s.request /\ Begun(s).generation = s.generation
      /\ Begun(s).latest = s.latest
  BY DEF Begun, Screen
<1>4. Begun(s).mounted = s.mounted /\ Begun(s).releasing = s.releasing
  BY DEF Begun, Screen
<1>5. Begun(s).epoch = begun + 1
  BY DEF Begun, Screen
<1> QED
  BY <1>2, <1>3, <1>4, <1>5

LEMMA SuspendedScreen ==
  ASSUME NEW s \in Screen
  PROVE  /\ Suspended(s) \in Screen
         /\ Suspended(s).epoch = 0
         /\ Suspended(s).generation = 0
         /\ Suspended(s).mounted = s.mounted
         /\ Suspended(s).releasing = s.releasing
         /\ Suspended(s).latest = s.latest
BY DEF Suspended, Screen

LEMMA AppliedScreen ==
  ASSUME NEW s \in Screen, NEW u \in Update
  PROVE  /\ Applied(s, u) \in Screen
         /\ Applied(s, u).request = s.request
         /\ Applied(s, u).epoch = s.epoch
         /\ Applied(s, u).generation = s.generation
         /\ Applied(s, u).mounted = s.mounted
         /\ Applied(s, u).releasing = s.releasing
         /\ Applied(s, u).failed = s.failed
<1>1. Shown(u) \in Pictured
  BY DEF Shown, Pictured, Update
<1> QED
  BY <1>1 DEF Applied, Screen

LEMMA RefreshTurn ==
  ASSUME FeedInv, steady, NEW o \in Owners, Refresh(o)
  PROVE  FeedTypes' /\ \E B, D \in SUBSET Owners : Turn(B, D)
<1>1. FeedTypes /\ TimersMatch
  BY DEF FeedInv
<1>2. /\ UNCHANGED <<conditions, visible, replies, notes, lagged, events, owners, generation,
                     calls>>
      /\ o \in DOMAIN screens /\ screens[o].generation = 0
      /\ begun' = begun + 1
      /\ screens' = [screens EXCEPT ![o] = Begun(screens[o])]
      /\ begins' = begins \cup {BeginOf(o, screens[o].request)}
  BY DEF Refresh, schedulerIdle, steady, vars
<1>3. screens[o] \in Screen /\ begun \in Nat
  BY <1>1, <1>2 DEF FeedTypes, ScreenTypes, MapOf
<1>4. /\ DOMAIN screens' = DOMAIN screens
      /\ screens'[o] = Begun(screens[o])
      /\ \A p \in DOMAIN screens \ {o} : screens'[p] = screens[p]
      /\ MapOf(screens', Owners, Screen)
  BY <1>1, <1>2, <1>3, BegunScreen DEF FeedTypes, ScreenTypes, MapOf
<1>5. ScreenTypes'
  BY <1>1, <1>4 DEF FeedTypes, ScreenTypes
<1>6. \A p \in DOMAIN screens' : p = o \/ SameScreen(p)
  BY <1>4 DEF SameScreen
<1>7. TimersMatch'
  BY <1>1, <1>2, <1>3, <1>4, BegunScreen DEF TimersMatch
<1>8. begins' = begins \cup {BeginOf(p, screens'[p].request) : p \in {o}}
  BY <1>2, <1>3, <1>4, BegunScreen
<1>9. BeginOf(o, screens[o].request) \in BeginCall
  BY <1>3 DEF BeginOf, BeginCall, Screen
<1>10. GivesUp({})
  BY <1>1, <1>2, CallsKept
<1>11. Turn({o}, {})
  BY <1>1, <1>2, <1>3, <1>4, <1>6, <1>7, <1>8, <1>10, BegunScreen DEF Turn, FeedTypes
<1> QED
  BY <1>1, <1>2, <1>5, <1>9, <1>11 DEF FeedTypes, EventTypes

LEMMA HideTurn ==
  ASSUME FeedInv, steady, Hide
  PROVE  FeedTypes' /\ \E B, D \in SUBSET Owners : Turn(B, D)
<1> DEFINE S == {o \in DOMAIN screens : screens[o].generation # 0}
           D == DOMAIN screens
<1>1. FeedTypes /\ TimersMatch
  BY DEF FeedInv
<1>2. /\ UNCHANGED <<conditions, replies, notes, lagged, events, owners, generation,
                     begun, begins>>
      /\ visible' = FALSE
      /\ screens' = [o \in DOMAIN screens |-> Suspended(screens[o])]
  BY DEF Hide, schedulerIdle, steady, vars
<1>3. \A o \in DOMAIN screens : screens[o] \in Screen /\ o \in Owners
  BY <1>1 DEF FeedTypes, ScreenTypes, MapOf
<1>4. DOMAIN screens' = D /\ \A o \in D : screens'[o] = Suspended(screens[o])
  BY <1>2
<1>5. MapOf(screens', Owners, Screen)
  BY <1>1, <1>2, <1>3, <1>4, SuspendedScreen DEF MapOf
<1>6. ScreenTypes'
  BY <1>1, <1>4, <1>5 DEF FeedTypes, ScreenTypes
<1>7. TimersMatch'
  BY <1>1, <1>3, <1>4, SuspendedScreen DEF TimersMatch
<1>8. GivesUp(D)
  <2>1. PICK order \in SetToSeqs(S) :
          calls' = calls \o [i \in DOMAIN order |->
                               UnsubscribeCall(order[i], screens[order[i]].generation)]
    BY DEF Hide
  <2>2. IsFiniteSet(S)
    BY <1>1, FS_Subset DEF FeedTypes, ScreenTypes
  <2>0. order \in SetToSeqs(S)
    OBVIOUS
  <2> DEFINE n == Cardinality(S)
             more == [i \in DOMAIN order |->
                        UnsubscribeCall(order[i], screens[order[i]].generation)]
  <2> HIDE DEF S, more
  <2>3. order \in [1..n -> S] /\ n \in Nat /\ \A x \in S : \E i \in 1..n : order[i] = x
    BY <2>0, <2>2, AllInOrder
  <2> USE DEF S, more
  <2> HIDE DEF n
  <2>4. \A x \in S : UnsubscribeCall(x, screens[x].generation) \in Call
    BY <1>3 DEF UnsubscribeCall, Call, GiveBack, Screen
  <2> HIDE DEF S
  <2>5. DOMAIN more = 1..n /\ more \in [1..n -> Call]
    BY <2>3, <2>4
  <2>6. more \in Seq(Call) /\ Len(more) = n
    BY <2>3, <2>5, SeqDef
  <2>7. \A i \in 1..n : order[i] \in S /\ more[i] = UnsubscribeCall(order[i], screens[order[i]].generation)
    BY <2>3
  <2> HIDE DEF more
  <2>8. calls' = calls \o more
    BY <2>1 DEF more
  <2>9. calls \in Seq(Call) /\ Len(calls) \in Nat
    BY <1>1, LenProperties DEF FeedTypes
  <2>10. /\ calls' \in Seq(Call) /\ Len(calls') = Len(calls) + n
         /\ \A i \in 1..(Len(calls) + n) :
              calls'[i] = IF i <= Len(calls) THEN calls[i] ELSE more[i - Len(calls)]
    BY <2>6, <2>8, <2>9, ConcatProperties
  <2>11. \A i \in 1..Len(calls) : calls'[i] = calls[i]
    BY <2>3, <2>9, <2>10
  <2>12. \A i \in 1..Len(calls') : i > Len(calls) =>
           i - Len(calls) \in 1..n /\ calls'[i] = more[i - Len(calls)]
    BY <2>3, <2>9, <2>10
  <2>13. ASSUME NEW i \in 1..Len(calls'), i > Len(calls)
         PROVE  \E o \in D : screens[o].generation # 0
                             /\ calls'[i] = UnsubscribeCall(o, screens[o].generation)
    BY <2>7, <2>12, <2>13 DEF S
  <2>14. ASSUME NEW o \in D, screens[o].generation # 0
         PROVE  \E i \in 1..Len(calls') : calls'[i] = UnsubscribeCall(o, screens[o].generation)
    <3>1. PICK i \in 1..n : order[i] = o
      BY <2>3, <2>14 DEF S
    <3> DEFINE k == i + Len(calls)
    <3>2. k \in 1..(Len(calls) + n) /\ ~(k <= Len(calls)) /\ k - Len(calls) = i
      BY <2>3, <2>9
    <3> HIDE DEF k
    <3>3. k \in 1..Len(calls') /\ calls'[k] = more[i]
      BY <3>2, <2>10
    <3> QED
      BY <3>1, <3>3, <2>7
  <2>15. Len(calls') >= Len(calls)
    BY <2>3, <2>9, <2>10
  <2>16. D \cap DOMAIN screens = D
    OBVIOUS
  <2> QED
    BY <2>10, <2>11, <2>13, <2>14, <2>15, <2>16 DEF GivesUp
<1>9. calls' \in Seq(Call)
  BY <1>8 DEF GivesUp
<1>10. \A o \in D : screens'[o].epoch = 0 /\ screens'[o].generation = 0
  BY <1>3, <1>4, SuspendedScreen
<1>11. D \in SUBSET Owners /\ D = DOMAIN screens
  BY <1>3
<1> HIDE DEF S, D
<1>12. Turn({}, D)
  <2>1. /\ begun' \in Nat /\ begun' >= begun
        /\ begins' = begins \cup {BeginOf(o, screens'[o].request) : o \in {}}
    BY <1>1, <1>2, NobodyBegins DEF FeedTypes
  <2>2. visible' \in BOOLEAN /\ ~visible' /\ DOMAIN screens' \subseteq D
    BY <1>2, <1>4
  <2>3. \A o \in DOMAIN screens' : o \in D /\ screens'[o].epoch = 0 /\ screens'[o].generation = 0
    BY <1>4, <1>10
  <2>4. DOMAIN screens \ D = {}
    BY <1>11
  <2> QED
    BY <1>2, <1>7, <1>8, <2>1, <2>2, <2>3, <2>4 DEF Turn
<1> QED
  BY <1>1, <1>2, <1>6, <1>9, <1>11, <1>12 DEF FeedTypes, EventTypes

LEMMA ShowTurn ==
  ASSUME FeedInv, steady, Show
  PROVE  FeedTypes' /\ \E B, D \in SUBSET Owners : Turn(B, D)
<1> DEFINE B == {o \in DOMAIN screens : screens[o].mounted}
<1>1. FeedTypes /\ TimersMatch /\ HiddenGaveUp
  BY DEF FeedInv
<1>2. /\ UNCHANGED <<conditions, replies, notes, lagged, events, owners, generation, calls>>
      /\ ~visible /\ visible' = TRUE
      /\ begun' = begun + 1
      /\ screens' = [p \in DOMAIN screens |->
                       IF screens[p].mounted THEN Begun(screens[p]) ELSE screens[p]]
      /\ begins' = begins \cup {BeginOf(p, screens[p].request) : p \in B}
  BY DEF Show, schedulerIdle, steady, vars
<1>3. /\ \A o \in DOMAIN screens : screens[o] \in Screen /\ o \in Owners
      /\ begun \in Nat
  BY <1>1 DEF FeedTypes, ScreenTypes, MapOf
<1>4. /\ DOMAIN screens' = DOMAIN screens
      /\ \A o \in B : screens'[o] = Begun(screens[o])
      /\ \A o \in DOMAIN screens \ B : screens'[o] = screens[o]
  BY <1>2
<1>5. \A o \in DOMAIN screens' : screens'[o] \in Screen
  BY <1>3, <1>4, BegunScreen
<1>6. ScreenTypes'
  <2>1. MapOf(screens', Owners, Screen)
    BY <1>2, <1>3, <1>5 DEF MapOf
  <2> QED
    BY <1>1, <1>4, <2>1 DEF FeedTypes, ScreenTypes
<1>7. TimersMatch'
  BY <1>1, <1>3, <1>4, BegunScreen DEF TimersMatch
<1>8. \A o \in B : BeginOf(o, screens[o].request) \in BeginCall
                   /\ screens'[o].request = screens[o].request
  BY <1>3, <1>4, BegunScreen DEF BeginOf, BeginCall, Screen
<1>9. begins' = begins \cup {BeginOf(o, screens'[o].request) : o \in B}
  BY <1>2, <1>8
<1>10. GivesUp({})
  BY <1>1, <1>2, CallsKept
<1>11. \A o \in DOMAIN screens : screens[o].generation = 0
  BY <1>1, <1>2 DEF HiddenGaveUp
<1>12. \A o \in B : screens'[o].epoch = begun + 1 /\ screens'[o].generation = 0
  BY <1>3, <1>4, <1>11, BegunScreen
<1>13. Ordered => \A o \in DOMAIN screens : o \in B
  BY <1>1 DEF Show, TimersRun, Ordered, TimersMatch
<1>14. B \in SUBSET Owners /\ begins' \subseteq BeginCall
  BY <1>1, <1>2, <1>3, <1>8 DEF FeedTypes
<1>15. \A o \in DOMAIN screens \ B : SameScreen(o)
  BY <1>4 DEF SameScreen
<1> HIDE DEF B
<1>16. B \subseteq DOMAIN screens
  BY DEF B
<1>17. Turn(B, {})
  BY <1>2, <1>3, <1>4, <1>7, <1>9, <1>10, <1>11, <1>12, <1>13, <1>14, <1>15, <1>16 DEF Turn
<1> QED
  BY <1>1, <1>2, <1>3, <1>6, <1>14, <1>17 DEF FeedTypes, EventTypes

-----------------------------------------------------------------------------
\* The turns that begin nothing and give up nothing: answers that are not a
\* subscription, events, and the steps of the forwarder and of the fetches.
LEMMA QuietTurn ==
  ASSUME FeedInv, steady, ScreenTypes', EventTypes', TimersMatch',
         UNCHANGED <<visible, begun, begins, calls, owners, generation>>,
         DOMAIN screens' = DOMAIN screens, \A o \in DOMAIN screens : SameScreen(o),
         \A reply \in replies' : Answers(reply) => reply \in replies,
         \A reply \in replies : Answers(reply) =>
           \/ reply \in replies'
           \/ ~Grants(reply) /\ (Awaited(reply)' => screens'[reply.owner].failed)
  PROVE  FeedTypes' /\ \E B, D \in SUBSET Owners : Turn(B, D)
<1>1. FeedTypes
  BY DEF FeedInv
<1>2. GivesUp({})
  BY <1>1, CallsKept
<1>3. Turn({}, {})
  BY <1>1, <1>2, NobodyBegins DEF Turn, FeedTypes, steady
<1> QED
  BY <1>1, <1>3 DEF FeedTypes, steady

LEMMA AppliedShape ==
  ASSUME FeedInv, NEW updates, IsUpdates(updates), screens' = AppliedAll(updates)
  PROVE  /\ ScreenTypes' /\ TimersMatch'
         /\ DOMAIN screens' = DOMAIN screens
         /\ \A o \in DOMAIN screens : SameScreen(o)
<1>1. ScreenTypes /\ TimersMatch
  BY DEF FeedInv, FeedTypes
<1>2. /\ \A o \in DOMAIN screens : screens[o] \in Screen
      /\ \A o \in DOMAIN updates : updates[o] \in Update
  BY <1>1 DEF ScreenTypes, IsUpdates, MapOf
<1>3. /\ DOMAIN screens' = DOMAIN screens
      /\ \A o \in DOMAIN screens :
           screens'[o] = IF o \in DOMAIN updates THEN Applied(screens[o], updates[o])
                         ELSE screens[o]
  BY DEF AppliedAll
<1>4. \A o \in DOMAIN screens :
        /\ screens'[o] \in Screen /\ SameScreen(o)
        /\ screens'[o].mounted = screens[o].mounted
        /\ screens'[o].releasing = screens[o].releasing
  BY <1>2, <1>3, AppliedScreen DEF SameScreen
<1>5. MapOf(screens', Owners, Screen)
  BY <1>1, <1>4 DEF MapOf, AppliedAll, ScreenTypes
<1> QED
  BY <1>1, <1>3, <1>4, <1>5 DEF ScreenTypes, TimersMatch

LEMMA DeliverTurn ==
  ASSUME FeedInv, steady, Deliver
  PROVE  FeedTypes' /\ \E B, D \in SUBSET Owners : Turn(B, D)
<1> DEFINE Maps == UNION {[D -> Update] : D \in SUBSET Owners}
<1>1. /\ UNCHANGED <<visible, begun, begins, calls, replies, owners, generation>>
      /\ events # <<>> /\ events' = Tail(events)
      /\ screens' = AppliedAll(Head(events))
  BY DEF Deliver, schedulerIdle, vars
<1>2. events \in Seq(Maps) /\ \A reply \in replies : IsReply(reply)
  BY DEF FeedInv, FeedTypes, EventTypes
<1> HIDE DEF Maps
<1>3. Head(events) \in Maps /\ Tail(events) \in Seq(Maps)
  BY <1>1, <1>2, HeadTailProperties
<1>4. IsUpdates(Head(events))
  BY <1>3 DEF Maps, IsUpdates, MapOf
<1>5. EventTypes'
  BY <1>1, <1>2, <1>3 DEF EventTypes, Maps
<1> QED
  BY <1>1, <1>4, <1>5, AppliedShape, QuietTurn

LEMMA RecoveredTurn ==
  ASSUME FeedInv, steady, NEW reply \in replies, ReceiveReply(reply), Recovered(reply)
  PROVE  FeedTypes' /\ \E B, D \in SUBSET Owners : Turn(B, D)
<1>1. /\ UNCHANGED <<visible, begun, begins, calls, events, owners, generation>>
      /\ replies' = replies \ {reply} /\ ~Answers(reply)
      /\ screens' = AppliedAll(reply.updates)
  BY DEF ReceiveReply, Recovered, Answers, schedulerIdle, vars
<1>2. IsUpdates(reply.updates) /\ EventTypes'
  BY <1>1 DEF FeedInv, FeedTypes, EventTypes, IsReply
<1> QED
  BY <1>1, <1>2, AppliedShape, QuietTurn

\* What an error does to the screens: it ends the begin that is current.
LEMMA FailedShape ==
  ASSUME FeedInv, NEW ask, screens' = Failed(ask)
  PROVE  /\ ScreenTypes' /\ TimersMatch'
         /\ DOMAIN screens' = DOMAIN screens
         /\ \A p \in DOMAIN screens : SameScreen(p)
         /\ \A p \in DOMAIN screens \ {ask.owner} : screens'[p] = screens[p]
         /\ Awaited(ask)' => screens'[ask.owner].failed
         /\ Awaited(ask) =>
              screens'[ask.owner].latest.generation = screens[ask.owner].generation
         /\ ~Awaited(ask) => screens' = screens
<1> DEFINE o == ask.owner
<1>1. ScreenTypes /\ TimersMatch
  BY DEF FeedInv, FeedTypes
<1>2. CASE Awaited(ask)
  <2>1. o \in DOMAIN screens /\ screens[o] \in Screen
    BY <1>1, <1>2 DEF Awaited, ScreenTypes, MapOf
  <2> DEFINE s == screens[o]
             shown == [s.latest EXCEPT !.generation = s.generation,
                                       !.revision = @ + 1, !.error = 1]
             new == [s EXCEPT !.failed = TRUE, !.latest = shown]
  <2>2. screens' = [screens EXCEPT ![o] = new]
    BY <1>2 DEF Failed, Awaited
  <2>3. s.latest \in Pictured /\ s.generation \in Nat /\ s.latest.revision + 1 \in Nat
    <3> HIDE DEF o, s
    <3>1. s \in Screen
      BY <2>1 DEF s
    <3>2. s.latest \in Pictured /\ s.generation \in Nat
      BY <3>1 DEF Screen
    <3>3. s.latest.revision \in Nat
      BY <3>2 DEF Pictured
    <3> QED
      BY <3>2, <3>3
  <2>4. shown \in Pictured /\ shown.generation = s.generation
    BY <2>3 DEF Pictured
  <2>5. /\ DOMAIN screens' = DOMAIN screens
        /\ \A p \in DOMAIN screens \ {o} : screens'[p] = screens[p]
    BY <2>2
  <2>6. screens'[o] = new
    BY <2>1, <2>2
  <2> HIDE DEF shown
  <2>7. /\ new \in Screen /\ new.failed /\ new.latest = shown
        /\ new.request = s.request /\ new.epoch = s.epoch /\ new.generation = s.generation
        /\ new.mounted = s.mounted /\ new.releasing = s.releasing
    <3>1. s \in Screen /\ shown \in Pictured
      BY <2>1, <2>4
    <3> HIDE DEF o, s
    <3> QED
      BY <3>1 DEF Screen
  <2> HIDE DEF new
  <2>8. MapOf(screens', Owners, Screen)
    <3>1. MapOf(screens, Owners, Screen) /\ new \in Screen
      BY <1>1, <2>7 DEF ScreenTypes
    <3> HIDE DEF o
    <3> QED
      BY <2>2, <3>1 DEF MapOf
  <2>9. \A p \in DOMAIN screens : SameScreen(p)
    BY <2>5, <2>6, <2>7 DEF SameScreen
  <2>10. TimersMatch'
    BY <1>1, <2>5, <2>6, <2>7 DEF TimersMatch
  <2> QED
    BY <1>1, <1>2, <2>4, <2>5, <2>6, <2>7, <2>8, <2>9, <2>10 DEF ScreenTypes
<1>3. CASE ~Awaited(ask)
  <2>1. screens' = screens
    BY <1>3 DEF Failed, Awaited
  <2> QED
    BY <1>1, <1>3, <2>1 DEF Awaited, ScreenTypes, TimersMatch, SameScreen
<1> QED
  BY <1>2, <1>3

LEMMA SubscribeFailedTurn ==
  ASSUME FeedInv, steady, NEW reply \in replies, ReceiveReply(reply), SubscribeFailed(reply)
  PROVE  FeedTypes' /\ \E B, D \in SUBSET Owners : Turn(B, D)
<1>1. /\ UNCHANGED <<visible, begun, begins, calls, events, owners, generation>>
      /\ replies' = replies \ {reply} /\ ~Grants(reply) /\ screens' = Failed(reply)
  BY DEF ReceiveReply, SubscribeFailed, Grants, schedulerIdle, vars
<1>2. EventTypes'
  BY <1>1 DEF FeedInv, FeedTypes, EventTypes
<1> QED
  BY <1>1, <1>2, FailedShape, QuietTurn

LEMMA RecoverTurn ==
  ASSUME FeedInv, steady, Recover
  PROVE  FeedTypes' /\ \E B, D \in SUBSET Owners : Turn(B, D)
<1> DEFINE o == CHOOSE p \in Owners : TRUE
           reply == [kind |-> "recovered", owner |-> o, epoch |-> 0, updates |-> latest]
<1>1. /\ UNCHANGED <<visible, begun, begins, calls, screens, events, owners, generation>>
      /\ replies' = replies \cup {reply}
  BY DEF Recover, schedulerIdle, vars
<1>2. ScreenTypes /\ TimersMatch /\ EventTypes /\ IsUpdates(latest)
  BY TypeOKMaps DEF FeedInv, FeedTypes, IInv, IsUpdates
<1>3. o \in Owners
  BY FeedAssumption
<1> HIDE DEF o
<1>4. IsReply(reply) /\ ~Answers(reply)
  BY <1>2, <1>3 DEF IsReply, Answers
<1> HIDE DEF reply
<1>5. EventTypes'
  BY <1>1, <1>2, <1>4 DEF EventTypes
<1>6. ScreenTypes' /\ TimersMatch' /\ \A p \in DOMAIN screens : SameScreen(p)
  BY <1>1, <1>2 DEF ScreenTypes, TimersMatch, SameScreen
<1> QED
  BY <1>1, <1>4, <1>5, <1>6, QuietTurn

LEMMA ForwardTurn ==
  ASSUME FeedInv, steady, Forward
  PROVE  FeedTypes' /\ \E B, D \in SUBSET Owners : Turn(B, D)
<1> DEFINE Maps == UNION {[D -> Update] : D \in SUBSET Owners}
<1>1. /\ UNCHANGED <<visible, begun, begins, calls, screens, replies, owners, generation>>
      /\ \/ events' = events
         \/ \E changed \in SUBSET DOMAIN latest :
              events' = Append(events, [o \in changed |-> latest[o]])
  BY DEF Forward, schedulerIdle, vars
<1>2. ScreenTypes /\ TimersMatch /\ EventTypes /\ IsUpdates(latest)
  BY TypeOKMaps DEF FeedInv, FeedTypes, IInv, IsUpdates
<1>3. events' \in Seq(Maps)
  <2>1. \A changed \in SUBSET DOMAIN latest : [o \in changed |-> latest[o]] \in Maps
    BY <1>2 DEF IsUpdates, MapOf
  <2>2. events \in Seq(Maps)
    BY <1>2 DEF EventTypes
  <2>3. \A map \in Maps : Append(events, map) \in Seq(Maps)
    <3> HIDE DEF Maps
    <3> QED
      BY <2>2, AppendProperties
  <2> QED
    BY <1>1, <2>1, <2>2, <2>3, Zenon
<1>4. EventTypes'
  BY <1>1, <1>2, <1>3 DEF EventTypes
<1>5. ScreenTypes' /\ TimersMatch' /\ \A p \in DOMAIN screens : SameScreen(p)
  BY <1>1, <1>2 DEF ScreenTypes, TimersMatch, SameScreen
<1> QED
  BY <1>1, <1>4, <1>5, QuietTurn

LEMMA CompleteTurn ==
  ASSUME FeedInv, steady, NEW t \in tasks, Complete(t)
  PROVE  FeedTypes' /\ \E B, D \in SUBSET Owners : Turn(B, D)
<1>1. UNCHANGED <<visible, begun, begins, calls, screens, replies, events, owners, generation>>
  BY DEF Complete, JoinNext
<1>2. ScreenTypes' /\ TimersMatch' /\ EventTypes' /\ \A p \in DOMAIN screens : SameScreen(p)
  BY <1>1 DEF FeedInv, FeedTypes, ScreenTypes, TimersMatch, EventTypes, SameScreen
<1> QED
  BY <1>1, <1>2, QuietTurn

LEMMA FetchStepTurn ==
  ASSUME FeedInv, steady, FetchStep
  PROVE  FeedTypes' /\ \E B, D \in SUBSET Owners : Turn(B, D)
<1>1. UNCHANGED <<visible, begun, begins, calls, screens, replies, events, owners, generation>>
  BY DEF FetchStep, Tick, FinishFetch, DueElapses, feedVars
<1>2. ScreenTypes' /\ TimersMatch' /\ EventTypes' /\ \A p \in DOMAIN screens : SameScreen(p)
  BY <1>1 DEF FeedInv, FeedTypes, ScreenTypes, TimersMatch, EventTypes, SameScreen
<1> QED
  BY <1>1, <1>2, QuietTurn

-----------------------------------------------------------------------------
\* The steps that move a token: a begin becomes a command, a command an answer,
\* an answer a screen's generation or a command that gives it back.
WebInv ==
  /\ FeedTypes
  /\ EpochsGiven
  /\ OneAskPerEpoch
  /\ AskedBeforeBound
  /\ HiddenGaveUp
  /\ OnePlacePerGeneration
  /\ TimersMatch

LEMMA Appended ==
  ASSUME FeedTypes, NEW c \in Call, calls' = Append(calls, c)
  PROVE  /\ calls' \in Seq(Call)
         /\ Len(calls) \in Nat /\ Len(calls') = Len(calls) + 1
         /\ \A i \in 1..Len(calls') :
              \/ i \in 1..Len(calls) /\ calls'[i] = calls[i]
              \/ i = Len(calls) + 1 /\ calls'[i] = c
         /\ \A i \in 1..Len(calls) : i \in 1..Len(calls') /\ calls'[i] = calls[i]
         /\ Len(calls) + 1 \in 1..Len(calls') /\ calls'[Len(calls) + 1] = c
<1>1. calls \in Seq(Call) /\ Len(calls) \in Nat
  BY LenProperties DEF FeedTypes
<1>2. /\ calls' \in Seq(Call) /\ Len(calls') = Len(calls) + 1
      /\ \A i \in 1..Len(calls) : calls'[i] = calls[i]
      /\ calls'[Len(calls) + 1] = c
  BY <1>1, CallAdded
<1> QED
  BY <1>1, <1>2

\* The place in calls of what is at place j when the call at i is gone.
Before(i, j) == IF j < i THEN j ELSE j + 1

LEMMA Handled ==
  ASSUME FeedTypes, NEW i \in 1..Len(calls), calls' = CallsWithout(i)
  PROVE  /\ calls' \in Seq(Call) /\ Len(calls) \in Nat /\ Len(calls') \in Nat
         /\ calls[i] \in Call
         /\ \A j \in 1..Len(calls') :
              /\ Before(i, j) \in 1..Len(calls) /\ Before(i, j) # i
              /\ calls'[j] = calls[Before(i, j)]
         /\ \A j, k \in 1..Len(calls') :
              /\ j <= k <=> Before(i, j) <= Before(i, k)
              /\ Before(i, j) = Before(i, k) => j = k
         /\ \A k \in 1..Len(calls) : k # i =>
              \E j \in 1..Len(calls') : Before(i, j) = k
<1>1. calls \in Seq(Call) /\ Len(calls) \in Nat /\ calls[i] \in Call
  BY LenProperties, ElementOfSeq DEF FeedTypes
<1>2. /\ calls' \in Seq(Call) /\ Len(calls') = Len(calls) - 1
      /\ \A j \in 1..(Len(calls) - 1) : calls'[j] = calls[Before(i, j)]
  BY <1>1, CallHandled DEF Before
<1>3. ASSUME NEW k \in 1..Len(calls), k # i
      PROVE  \E j \in 1..Len(calls') : Before(i, j) = k
  <2>1. CASE k < i
    <3>1. k \in 1..Len(calls') /\ Before(i, k) = k
      BY <1>1, <1>2, <2>1 DEF Before
    <3> QED
      BY <3>1
  <2>2. CASE k > i
    <3>1. k - 1 \in 1..Len(calls') /\ Before(i, k - 1) = k
      BY <1>1, <1>2, <2>2 DEF Before
    <3> QED
      BY <3>1
  <2> QED
    BY <1>1, <1>3, <2>1, <2>2
<1> QED
  BY <1>1, <1>2, <1>3 DEF Before

\* A begin that is still current is asked for.
LEMMA BeginAsked ==
  ASSUME FeedInv, steady, NEW b \in begins, BeginReady(b),
         Current(b.owner, b.epoch), visible
  PROVE  /\ WebInv'
         /\ KnownOrGivenBack => KnownOrGivenBack'
         /\ WaitsOrBound => WaitsOrBound'
<1> DEFINE c == [kind |-> "subscribe", owner |-> b.owner,
                 request |-> b.request, epoch |-> b.epoch]
<1>1. /\ UNCHANGED <<conditions, screens, visible, begun, replies, events, owners, generation>>
      /\ begins' = begins \ {b}
      /\ calls' = Append(calls, c)
  BY DEF BeginReady, schedulerIdle, vars, steady
<1>2. /\ FeedTypes /\ EpochsGiven /\ OneAskPerEpoch /\ AskedBeforeBound
      /\ HiddenGaveUp /\ OnePlacePerGeneration /\ TimersMatch
  BY DEF FeedInv
<1>3. b \in BeginCall /\ Awaited(b)
  BY <1>2 DEF FeedTypes, Current, Awaited
<1>4. /\ c \in Call /\ Asks(c) /\ ~GivesBack(c)
      /\ c.owner = b.owner /\ c.request = b.request /\ c.epoch = b.epoch
  BY <1>3 DEF BeginCall, Call, SubscribeCall, Asks, GivesBack
<1>5. SameAsk(b, c) /\ \A x : SameAsk(x, c) <=> SameAsk(x, b)
  BY <1>4 DEF SameAsk
<1> HIDE DEF c
<1>6. /\ calls' \in Seq(Call)
      /\ Len(calls) \in Nat /\ Len(calls') = Len(calls) + 1
      /\ \A i \in 1..Len(calls') :
           \/ i \in 1..Len(calls) /\ calls'[i] = calls[i]
           \/ i = Len(calls) + 1 /\ calls'[i] = c
      /\ \A i \in 1..Len(calls) : i \in 1..Len(calls') /\ calls'[i] = calls[i]
      /\ Len(calls) + 1 \in 1..Len(calls') /\ calls'[Len(calls) + 1] = c
  BY <1>1, <1>2, <1>4, Appended
<1>7. FeedTypes'
  BY <1>1, <1>2, <1>6 DEF FeedTypes, ScreenTypes, EventTypes
<1>8. EpochsGiven'
  BY <1>1, <1>2, <1>4, <1>6 DEF EpochsGiven, Asks
<1>9. OneAskPerEpoch'
  <2>1. \A x, y \in begins' : SameAsk(x, y) => x = y
    BY <1>1, <1>2 DEF OneAskPerEpoch
  <2>2. \A i, j \in 1..Len(calls') :
          Asks(calls'[i]) /\ Asks(calls'[j]) /\ SameAsk(calls'[i], calls'[j]) => i = j
    BY <1>1, <1>2, <1>4, <1>6 DEF OneAskPerEpoch, SameAsk
  <2>3. \A x \in begins', i \in 1..Len(calls') : Asks(calls'[i]) => ~SameAsk(x, calls'[i])
    BY <1>1, <1>2, <1>5, <1>6 DEF OneAskPerEpoch
  <2>4. \A i \in 1..Len(calls'), reply \in replies' :
          Asks(calls'[i]) /\ Answers(reply) => ~SameAsk(calls'[i], reply)
    BY <1>1, <1>2, <1>4, <1>6 DEF OneAskPerEpoch, SameAsk
  <2> QED
    BY <1>1, <1>2, <2>1, <2>2, <2>3, <2>4 DEF OneAskPerEpoch, Asks, Answers, SameAsk
<1>10. AskedBeforeBound'
  <2>1. b.request = screens[b.owner].request /\ screens[b.owner].generation = 0
    BY <1>2, <1>3 DEF AskedBeforeBound
  <2>2. ASSUME NEW i \in 1..Len(calls'), Asks(calls'[i]), Awaited(calls[i])'
        PROVE  /\ calls'[i].request = screens[calls'[i].owner].request
               /\ screens[calls'[i].owner].generation = 0
    BY <1>1, <1>2, <1>4, <1>6, <2>1, <2>2 DEF AskedBeforeBound, Awaited
  <2> QED
    BY <1>1, <1>2, <2>2 DEF AskedBeforeBound, Asks, Answers, Grants, Granted, Awaited
<1>11. OnePlacePerGeneration'
  <2>1. \A i \in 1..Len(calls') : GivesBack(calls'[i]) =>
          i \in 1..Len(calls) /\ calls'[i] = calls[i]
    BY <1>4, <1>6
  <2> QED
    BY <1>1, <1>2, <2>1 DEF OnePlacePerGeneration, GivesBack, Grants, Granted
<1>12. HiddenGaveUp' /\ TimersMatch'
  BY <1>1, <1>2 DEF HiddenGaveUp, TimersMatch
<1>13. KnownOrGivenBack => KnownOrGivenBack'
  BY <1>1, <1>6 DEF KnownOrGivenBack, Bound, Grants, Granted, UnsubscribeCall
<1>14. ASSUME WaitsOrBound PROVE WaitsOrBound'
  <2> SUFFICES ASSUME Ordered, NEW o \in DOMAIN screens, ~screens[o].failed
               PROVE  WaitsInTurn(o)' \/ (Bound(o)' /\ NoAskOf(o)')
    BY <1>1 DEF WaitsOrBound, Ordered
  <2>1. CASE b.owner = o
    <3>1. Asks(calls'[Len(calls) + 1]) /\ calls'[Len(calls) + 1].owner = o
          /\ calls'[Len(calls) + 1].epoch = screens'[o].epoch
      BY <1>1, <1>3, <1>4, <1>6, <2>1 DEF Awaited
    <3>2. \A j \in 1..Len(calls') : j <= Len(calls) + 1
      BY <1>6
    <3> QED
      BY <1>6, <3>1, <3>2, Zenon DEF WaitsInTurn, Asks
  <2>2. CASE b.owner # o
    <3>1. \A i \in 1..Len(calls') : Asks(calls'[i]) /\ calls'[i].owner = o =>
            i \in 1..Len(calls) /\ calls'[i] = calls[i]
      BY <1>4, <1>6, <2>2
    <3>2. NoAskOf(o) => NoAskOf(o)'
      BY <3>1, Zenon DEF NoAskOf, Asks
    <3>3. WaitsInTurn(o) \/ (Bound(o) /\ NoAskOf(o))
      BY <1>14 DEF WaitsOrBound
    <3>4. CASE \E x \in begins : x.owner = o /\ x.epoch = screens[o].epoch
      BY <1>1, <2>2, <3>4 DEF WaitsInTurn
    <3>5. CASE \E i \in 1..Len(calls) :
                 /\ Asks(calls[i]) /\ calls[i].owner = o /\ calls[i].epoch = screens[o].epoch
                 /\ \A j \in 1..Len(calls) : Asks(calls[j]) /\ calls[j].owner = o => j <= i
      <4>1. PICK i \in 1..Len(calls) :
                 /\ Asks(calls[i]) /\ calls[i].owner = o /\ calls[i].epoch = screens[o].epoch
                 /\ \A j \in 1..Len(calls) : Asks(calls[j]) /\ calls[j].owner = o => j <= i
        BY <3>5
      <4>2. \A j \in 1..Len(calls') : Asks(calls'[j]) /\ calls'[j].owner = o => j <= i
        BY <3>1, <4>1
      <4>3. i \in 1..Len(calls') /\ calls'[i] = calls[i] /\ screens' = screens
        BY <1>1, <1>6
      <4> QED
        BY <4>1, <4>2, <4>3, Zenon DEF WaitsInTurn, Asks
    <3>6. CASE \E reply \in replies :
                 /\ Answers(reply) /\ reply.owner = o /\ reply.epoch = screens[o].epoch
                 /\ Grants(reply) => /\ o \in DOMAIN owners
                                     /\ owners[o].generation = Granted(reply).generation
                                     /\ NoAskOf(o)
      BY <1>1, <3>2, <3>6, Zenon DEF WaitsInTurn, Answers, Grants, Granted
    <3>7. CASE Bound(o) /\ NoAskOf(o)
      BY <1>1, <3>2, <3>7 DEF Bound
    <3> QED
      BY <3>3, <3>4, <3>5, <3>6, <3>7, Zenon DEF WaitsInTurn
  <2> QED
    BY <2>1, <2>2
<1> QED
  BY <1>7, <1>8, <1>9, <1>10, <1>11, <1>12, <1>13, <1>14 DEF WebInv

\* A begin that was overtaken asks nothing.
LEMMA BeginDropped ==
  ASSUME FeedInv, steady, NEW b \in begins, BeginReady(b),
         ~(Current(b.owner, b.epoch) /\ visible)
  PROVE  /\ WebInv'
         /\ KnownOrGivenBack => KnownOrGivenBack'
         /\ WaitsOrBound => WaitsOrBound'
<1>1. /\ UNCHANGED <<conditions, screens, visible, begun, calls, replies, events, owners, generation>>
      /\ begins' = begins \ {b}
  BY DEF BeginReady, schedulerIdle, vars, steady
<1>2. /\ FeedTypes /\ EpochsGiven /\ OneAskPerEpoch /\ AskedBeforeBound
      /\ HiddenGaveUp /\ OnePlacePerGeneration /\ TimersMatch
  BY DEF FeedInv
<1>3. WebInv'
  <2>1. FeedTypes' /\ EpochsGiven'
    BY <1>1, <1>2 DEF FeedTypes, ScreenTypes, EventTypes, EpochsGiven
  <2>2. OneAskPerEpoch' /\ AskedBeforeBound'
    BY <1>1, <1>2 DEF OneAskPerEpoch, AskedBeforeBound, Awaited, Granted
  <2>3. HiddenGaveUp' /\ OnePlacePerGeneration' /\ TimersMatch'
    BY <1>1, <1>2 DEF HiddenGaveUp, OnePlacePerGeneration, TimersMatch, Granted
  <2> QED
    BY <2>1, <2>2, <2>3 DEF WebInv
<1>4. KnownOrGivenBack => KnownOrGivenBack'
  BY <1>1 DEF KnownOrGivenBack, Bound, Granted, UnsubscribeCall
<1>5. ASSUME WaitsOrBound PROVE WaitsOrBound'
  <2> SUFFICES ASSUME Ordered, visible, NEW o \in DOMAIN screens, ~screens[o].failed
               PROVE  WaitsInTurn(o)' \/ (Bound(o)' /\ NoAskOf(o)')
    BY <1>1 DEF WaitsOrBound, Ordered
  <2>1. screens[o].mounted
    BY <1>2 DEF BeginReady, TimersRun, Ordered, TimersMatch
  <2>2. b.owner = o => b.epoch # screens[o].epoch
    BY <2>1 DEF Current
  <2>3. WaitsInTurn(o) \/ (Bound(o) /\ NoAskOf(o))
    BY <1>5 DEF WaitsOrBound
  <2> QED
    BY <1>1, <2>2, <2>3 DEF WaitsInTurn, Bound, NoAskOf, Granted
<1> QED
  BY <1>3, <1>4, <1>5

\* A begin that found no listener: the screen shows an error, or was overtaken.
LEMMA ListenFailsKeeps ==
  ASSUME FeedInv, steady, NEW b \in begins, ListenFails(b)
  PROVE  /\ WebInv'
         /\ KnownOrGivenBack => KnownOrGivenBack'
         /\ WaitsOrBound => WaitsOrBound'
<1>1. /\ UNCHANGED <<conditions, visible, begun, calls, replies, events, owners, generation>>
      /\ begins' = begins \ {b} /\ screens' = Failed(b)
  BY DEF ListenFails, schedulerIdle, vars, steady
<1>2. /\ FeedTypes /\ EpochsGiven /\ OneAskPerEpoch /\ AskedBeforeBound
      /\ HiddenGaveUp /\ OnePlacePerGeneration
  BY DEF FeedInv
<1>3. /\ ScreenTypes' /\ TimersMatch' /\ DOMAIN screens' = DOMAIN screens
      /\ Awaited(b)' => screens'[b.owner].failed
      /\ \A o \in DOMAIN screens :
           /\ screens'[o].request = screens[o].request
           /\ screens'[o].epoch = screens[o].epoch
           /\ screens'[o].generation = screens[o].generation
           /\ screens[o].failed => screens'[o].failed
  BY <1>1, FailedShape DEF SameScreen
<1>4. WebInv'
  <2>1. FeedTypes' /\ EpochsGiven'
    BY <1>1, <1>2, <1>3 DEF FeedTypes, EventTypes, EpochsGiven
  <2>2. OneAskPerEpoch'
    BY <1>1, <1>2 DEF OneAskPerEpoch
  <2>3. AskedBeforeBound'
    BY <1>1, <1>2, <1>3 DEF AskedBeforeBound, Awaited, Granted
  <2>4. HiddenGaveUp' /\ OnePlacePerGeneration'
    BY <1>1, <1>2, <1>3 DEF HiddenGaveUp, OnePlacePerGeneration, Granted
  <2> QED
    BY <1>3, <2>1, <2>2, <2>3, <2>4 DEF WebInv
<1>5. KnownOrGivenBack => KnownOrGivenBack'
  BY <1>1, <1>3 DEF KnownOrGivenBack, Bound, Granted, UnsubscribeCall
<1>6. ASSUME WaitsOrBound PROVE WaitsOrBound'
  <2> SUFFICES ASSUME Ordered, visible, NEW o \in DOMAIN screens, ~screens'[o].failed
               PROVE  WaitsInTurn(o)' \/ (Bound(o)' /\ NoAskOf(o)')
    BY <1>1, <1>3 DEF WaitsOrBound, Ordered
  <2>1. b.owner = o => b.epoch # screens[o].epoch
    BY <1>3 DEF Awaited
  <2>2. WaitsInTurn(o) \/ (Bound(o) /\ NoAskOf(o))
    BY <1>3, <1>6 DEF WaitsOrBound
  <2> QED
    BY <1>1, <1>3, <2>1, <2>2 DEF WaitsInTurn, Bound, NoAskOf, Granted
<1> QED
  BY <1>4, <1>5, <1>6

\* The answer to a begin that was overtaken: the generation is given back.
LEMMA SubscribedStale ==
  ASSUME FeedInv, steady, NEW reply \in replies, ReceiveReply(reply), Subscribed(reply),
         ~Current(reply.owner, reply.epoch)
  PROVE  /\ WebInv'
         /\ KnownOrGivenBack => KnownOrGivenBack'
         /\ WaitsOrBound => WaitsOrBound'
<1> DEFINE p == reply.owner
           c == UnsubscribeCall(p, Granted(reply).generation)
<1>1. /\ UNCHANGED <<conditions, screens, visible, begun, begins, events, owners, generation>>
      /\ replies' = replies \ {reply} /\ Grants(reply)
      /\ calls' = Append(calls, c)
  BY DEF ReceiveReply, Subscribed, Grants, Granted, schedulerIdle, vars, steady
<1>2. /\ FeedTypes /\ EpochsGiven /\ OneAskPerEpoch /\ AskedBeforeBound
      /\ HiddenGaveUp /\ OnePlacePerGeneration /\ TimersMatch
  BY DEF FeedInv
<1>3. IsReply(reply) /\ Granted(reply).generation \in 1..generation /\ generation \in Nat
  BY <1>1, <1>2 DEF FeedTypes, EventTypes, OnePlacePerGeneration, FeedInv, IInv, TypeOK
<1>4. /\ c \in Call /\ ~Asks(c) /\ GivesBack(c)
      /\ c.owner = p /\ c.generation = Granted(reply).generation
  BY <1>3 DEF IsReply, Call, GiveBack, UnsubscribeCall, Asks, GivesBack
<1>5. \A o, g : c = UnsubscribeCall(o, g) <=> o = p /\ g = Granted(reply).generation
  BY DEF UnsubscribeCall
<1> HIDE DEF c
<1>6. /\ calls' \in Seq(Call)
      /\ Len(calls) \in Nat /\ Len(calls') = Len(calls) + 1
      /\ \A i \in 1..Len(calls') :
           \/ i \in 1..Len(calls) /\ calls'[i] = calls[i]
           \/ i = Len(calls) + 1 /\ calls'[i] = c
      /\ \A i \in 1..Len(calls) : i \in 1..Len(calls') /\ calls'[i] = calls[i]
      /\ Len(calls) + 1 \in 1..Len(calls') /\ calls'[Len(calls) + 1] = c
  BY <1>1, <1>2, <1>4, Appended
<1>7. FeedTypes'
  BY <1>1, <1>2, <1>6 DEF FeedTypes, ScreenTypes, EventTypes
<1>8. \A i \in 1..Len(calls') : Asks(calls'[i]) =>
        i \in 1..Len(calls) /\ calls'[i] = calls[i]
  BY <1>4, <1>6
<1>9. EpochsGiven'
  BY <1>1, <1>2, <1>8 DEF EpochsGiven, Asks, Answers
<1>10. OneAskPerEpoch'
  BY <1>1, <1>2, <1>8 DEF OneAskPerEpoch, Asks, Answers, SameAsk
<1>11. AskedBeforeBound'
  BY <1>1, <1>2, <1>8 DEF AskedBeforeBound, Asks, Answers, Grants, Granted, Awaited
<1>12. OnePlacePerGeneration'
  <2>1. \A i \in 1..Len(calls') : GivesBack(calls'[i]) =>
          /\ calls'[i].generation \in 1..generation
          /\ calls'[i].owner \in DOMAIN screens =>
               screens[calls'[i].owner].generation # calls'[i].generation
    BY <1>1, <1>2, <1>3, <1>4, <1>6 DEF OnePlacePerGeneration
  <2>2. ASSUME NEW other \in replies', Grants(other), NEW i \in 1..Len(calls'),
               GivesBack(calls'[i]), calls'[i].owner = other.owner
        PROVE  calls'[i].generation # Granted(other).generation
    BY <1>1, <1>2, <1>4, <1>6, <2>2 DEF OnePlacePerGeneration
  <2> QED
    BY <1>1, <1>2, <2>1, <2>2 DEF OnePlacePerGeneration, GivesBack, Grants, Granted
<1>13. HiddenGaveUp' /\ TimersMatch'
  BY <1>1, <1>2 DEF HiddenGaveUp, TimersMatch
<1>14. KnownOrGivenBack => KnownOrGivenBack'
  <2> SUFFICES ASSUME KnownOrGivenBack, NEW o \in DOMAIN owners, ~Bound(o)
               PROVE  \/ \E other \in replies' :
                           /\ Grants(other) /\ other.owner = o
                           /\ Granted(other).generation = owners[o].generation
                      \/ \E i \in 1..Len(calls') :
                           calls'[i] = UnsubscribeCall(o, owners[o].generation)
    BY <1>1 DEF KnownOrGivenBack, Bound, Grants, Granted, UnsubscribeCall
  <2> QED
    BY <1>1, <1>5, <1>6 DEF KnownOrGivenBack
<1>15. ASSUME WaitsOrBound PROVE WaitsOrBound'
  <2> SUFFICES ASSUME Ordered, visible, NEW o \in DOMAIN screens, ~screens[o].failed
               PROVE  WaitsInTurn(o)' \/ (Bound(o)' /\ NoAskOf(o)')
    BY <1>1 DEF WaitsOrBound, Ordered
  <2>1. screens[o].mounted
    BY <1>2 DEF ReceiveReply, TimersRun, Ordered, TimersMatch
  <2>2. p = o => reply.epoch # screens[o].epoch
    BY <2>1 DEF Current
  <2>3. NoAskOf(o) => NoAskOf(o)'
    BY <1>8, Zenon DEF NoAskOf, Asks
  <2>4. WaitsInTurn(o) \/ (Bound(o) /\ NoAskOf(o))
    BY <1>15 DEF WaitsOrBound
  <2>5. CASE \E x \in begins : x.owner = o /\ x.epoch = screens[o].epoch
    BY <1>1, <2>5 DEF WaitsInTurn
  <2>6. CASE \E i \in 1..Len(calls) :
               /\ Asks(calls[i]) /\ calls[i].owner = o /\ calls[i].epoch = screens[o].epoch
               /\ \A j \in 1..Len(calls) : Asks(calls[j]) /\ calls[j].owner = o => j <= i
    <3>1. PICK i \in 1..Len(calls) :
               /\ Asks(calls[i]) /\ calls[i].owner = o /\ calls[i].epoch = screens[o].epoch
               /\ \A j \in 1..Len(calls) : Asks(calls[j]) /\ calls[j].owner = o => j <= i
      BY <2>6
    <3>2. \A j \in 1..Len(calls') : Asks(calls'[j]) /\ calls'[j].owner = o => j <= i
      BY <1>8, <3>1
    <3>3. i \in 1..Len(calls') /\ calls'[i] = calls[i] /\ screens' = screens
      BY <1>1, <1>6
    <3> QED
      BY <3>1, <3>2, <3>3, Zenon DEF WaitsInTurn, Asks
  <2>7. CASE \E other \in replies :
               /\ Answers(other) /\ other.owner = o /\ other.epoch = screens[o].epoch
               /\ Grants(other) => /\ o \in DOMAIN owners
                                   /\ owners[o].generation = Granted(other).generation
                                   /\ NoAskOf(o)
    <3>1. PICK other \in replies :
               /\ Answers(other) /\ other.owner = o /\ other.epoch = screens[o].epoch
               /\ Grants(other) => /\ o \in DOMAIN owners
                                   /\ owners[o].generation = Granted(other).generation
                                   /\ NoAskOf(o)
      BY <2>7
    <3>2. other \in replies'
      BY <1>1, <2>2, <3>1
    <3> QED
      BY <1>1, <2>3, <3>1, <3>2, Zenon DEF WaitsInTurn, Answers, Grants, Granted
  <2>8. CASE Bound(o) /\ NoAskOf(o)
    BY <1>1, <2>3, <2>8 DEF Bound
  <2> QED
    BY <2>4, <2>5, <2>6, <2>7, <2>8, Zenon DEF WaitsInTurn
<1> QED
  BY <1>7, <1>9, <1>10, <1>11, <1>12, <1>13, <1>14, <1>15 DEF WebInv

\* The answer to the current begin: the screen has its generation.
LEMMA SubscribedCurrent ==
  ASSUME FeedInv, steady, NEW reply \in replies, ReceiveReply(reply), Subscribed(reply),
         Current(reply.owner, reply.epoch)
  PROVE  /\ WebInv'
         /\ KnownOrGivenBack => KnownOrGivenBack'
         /\ WaitsOrBound => WaitsOrBound'
<1> DEFINE p == reply.owner
           g == Granted(reply).generation
           kept == [screens[p] EXCEPT !.generation = g]
<1>1. /\ UNCHANGED <<conditions, visible, begun, begins, calls, events, owners, generation>>
      /\ replies' = replies \ {reply} /\ Grants(reply)
      /\ screens' = [screens EXCEPT ![p] = Applied(kept, Granted(reply))]
  BY DEF ReceiveReply, Subscribed, Grants, Granted, schedulerIdle, vars, steady
<1>2. /\ FeedTypes /\ EpochsGiven /\ OneAskPerEpoch /\ AskedBeforeBound
      /\ HiddenGaveUp /\ OnePlacePerGeneration /\ TimersMatch
  BY DEF FeedInv
<1>3. IsReply(reply) /\ g \in 1..generation /\ generation \in Nat
  BY <1>1, <1>2 DEF FeedTypes, EventTypes, OnePlacePerGeneration, FeedInv, IInv, TypeOK
<1>4. p \in DOMAIN screens /\ screens[p] \in Screen /\ Awaited(reply) /\ Answers(reply)
  BY <1>1, <1>2 DEF Current, FeedTypes, ScreenTypes, MapOf, Awaited, Answers, Grants
<1>5. /\ visible /\ screens[p].generation = 0
      /\ Granted(reply).request = screens[p].request
  BY <1>1, <1>2, <1>4 DEF AskedBeforeBound
<1>6. Granted(reply) \in Update
  BY <1>1, <1>3 DEF IsReply, IsUpdates, MapOf, Grants, Granted
<1>7. /\ kept \in Screen /\ kept.generation = g
      /\ kept.request = screens[p].request /\ kept.epoch = screens[p].epoch
      /\ kept.mounted = screens[p].mounted /\ kept.releasing = screens[p].releasing
      /\ kept.failed = screens[p].failed
  BY <1>3, <1>4 DEF Screen
<1> HIDE DEF kept
<1>8. /\ DOMAIN screens' = DOMAIN screens
      /\ screens'[p] \in Screen /\ screens'[p].generation = g
      /\ screens'[p].request = screens[p].request /\ screens'[p].epoch = screens[p].epoch
      /\ screens'[p].mounted = screens[p].mounted /\ screens'[p].releasing = screens[p].releasing
      /\ screens'[p].failed = screens[p].failed
      /\ \A o \in DOMAIN screens \ {p} : screens'[o] = screens[o]
  BY <1>1, <1>4, <1>6, <1>7, AppliedScreen
<1>9. ScreenTypes'
  BY <1>1, <1>2, <1>8 DEF FeedTypes, ScreenTypes, MapOf
<1>10. FeedTypes'
  BY <1>1, <1>2, <1>9 DEF FeedTypes, EventTypes
<1>11. EpochsGiven'
  BY <1>1, <1>2, <1>8 DEF EpochsGiven
<1>12. OneAskPerEpoch'
  BY <1>1, <1>2 DEF OneAskPerEpoch
\* Nobody else waits for this screen's epoch.
<1>13. \A x \in begins : Awaited(x)' => Awaited(x) /\ x.owner # p
  BY <1>1, <1>2, <1>4, <1>8 DEF Awaited, OneAskPerEpoch, SameAsk
<1>14. \A i \in 1..Len(calls) : Asks(calls[i]) /\ calls[i].owner \in DOMAIN screens
         /\ calls[i].epoch = screens'[calls[i].owner].epoch =>
         Awaited(calls[i]) /\ calls[i].owner # p
  BY <1>1, <1>2, <1>4, <1>8 DEF Awaited, OneAskPerEpoch, SameAsk
<1>15. \A other \in replies' : Answers(other) /\ Awaited(other)' =>
         other \in replies /\ Awaited(other) /\ other.owner # p
  BY <1>1, <1>2, <1>4, <1>8 DEF Awaited, OneAskPerEpoch, SameAsk
<1>16. AskedBeforeBound'
  <2>1. \A x \in begins' : Awaited(x)' =>
          x.request = screens'[x.owner].request /\ screens'[x.owner].generation = 0
    BY <1>1, <1>2, <1>8, <1>13 DEF AskedBeforeBound, Awaited
  <2>2. ASSUME NEW i \in 1..Len(calls'), Asks(calls'[i]), Awaited(calls[i])'
        PROVE  /\ calls'[i].request = screens'[calls'[i].owner].request
               /\ screens'[calls'[i].owner].generation = 0
               /\ visible'
    <3>1. calls' = calls
      BY <1>1
    <3>2. calls[i].owner \in DOMAIN screens /\ calls[i].epoch = screens'[calls[i].owner].epoch
      BY <1>8, <2>2, <3>1 DEF Awaited
    <3>3. Awaited(calls[i]) /\ calls[i].owner # p
      BY <1>14, <2>2, <3>1, <3>2
    <3> QED
      BY <1>1, <1>2, <1>8, <2>2, <3>1, <3>2, <3>3 DEF AskedBeforeBound
  <2>3. \A other \in replies' : Answers(other) /\ Awaited(other)' =>
          /\ screens'[other.owner].generation = 0
          /\ visible'
          /\ Grants(other) => Granted(other).request = screens'[other.owner].request
    BY <1>1, <1>2, <1>8, <1>15 DEF AskedBeforeBound, Awaited
  <2> QED
    BY <2>1, <2>2, <2>3 DEF AskedBeforeBound, Asks, Answers, Grants, Granted
<1>17. HiddenGaveUp'
  BY <1>1, <1>5 DEF HiddenGaveUp
<1>18. TimersMatch'
  BY <1>2, <1>8 DEF TimersMatch
<1>19. OnePlacePerGeneration'
  <2>1. \A o \in DOMAIN screens' : screens'[o].generation \in 0..generation'
    BY <1>1, <1>2, <1>3, <1>8 DEF OnePlacePerGeneration
  <2>2. \A i \in 1..Len(calls') : GivesBack(calls'[i]) =>
          /\ calls'[i].generation \in 1..generation'
          /\ calls'[i].owner \in DOMAIN screens' =>
               screens'[calls'[i].owner].generation # calls'[i].generation
    BY <1>1, <1>2, <1>8 DEF OnePlacePerGeneration
  <2>3. \A other \in replies' : Grants(other) =>
          /\ Granted(other).generation \in 1..generation'
          /\ other.owner \in DOMAIN screens' =>
               screens'[other.owner].generation # Granted(other).generation
    BY <1>1, <1>2, <1>8 DEF OnePlacePerGeneration
  <2> QED
    BY <1>1, <1>2, <2>1, <2>2, <2>3 DEF OnePlacePerGeneration, GivesBack, Grants, Granted
<1>20. KnownOrGivenBack => KnownOrGivenBack'
  <2> SUFFICES ASSUME KnownOrGivenBack, NEW o \in DOMAIN owners, ~Bound(o)'
               PROVE  \/ \E other \in replies' :
                           /\ Grants(other) /\ other.owner = o
                           /\ Granted(other).generation = owners[o].generation
                      \/ \E i \in 1..Len(calls) :
                           calls[i] = UnsubscribeCall(o, owners[o].generation)
    BY <1>1 DEF KnownOrGivenBack, Grants, Granted, UnsubscribeCall
  <2>1. ~(o = p /\ g = owners[o].generation)
    BY <1>1, <1>2, <1>4, <1>5, <1>8 DEF Bound, OnePlacePerGeneration
  <2>2. owners[o].generation # 0
    BY DEF FeedInv, IInv, GenerationsOrdered
  <2>3. ~Bound(o)
    BY <1>1, <1>5, <1>8, <2>2 DEF Bound
  <2> QED
    BY <1>1, <2>1, <2>3 DEF KnownOrGivenBack
<1>21. ASSUME WaitsOrBound PROVE WaitsOrBound'
  <2> SUFFICES ASSUME Ordered, visible, NEW o \in DOMAIN screens, ~screens'[o].failed
               PROVE  WaitsInTurn(o)' \/ (Bound(o)' /\ NoAskOf(o)')
    BY <1>1, <1>8 DEF WaitsOrBound, Ordered
  <2>1. WaitsInTurn(o) \/ (Bound(o) /\ NoAskOf(o))
    BY <1>8, <1>21 DEF WaitsOrBound
  <2>2. CASE o = p
    <3>1. ~ \E b \in begins : b.owner = o /\ b.epoch = screens[o].epoch
      BY <1>2, <1>4, <2>2 DEF Awaited, OneAskPerEpoch, SameAsk
    <3>2. ~ \E i \in 1..Len(calls) :
              Asks(calls[i]) /\ calls[i].owner = o /\ calls[i].epoch = screens[o].epoch
      BY <1>2, <1>4, <2>2 DEF Awaited, OneAskPerEpoch, SameAsk
    <3>3. \A other \in replies : Answers(other) /\ other.owner = o
            /\ other.epoch = screens[o].epoch => other = reply
      BY <1>2, <1>4, <2>2 DEF Awaited, OneAskPerEpoch, SameAsk
    <3>4. ~Bound(o)
      <4>1. o \in DOMAIN owners => owners[o].generation # 0
        BY DEF FeedInv, IInv, GenerationsOrdered
      <4> QED
        BY <1>5, <2>2, <4>1 DEF Bound
    <3>5. o \in DOMAIN owners /\ owners[o].generation = g /\ NoAskOf(o)
      BY <1>1, <2>1, <3>1, <3>2, <3>3, <3>4 DEF WaitsInTurn
    <3>6. owners[o].request = Granted(reply).request
      BY <1>1, <1>2, <2>2, <3>5 DEF OnePlacePerGeneration
    <3> QED
      BY <1>1, <1>5, <1>8, <2>2, <3>5, <3>6 DEF Bound, NoAskOf
  <2>3. CASE o # p
    <3>1. screens'[o] = screens[o]
      BY <1>8, <2>3
    <3> QED
      BY <1>1, <1>8, <2>1, <2>3, <3>1 DEF WaitsInTurn, Bound, NoAskOf, Granted, Grants, Answers
  <2> QED
    BY <2>2, <2>3
<1> QED
  BY <1>10, <1>11, <1>12, <1>16, <1>17, <1>18, <1>19, <1>20, <1>21 DEF WebInv

-----------------------------------------------------------------------------
\* A command that is refused: the answer carries no generation.
LEMMA RefuseKeeps ==
  ASSUME FeedInv, steady, NEW i \in 1..Len(calls), RefuseSubscribe(i)
  PROVE  /\ WebInv'
         /\ KnownOrGivenBack => KnownOrGivenBack'
         /\ WaitsOrBound => WaitsOrBound'
<1> DEFINE c == calls[i]
           r == [kind |-> "refused", owner |-> c.owner, epoch |-> c.epoch,
                 updates |-> EmptyMap]
<1>1. /\ UNCHANGED <<conditions, screens, visible, begun, begins, events, owners, generation>>
      /\ replies' = replies \cup {r} /\ Asks(c) /\ ~GivesBack(c)
      /\ calls' = CallsWithout(i)
  BY DEF RefuseSubscribe, Asks, GivesBack, schedulerIdle, vars, steady
<1>2. /\ FeedTypes /\ EpochsGiven /\ OneAskPerEpoch /\ AskedBeforeBound
      /\ HiddenGaveUp /\ OnePlacePerGeneration /\ TimersMatch
  BY DEF FeedInv
<1>3. /\ calls' \in Seq(Call) /\ Len(calls) \in Nat /\ Len(calls') \in Nat
      /\ c \in Call
      /\ \A j \in 1..Len(calls') :
           /\ Before(i, j) \in 1..Len(calls) /\ Before(i, j) # i
           /\ calls'[j] = calls[Before(i, j)]
      /\ \A j, k \in 1..Len(calls') :
           /\ j <= k <=> Before(i, j) <= Before(i, k)
           /\ Before(i, j) = Before(i, k) => j = k
      /\ \A k \in 1..Len(calls) : k # i =>
           \E j \in 1..Len(calls') : Before(i, j) = k
  BY <1>1, <1>2, Handled
<1>4. c.owner \in Owners /\ c.epoch \in Nat
  BY <1>1, <1>3 DEF Call, SubscribeCall, GiveBack, Asks
<1>5. /\ IsReply(r) /\ Answers(r) /\ ~Grants(r)
      /\ r.owner = c.owner /\ r.epoch = c.epoch
  BY <1>4, EmptyMapType DEF IsReply, IsUpdates, MapOf, Answers, Grants, EmptyMap
<1>6. \A x : SameAsk(r, x) <=> SameAsk(c, x)
  BY <1>5 DEF SameAsk
<1> HIDE DEF r, c
<1>7. FeedTypes'
  BY <1>1, <1>2, <1>3, <1>5 DEF FeedTypes, ScreenTypes, EventTypes
<1>8. EpochsGiven'
  <2>1. c.epoch \in 1..begun
    BY <1>1, <1>2 DEF EpochsGiven, c
  <2> QED
    <3>1. \A j \in 1..Len(calls') : \E k \in 1..Len(calls) : calls'[j] = calls[k]
      BY <1>3
    <3>2. EpochsGiven
      BY <1>2
    <3>3. /\ begins' = begins /\ begun' = begun /\ screens' = screens
          /\ replies' = replies \cup {r} /\ r.epoch \in 1..begun
      BY <1>1, <1>5, <2>1
    <3> QED
      BY <3>1, <3>2, <3>3 DEF EpochsGiven, Asks, Answers
<1>9. OneAskPerEpoch'
  <2>1. /\ \A b \in begins : ~SameAsk(b, c)
        /\ \A k \in 1..Len(calls) : Asks(calls[k]) /\ k # i => ~SameAsk(calls[k], c)
        /\ \A reply \in replies : Answers(reply) => ~SameAsk(c, reply)
    BY <1>1, <1>2 DEF OneAskPerEpoch, c
  <2>2. \A j, k \in 1..Len(calls') :
          Asks(calls'[j]) /\ Asks(calls'[k]) /\ SameAsk(calls'[j], calls'[k]) => j = k
    BY <1>2, <1>3 DEF OneAskPerEpoch
  <2>3. \A reply, other \in replies' :
          Answers(reply) /\ Answers(other) /\ SameAsk(reply, other) => reply = other
    BY <1>1, <1>2, <1>5, <2>1 DEF OneAskPerEpoch, SameAsk
  <2>4. \A b \in begins', j \in 1..Len(calls') : Asks(calls'[j]) => ~SameAsk(b, calls'[j])
    BY <1>1, <1>2, <1>3 DEF OneAskPerEpoch
  <2>5. \A b \in begins', reply \in replies' : Answers(reply) => ~SameAsk(b, reply)
    BY <1>1, <1>2, <1>5, <2>1 DEF OneAskPerEpoch, SameAsk
  <2>6. \A j \in 1..Len(calls'), reply \in replies' :
          Asks(calls'[j]) /\ Answers(reply) => ~SameAsk(calls'[j], reply)
    BY <1>1, <1>2, <1>3, <1>5, <2>1 DEF OneAskPerEpoch, SameAsk
  <2> QED
    BY <1>1, <1>2, <2>2, <2>3, <2>4, <2>5, <2>6 DEF OneAskPerEpoch, Asks, Answers, SameAsk
<1>10. AskedBeforeBound'
  <2>1. Awaited(r) => screens[r.owner].generation = 0 /\ visible
    BY <1>1, <1>2, <1>5 DEF AskedBeforeBound, Awaited, c
  <2>2. ASSUME NEW j \in 1..Len(calls'), Asks(calls'[j]), Awaited(calls[j])'
        PROVE  /\ calls'[j].request = screens[calls'[j].owner].request
               /\ screens[calls'[j].owner].generation = 0
               /\ visible
    BY <1>1, <1>2, <1>3, <2>2 DEF AskedBeforeBound, Awaited
  <2> QED
    BY <1>1, <1>2, <1>5, <2>1, <2>2 DEF AskedBeforeBound, Asks, Answers, Grants, Granted, Awaited
<1>11. OnePlacePerGeneration'
  <2>1. \A j \in 1..Len(calls') : GivesBack(calls'[j]) =>
          Before(i, j) \in 1..Len(calls) /\ calls'[j] = calls[Before(i, j)]
    BY <1>3
  <2>2. \A reply \in replies' : Grants(reply) => reply \in replies
    BY <1>1, <1>5
  <2> QED
    <3>1. /\ \A j \in 1..Len(calls') : \E k \in 1..Len(calls) : calls'[j] = calls[k]
          /\ screens' = screens /\ owners' = owners /\ generation' = generation
      BY <1>1, <2>1, <1>3
    <3>2. OnePlacePerGeneration
      BY <1>2
    <3>3. \A j \in 1..Len(calls') : GivesBack(calls'[j]) =>
            /\ calls'[j].generation \in 1..generation
            /\ calls'[j].owner \in DOMAIN screens =>
                 screens[calls'[j].owner].generation # calls'[j].generation
      BY <3>1, <3>2 DEF OnePlacePerGeneration
    <3>4. ASSUME NEW reply \in replies, Grants(reply)
          PROVE  \A j \in 1..Len(calls') :
                   GivesBack(calls'[j]) /\ calls'[j].owner = reply.owner =>
                     calls'[j].generation # Granted(reply).generation
      BY <3>1, <3>2, <3>4 DEF OnePlacePerGeneration
    <3> QED
      BY <2>2, <3>1, <3>2, <3>3, <3>4 DEF OnePlacePerGeneration, GivesBack, Grants, Granted
<1>12. HiddenGaveUp' /\ TimersMatch'
  BY <1>1, <1>2 DEF HiddenGaveUp, TimersMatch
<1>13. KnownOrGivenBack => KnownOrGivenBack'
  <2> SUFFICES ASSUME KnownOrGivenBack, NEW o \in DOMAIN owners, ~Bound(o)
               PROVE  \/ \E other \in replies' :
                           /\ Grants(other) /\ other.owner = o
                           /\ Granted(other).generation = owners[o].generation
                      \/ \E j \in 1..Len(calls') :
                           calls'[j] = UnsubscribeCall(o, owners[o].generation)
    BY <1>1 DEF KnownOrGivenBack, Bound, Grants, Granted, UnsubscribeCall
  <2>1. \A g : c # UnsubscribeCall(o, g)
    BY <1>1 DEF UnsubscribeCall, GivesBack
  <2>2. CASE \E k \in 1..Len(calls) : calls[k] = UnsubscribeCall(o, owners[o].generation)
    <3>1. PICK k \in 1..Len(calls) : calls[k] = UnsubscribeCall(o, owners[o].generation)
      BY <2>2
    <3>2. k # i
      BY <2>1, <3>1 DEF c
    <3>3. PICK j \in 1..Len(calls') : Before(i, j) = k
      BY <1>3, <3>2
    <3> QED
      BY <1>3, <3>1, <3>3
  <2> QED
    BY <1>1, <2>2 DEF KnownOrGivenBack
<1>14. ASSUME WaitsOrBound PROVE WaitsOrBound'
  <2> SUFFICES ASSUME Ordered, visible, NEW o \in DOMAIN screens, ~screens[o].failed
               PROVE  WaitsInTurn(o)' \/ (Bound(o)' /\ NoAskOf(o)')
    BY <1>1 DEF WaitsOrBound, Ordered
  <2>1. WaitsInTurn(o) \/ (Bound(o) /\ NoAskOf(o))
    BY <1>14 DEF WaitsOrBound
  <2>2. NoAskOf(o) => NoAskOf(o)'
    BY <1>3, Zenon DEF NoAskOf, Asks
  <2>3. CASE \E x \in begins : x.owner = o /\ x.epoch = screens[o].epoch
    BY <1>1, <2>3 DEF WaitsInTurn
  <2>4. CASE \E k \in 1..Len(calls) :
               /\ Asks(calls[k]) /\ calls[k].owner = o /\ calls[k].epoch = screens[o].epoch
               /\ \A j \in 1..Len(calls) : Asks(calls[j]) /\ calls[j].owner = o => j <= k
    <3>1. PICK k \in 1..Len(calls) :
               /\ Asks(calls[k]) /\ calls[k].owner = o /\ calls[k].epoch = screens[o].epoch
               /\ \A j \in 1..Len(calls) : Asks(calls[j]) /\ calls[j].owner = o => j <= k
      BY <2>4
    <3>2. CASE k = i
      <4>1. r \in replies' /\ r.owner = o /\ r.epoch = screens'[o].epoch
        BY <1>1, <1>5, <3>1, <3>2 DEF c
      <4> QED
        BY <1>5, <4>1, Zenon DEF WaitsInTurn, Answers, Grants
    <3>3. CASE k # i
      <4>1. PICK l \in 1..Len(calls') : Before(i, l) = k
        BY <1>3, <3>3
      <4>2. calls'[l] = calls[k] /\ screens' = screens
        BY <1>1, <1>3, <4>1
      <4>3. \A j \in 1..Len(calls') : Asks(calls'[j]) /\ calls'[j].owner = o => j <= l
        BY <1>3, <3>1, <4>1
      <4> QED
        BY <3>1, <4>2, <4>3, Zenon DEF WaitsInTurn, Asks
    <3> QED
      BY <3>2, <3>3
  <2>5. CASE \E other \in replies :
               /\ Answers(other) /\ other.owner = o /\ other.epoch = screens[o].epoch
               /\ Grants(other) => /\ o \in DOMAIN owners
                                   /\ owners[o].generation = Granted(other).generation
                                   /\ NoAskOf(o)
    <3>1. PICK other \in replies :
               /\ Answers(other) /\ other.owner = o /\ other.epoch = screens[o].epoch
               /\ Grants(other) => /\ o \in DOMAIN owners
                                   /\ owners[o].generation = Granted(other).generation
                                   /\ NoAskOf(o)
      BY <2>5
    <3>2. other \in replies'
      BY <1>1
    <3> QED
      BY <1>1, <2>2, <3>1, <3>2, Zenon DEF WaitsInTurn, Answers, Grants, Granted
  <2>6. CASE Bound(o) /\ NoAskOf(o)
    BY <1>1, <2>2, <2>6 DEF Bound
  <2> QED
    BY <2>1, <2>3, <2>4, <2>5, <2>6, Zenon DEF WaitsInTurn
<1> QED
  BY <1>7, <1>8, <1>9, <1>10, <1>11, <1>12, <1>13, <1>14 DEF WebInv

\* A command that gives back: the binding goes if the generation is its own.
GivenBack(i) ==
  /\ GivesBack(calls[i])
  /\ calls' = CallsWithout(i)
  /\ UNCHANGED <<screens, visible, begun, begins, replies, events, generation>>
  /\ DOMAIN owners' \subseteq DOMAIN owners
  /\ \A o \in DOMAIN owners' : owners'[o] = owners[o]
  /\ \A o \in DOMAIN owners \ DOMAIN owners' :
       o = calls[i].owner /\ owners[o].generation = calls[i].generation

LEMMA GiveBackHandled ==
  ASSUME FeedInv, steady, NEW i \in 1..Len(calls), GivenBack(i)
  PROVE  /\ WebInv'
         /\ WaitsOrBound => WaitsOrBound'
         /\ KnownOrGivenBack /\ (calls[i].owner \in DOMAIN owners' =>
                owners[calls[i].owner].generation # calls[i].generation)
              => KnownOrGivenBack'
<1> DEFINE c == calls[i]
<1>1. /\ UNCHANGED <<conditions, screens, visible, begun, begins, replies, events, generation>>
      /\ calls' = CallsWithout(i) /\ ~Asks(c)
      /\ DOMAIN owners' \subseteq DOMAIN owners
      /\ \A o \in DOMAIN owners' : owners'[o] = owners[o]
      /\ \A o \in DOMAIN owners \ DOMAIN owners' :
           o = c.owner /\ owners[o].generation = c.generation
  BY DEF GivenBack, steady, Asks, GivesBack
<1>2. /\ FeedTypes /\ EpochsGiven /\ OneAskPerEpoch /\ AskedBeforeBound
      /\ HiddenGaveUp /\ OnePlacePerGeneration /\ TimersMatch
  BY DEF FeedInv
<1>3. /\ calls' \in Seq(Call) /\ Len(calls) \in Nat /\ Len(calls') \in Nat
      /\ c \in Call
      /\ \A j \in 1..Len(calls') :
           /\ Before(i, j) \in 1..Len(calls) /\ Before(i, j) # i
           /\ calls'[j] = calls[Before(i, j)]
      /\ \A j, k \in 1..Len(calls') :
           /\ j <= k <=> Before(i, j) <= Before(i, k)
           /\ Before(i, j) = Before(i, k) => j = k
      /\ \A k \in 1..Len(calls) : k # i =>
           \E j \in 1..Len(calls') : Before(i, j) = k
  BY <1>1, <1>2, Handled
<1>0. GivesBack(c)
  BY DEF GivenBack
<1> HIDE DEF c
<1>4. FeedTypes'
  BY <1>1, <1>2, <1>3 DEF FeedTypes, ScreenTypes, EventTypes
<1>5. EpochsGiven'
  BY <1>1, <1>2, <1>3 DEF EpochsGiven, Asks, Answers
<1>6. OneAskPerEpoch'
  <2>1. \A j, k \in 1..Len(calls') :
          Asks(calls'[j]) /\ Asks(calls'[k]) /\ SameAsk(calls'[j], calls'[k]) => j = k
    BY <1>2, <1>3 DEF OneAskPerEpoch
  <2>2. \A b \in begins', j \in 1..Len(calls') : Asks(calls'[j]) => ~SameAsk(b, calls'[j])
    BY <1>1, <1>2, <1>3 DEF OneAskPerEpoch
  <2>3. \A j \in 1..Len(calls'), reply \in replies' :
          Asks(calls'[j]) /\ Answers(reply) => ~SameAsk(calls'[j], reply)
    BY <1>1, <1>2, <1>3 DEF OneAskPerEpoch
  <2> QED
    BY <1>1, <1>2, <2>1, <2>2, <2>3 DEF OneAskPerEpoch, Asks, Answers, SameAsk
<1>7. AskedBeforeBound'
  <2>1. ASSUME NEW j \in 1..Len(calls'), Asks(calls'[j]), Awaited(calls[j])'
        PROVE  /\ calls'[j].request = screens[calls'[j].owner].request
               /\ screens[calls'[j].owner].generation = 0
               /\ visible
    <3>1. PICK k \in 1..Len(calls) : calls'[j] = calls[k]
      BY <1>3
    <3>2. /\ screens' = screens /\ visible' = visible
          /\ Asks(calls[k]) /\ Awaited(calls[k])
      BY <1>1, <2>1, <3>1 DEF Awaited, Asks
    <3>3. AskedBeforeBound
      BY <1>2
    <3> QED
      BY <3>1, <3>2, <3>3 DEF AskedBeforeBound
  <2> QED
    BY <1>1, <1>2, <2>1 DEF AskedBeforeBound, Asks, Answers, Grants, Granted, Awaited
<1>8. OnePlacePerGeneration'
  <2>1. \A j \in 1..Len(calls') : GivesBack(calls'[j]) =>
          Before(i, j) \in 1..Len(calls) /\ calls'[j] = calls[Before(i, j)]
    BY <1>3
  <2>2. \A j \in 1..Len(calls') : GivesBack(calls'[j]) =>
          /\ calls'[j].generation \in 1..generation
          /\ calls'[j].owner \in DOMAIN screens =>
               screens[calls'[j].owner].generation # calls'[j].generation
    BY <1>2, <2>1 DEF OnePlacePerGeneration
  <2>3. \A reply \in replies : Grants(reply) =>
          /\ \A j \in 1..Len(calls') :
               GivesBack(calls'[j]) /\ calls'[j].owner = reply.owner =>
                 calls'[j].generation # Granted(reply).generation
          /\ reply.owner \in DOMAIN owners'
               /\ owners'[reply.owner].generation = Granted(reply).generation =>
                 owners'[reply.owner].request = Granted(reply).request
    <3>1. ASSUME NEW reply \in replies, Grants(reply),
                 NEW k \in 1..Len(calls), GivesBack(calls[k]), calls[k].owner = reply.owner
          PROVE  calls[k].generation # Granted(reply).generation
      BY <1>2, <3>1 DEF OnePlacePerGeneration
    <3>2. ASSUME NEW reply \in replies, Grants(reply), reply.owner \in DOMAIN owners,
                 owners[reply.owner].generation = Granted(reply).generation
          PROVE  owners[reply.owner].request = Granted(reply).request
      BY <1>2, <3>2 DEF OnePlacePerGeneration
    <3> QED
      BY <1>1, <2>1, <3>1, <3>2
  <2> QED
    BY <1>1, <1>2, <2>2, <2>3 DEF OnePlacePerGeneration, GivesBack, Grants, Granted
<1>9. HiddenGaveUp' /\ TimersMatch'
  BY <1>1, <1>2 DEF HiddenGaveUp, TimersMatch
<1>10. ASSUME KnownOrGivenBack,
              c.owner \in DOMAIN owners' => owners[c.owner].generation # c.generation
       PROVE  KnownOrGivenBack'
  <2> SUFFICES ASSUME NEW o \in DOMAIN owners', ~Bound(o)
               PROVE  \/ \E other \in replies :
                           /\ Grants(other) /\ other.owner = o
                           /\ Granted(other).generation = owners[o].generation
                      \/ \E j \in 1..Len(calls') :
                           calls'[j] = UnsubscribeCall(o, owners[o].generation)
    BY <1>1 DEF KnownOrGivenBack, Bound, Grants, Granted, UnsubscribeCall
  <2>1. CASE \E k \in 1..Len(calls) : calls[k] = UnsubscribeCall(o, owners[o].generation)
    <3>1. PICK k \in 1..Len(calls) : calls[k] = UnsubscribeCall(o, owners[o].generation)
      BY <2>1
    <3>2. calls[k].owner = o /\ calls[k].generation = owners[o].generation
      BY <3>1 DEF UnsubscribeCall
    <3>3. k # i
      BY <1>10, <3>2 DEF c
    <3>4. PICK j \in 1..Len(calls') : Before(i, j) = k
      BY <1>3, <3>3
    <3> QED
      BY <1>3, <3>1, <3>4
  <2> QED
    BY <1>1, <1>10, <2>1 DEF KnownOrGivenBack
<1>11. ASSUME WaitsOrBound PROVE WaitsOrBound'
  <2> SUFFICES ASSUME Ordered, visible, NEW o \in DOMAIN screens, ~screens[o].failed
               PROVE  WaitsInTurn(o)' \/ (Bound(o)' /\ NoAskOf(o)')
    BY <1>1 DEF WaitsOrBound, Ordered
  <2>1. WaitsInTurn(o) \/ (Bound(o) /\ NoAskOf(o))
    BY <1>11 DEF WaitsOrBound
  <2>2. NoAskOf(o) => NoAskOf(o)'
    BY <1>3, Zenon DEF NoAskOf, Asks
  <2>3. CASE \E x \in begins : x.owner = o /\ x.epoch = screens[o].epoch
    BY <1>1, <2>3 DEF WaitsInTurn
  <2>4. CASE \E k \in 1..Len(calls) :
               /\ Asks(calls[k]) /\ calls[k].owner = o /\ calls[k].epoch = screens[o].epoch
               /\ \A j \in 1..Len(calls) : Asks(calls[j]) /\ calls[j].owner = o => j <= k
    <3>1. PICK k \in 1..Len(calls) :
               /\ Asks(calls[k]) /\ calls[k].owner = o /\ calls[k].epoch = screens[o].epoch
               /\ \A j \in 1..Len(calls) : Asks(calls[j]) /\ calls[j].owner = o => j <= k
      BY <2>4
    <3>2. PICK l \in 1..Len(calls') : Before(i, l) = k
      BY <1>1, <1>3, <3>1 DEF c
    <3>3. calls'[l] = calls[k] /\ screens' = screens
      BY <1>1, <1>3, <3>2
    <3>4. \A j \in 1..Len(calls') : Asks(calls'[j]) /\ calls'[j].owner = o => j <= l
      BY <1>3, <3>1, <3>2
    <3> QED
      BY <3>1, <3>3, <3>4, Zenon DEF WaitsInTurn, Asks
  <2>5. CASE \E other \in replies :
               /\ Answers(other) /\ other.owner = o /\ other.epoch = screens[o].epoch
               /\ Grants(other) => /\ o \in DOMAIN owners
                                   /\ owners[o].generation = Granted(other).generation
                                   /\ NoAskOf(o)
    <3>1. PICK other \in replies :
               /\ Answers(other) /\ other.owner = o /\ other.epoch = screens[o].epoch
               /\ Grants(other) => /\ o \in DOMAIN owners
                                   /\ owners[o].generation = Granted(other).generation
                                   /\ NoAskOf(o)
      BY <2>5
    <3>2. Grants(other) => o \in DOMAIN owners' /\ owners'[o] = owners[o]
      BY <1>0, <1>1, <1>2, <3>1 DEF OnePlacePerGeneration, c
    <3>3. Grants(other) => /\ o \in DOMAIN owners'
                           /\ owners'[o].generation = Granted(other).generation
                           /\ NoAskOf(o)'
      BY <2>2, <3>1, <3>2
    <3> QED
      BY <1>1, <3>1, <3>3, Zenon DEF WaitsInTurn, Answers, Grants, Granted
  <2>6. CASE Bound(o) /\ NoAskOf(o)
    <3>1. o \in DOMAIN owners' /\ owners'[o] = owners[o]
      BY <1>0, <1>1, <1>2, <2>6 DEF OnePlacePerGeneration, Bound, c
    <3> QED
      BY <1>1, <2>2, <2>6, <3>1 DEF Bound
  <2> QED
    BY <2>1, <2>3, <2>4, <2>5, <2>6, Zenon DEF WaitsInTurn
<1> QED
  BY <1>4, <1>5, <1>6, <1>7, <1>8, <1>9, <1>10, <1>11 DEF WebInv, c

-----------------------------------------------------------------------------
\* The scheduler's part of a step is one of its own steps.
LEMMA ScheduledStep ==
  ASSUME FeedInv, FeedNext
  PROVE  [Next]_vars /\ phase' = "running"
<1>1. CASE HandleCall
  <2>1. PICK i \in 1..Len(calls) :
          \/ HandleSubscribe(i) \/ RefuseSubscribe(i)
          \/ HandleUnsubscribe(i) \/ LoseUnsubscribe(i)
    BY <1>1 DEF HandleCall
  <2>2. calls[i] \in Call
    BY ElementOfSeq DEF FeedInv, FeedTypes
  <2>3. CASE HandleSubscribe(i)
    <3>1. calls[i].owner \in Owners /\ calls[i].request \in Requests
      BY <2>2, <2>3 DEF HandleSubscribe, Call, SubscribeCall, GiveBack
    <3>2. Subscribe(calls[i].owner, calls[i].request)
      BY <2>3 DEF HandleSubscribe
    <3> QED
      BY <3>1, <3>2 DEF Next, Subscribe
  <2>4. CASE HandleUnsubscribe(i)
    <3>1. \/ UNCHANGED vars
          \/ calls[i].owner \in DOMAIN owners /\ Unsubscribe(calls[i].owner, calls[i].generation)
      BY <2>4 DEF HandleUnsubscribe, schedulerIdle
    <3>2. CASE UNCHANGED vars
      BY <3>2 DEF FeedInv, vars
    <3>3. CASE calls[i].owner \in DOMAIN owners /\ Unsubscribe(calls[i].owner, calls[i].generation)
      <4>1. calls[i].generation \in 1..generation /\ calls[i].owner \in Owners
        BY <3>3 DEF Unsubscribe, FeedInv, IInv, GenerationsOrdered, TypeOK
      <4> QED
        BY <3>3, <4>1 DEF Next, Unsubscribe
    <3> QED
      BY <3>1, <3>2, <3>3
  <2>5. CASE RefuseSubscribe(i) \/ LoseUnsubscribe(i)
    BY <2>5 DEF RefuseSubscribe, LoseUnsubscribe, schedulerIdle, FeedInv, vars
  <2> QED
    BY <2>1, <2>3, <2>4, <2>5
<1>2. CASE \E t \in tasks : Complete(t)
  BY <1>2 DEF Complete, JoinNext, Next
<1>3. CASE FetchStep
  BY <1>3 DEF FetchStep, Tick, FinishFetch, DueElapses, Next, FeedInv
<1>4. CASE schedulerIdle
  BY <1>4 DEF schedulerIdle, FeedInv, vars
<1>5. ASSUME NEW o \in Owners, NEW r \in Requests, Mount(o, r) PROVE schedulerIdle
  BY <1>5 DEF Mount
<1>6. ASSUME NEW o \in Owners, Unmount(o) \/ ReleaseTimer(o) \/ Refresh(o) PROVE schedulerIdle
  BY <1>6 DEF Unmount, ReleaseTimer, Refresh
<1>7. CASE Hide \/ Show \/ Deliver \/ Recover \/ Forward
  BY <1>4, <1>7 DEF Hide, Show, Deliver, Recover, Forward
<1>8. ASSUME NEW b \in begins, BeginReady(b) \/ ListenFails(b) PROVE schedulerIdle
  BY <1>8 DEF BeginReady, ListenFails
<1>9. ASSUME NEW reply \in replies, ReceiveReply(reply) PROVE schedulerIdle
  BY <1>9 DEF ReceiveReply
<1>10. conditions.screens \subseteq Owners
  BY DEF FeedInv, FeedTypes
<1> QED
  BY <1>1, <1>2, <1>3, <1>4, <1>5, <1>6, <1>7, <1>8, <1>9, <1>10 DEF FeedNext

LEMMA SchedulerKept ==
  ASSUME FeedInv, FeedNext
  PROVE  IInv' /\ PublishedIsCurrent' /\ phase' = "running"
BY ScheduledStep, NextInv, PublishedStep DEF FeedInv

\* A subscription: the answer carries the generation of the new binding.
LEMMA SubscribeKeeps ==
  ASSUME FeedInv, steady, IInv', PublishedIsCurrent',
         NEW i \in 1..Len(calls), HandleSubscribe(i)
  PROVE  /\ WebInv'
         /\ KnownOrGivenBack => KnownOrGivenBack'
         /\ WaitsOrBound => WaitsOrBound'
<1> DEFINE c == calls[i]
           r == [kind |-> "subscribed", owner |-> c.owner, epoch |-> c.epoch,
                 updates |-> latest']
<1>1. /\ UNCHANGED <<conditions, screens, visible, begun, begins, events>>
      /\ replies' = replies \cup {r} /\ Asks(c) /\ ~GivesBack(c)
      /\ calls' = CallsWithout(i)
      /\ Subscribe(c.owner, c.request)
  BY DEF HandleSubscribe, Asks, GivesBack, steady
<1>2. /\ FeedTypes /\ EpochsGiven /\ OneAskPerEpoch /\ AskedBeforeBound
      /\ HiddenGaveUp /\ OnePlacePerGeneration /\ TimersMatch
      /\ IInv /\ generation \in Nat
  BY DEF FeedInv, IInv, TypeOK
<1>3. /\ calls' \in Seq(Call) /\ Len(calls) \in Nat /\ Len(calls') \in Nat
      /\ c \in Call
      /\ \A j \in 1..Len(calls') :
           /\ Before(i, j) \in 1..Len(calls) /\ Before(i, j) # i
           /\ calls'[j] = calls[Before(i, j)]
      /\ \A j, k \in 1..Len(calls') :
           /\ j <= k <=> Before(i, j) <= Before(i, k)
           /\ Before(i, j) = Before(i, k) => j = k
      /\ \A k \in 1..Len(calls) : k # i =>
           \E j \in 1..Len(calls') : Before(i, j) = k
  BY <1>1, <1>2, Handled
<1>4. c.owner \in Owners /\ c.epoch \in Nat /\ c.request \in Requests
  BY <1>1, <1>3 DEF Call, SubscribeCall, GiveBack, Asks
<1> HIDE DEF c
<1>5. /\ DOMAIN owners' = DOMAIN owners \cup {c.owner}
      /\ owners'[c.owner].request = c.request
      /\ owners'[c.owner].generation = generation + 1
      /\ \A p \in DOMAIN owners : p # c.owner => owners'[p] = owners[p]
      /\ generation' = generation + 1
      /\ c.request \in DOMAIN entries'
  <2>1. SubscribeEffect(c.owner, c.request)
    BY <1>1, <1>2, <1>4, SubscribeShape
  <2> QED
    BY <2>1 DEF SubscribeEffect
<1>6. /\ IsUpdates(latest')
      /\ c.owner \in DOMAIN latest'
      /\ latest'[c.owner].request = c.request
      /\ latest'[c.owner].generation = generation + 1
  <2>1. MapOf(latest', Owners, Update)
    BY TypeOKMaps DEF IInv, TypeOK, MapOf
  <2>2. latest' = View(owners', entries', revision')
    BY <1>1 DEF Subscribe, Publish
  <2> QED
    BY <1>5, <2>1, <2>2 DEF View, IsUpdates
<1>7. /\ IsReply(r) /\ Answers(r) /\ Grants(r)
      /\ r.owner = c.owner /\ r.epoch = c.epoch
      /\ Granted(r).generation = generation + 1 /\ Granted(r).request = c.request
  BY <1>4, <1>6 DEF IsReply, Answers, Grants, Granted
<1> HIDE DEF r
<1>8. FeedTypes'
  BY <1>1, <1>2, <1>3, <1>7 DEF FeedTypes, ScreenTypes, EventTypes
<1>9. EpochsGiven'
  <2>1. c.epoch \in 1..begun
    BY <1>1, <1>2 DEF EpochsGiven, c
  <2>2. \A j \in 1..Len(calls') : Asks(calls'[j]) => calls'[j].epoch \in 1..begun
    BY <1>2, <1>3 DEF EpochsGiven
  <2>3. \A reply \in replies' : Answers(reply) => reply.epoch \in 1..begun
    BY <1>1, <1>2, <1>7, <2>1 DEF EpochsGiven
  <2> QED
    BY <1>1, <1>2, <2>2, <2>3 DEF EpochsGiven, Asks, Answers
<1>10. OneAskPerEpoch'
  <2>1. /\ \A b \in begins : ~SameAsk(b, c)
        /\ \A k \in 1..Len(calls) : Asks(calls[k]) /\ k # i => ~SameAsk(calls[k], c)
        /\ \A reply \in replies : Answers(reply) => ~SameAsk(c, reply)
    BY <1>1, <1>2 DEF OneAskPerEpoch, c
  <2>2. \A j, k \in 1..Len(calls') :
          Asks(calls'[j]) /\ Asks(calls'[k]) /\ SameAsk(calls'[j], calls'[k]) => j = k
    BY <1>2, <1>3 DEF OneAskPerEpoch
  <2>3. \A reply, other \in replies' :
          Answers(reply) /\ Answers(other) /\ SameAsk(reply, other) => reply = other
    BY <1>1, <1>2, <1>7, <2>1 DEF OneAskPerEpoch, SameAsk
  <2>4. \A b \in begins', j \in 1..Len(calls') : Asks(calls'[j]) => ~SameAsk(b, calls'[j])
    BY <1>1, <1>2, <1>3 DEF OneAskPerEpoch
  <2>5. \A b \in begins', reply \in replies' : Answers(reply) => ~SameAsk(b, reply)
    BY <1>1, <1>2, <1>7, <2>1 DEF OneAskPerEpoch, SameAsk
  <2>6. \A j \in 1..Len(calls'), reply \in replies' :
          Asks(calls'[j]) /\ Answers(reply) => ~SameAsk(calls'[j], reply)
    <3>1. \A j \in 1..Len(calls'), reply \in replies :
            Asks(calls'[j]) /\ Answers(reply) => ~SameAsk(calls'[j], reply)
      BY <1>2, <1>3 DEF OneAskPerEpoch
    <3>2. \A j \in 1..Len(calls') : Asks(calls'[j]) => ~SameAsk(calls'[j], r)
      BY <1>3, <1>7, <2>1 DEF SameAsk
    <3> QED
      BY <1>1, <3>1, <3>2
  <2> QED
    BY <1>1, <1>2, <2>2, <2>3, <2>4, <2>5, <2>6 DEF OneAskPerEpoch, Asks, Answers, SameAsk
<1>11. AskedBeforeBound'
  <2>1. Awaited(r) => /\ screens[r.owner].generation = 0 /\ visible
                      /\ Granted(r).request = screens[r.owner].request
    BY <1>1, <1>2, <1>7 DEF AskedBeforeBound, Awaited, c
  <2>2. ASSUME NEW j \in 1..Len(calls'), Asks(calls'[j]), Awaited(calls[j])'
        PROVE  /\ calls'[j].request = screens[calls'[j].owner].request
               /\ screens[calls'[j].owner].generation = 0
               /\ visible
    <3>1. PICK k \in 1..Len(calls) : calls'[j] = calls[k]
      BY <1>3
    <3>2. /\ screens' = screens /\ visible' = visible
          /\ Asks(calls[k]) /\ Awaited(calls[k])
      BY <1>1, <2>2, <3>1 DEF Awaited, Asks
    <3>3. AskedBeforeBound
      BY <1>2
    <3> QED
      BY <3>1, <3>2, <3>3 DEF AskedBeforeBound
  <2>3. \A reply \in replies' : Answers(reply) /\ Awaited(reply) =>
          /\ screens[reply.owner].generation = 0 /\ visible
          /\ Grants(reply) => Granted(reply).request = screens[reply.owner].request
    BY <1>1, <1>2, <2>1 DEF AskedBeforeBound
  <2> QED
    BY <1>1, <1>2, <2>2, <2>3 DEF AskedBeforeBound, Asks, Answers, Grants, Granted, Awaited
<1>12. OnePlacePerGeneration'
  <2>1. \A o \in DOMAIN screens : screens[o].generation \in 0..generation
    BY <1>2 DEF OnePlacePerGeneration
  <2>2. \A j \in 1..Len(calls') : GivesBack(calls'[j]) =>
          /\ calls'[j].generation \in 1..generation
          /\ calls'[j].owner \in DOMAIN screens =>
               screens[calls'[j].owner].generation # calls'[j].generation
    <3>1. \A j \in 1..Len(calls') : \E k \in 1..Len(calls) : calls'[j] = calls[k]
      BY <1>3
    <3>2. OnePlacePerGeneration
      BY <1>2
    <3> QED
      BY <3>1, <3>2 DEF OnePlacePerGeneration
  <2>3. ASSUME NEW reply \in replies, Grants(reply)
        PROVE  /\ Granted(reply).generation \in 1..generation
               /\ reply.owner \in DOMAIN screens =>
                    screens[reply.owner].generation # Granted(reply).generation
               /\ \A j \in 1..Len(calls') :
                    GivesBack(calls'[j]) /\ calls'[j].owner = reply.owner =>
                      calls'[j].generation # Granted(reply).generation
    BY <1>2, <1>3, <2>3 DEF OnePlacePerGeneration
  <2>4. ASSUME NEW reply \in replies, Grants(reply), reply.owner \in DOMAIN owners',
               owners'[reply.owner].generation = Granted(reply).generation
        PROVE  owners'[reply.owner].request = Granted(reply).request
    <3>1. reply.owner # c.owner
      BY <1>2, <1>5, <2>3, <2>4
    <3>2. owners'[reply.owner] = owners[reply.owner] /\ reply.owner \in DOMAIN owners
      BY <1>5, <2>4, <3>1
    <3> QED
      BY <1>2, <2>4, <3>2 DEF OnePlacePerGeneration
  <2>5. /\ r.owner \in DOMAIN screens => screens[r.owner].generation # Granted(r).generation
        /\ \A j \in 1..Len(calls') : GivesBack(calls'[j]) =>
             calls'[j].generation # Granted(r).generation
        /\ \A reply \in replies : Grants(reply) =>
             Granted(reply).generation # Granted(r).generation
        /\ owners'[r.owner].request = Granted(r).request
    BY <1>2, <1>5, <1>7, <2>1, <2>2, <2>3
  <2>6. ASSUME NEW reply \in replies', Grants(reply)
        PROVE  /\ Granted(reply).generation \in 1..generation'
               /\ reply.owner \in DOMAIN screens =>
                    screens[reply.owner].generation # Granted(reply).generation
               /\ \A j \in 1..Len(calls') :
                    GivesBack(calls'[j]) /\ calls'[j].owner = reply.owner =>
                      calls'[j].generation # Granted(reply).generation
               /\ reply.owner \in DOMAIN owners'
                    /\ owners'[reply.owner].generation = Granted(reply).generation =>
                      owners'[reply.owner].request = Granted(reply).request
    <3>1. CASE reply = r
      BY <1>2, <1>5, <1>7, <2>5, <3>1
    <3>2. CASE reply # r
      <4>1. reply \in replies
        BY <1>1, <3>2
      <4> QED
        BY <1>2, <1>5, <2>3, <2>4, <2>6, <4>1
    <3> QED
      BY <3>1, <3>2
  <2>7. \A reply, other \in replies' :
          /\ Grants(reply) /\ Grants(other) /\ reply.owner = other.owner
          /\ Granted(reply).generation = Granted(other).generation
          => reply = other
    BY <1>1, <1>2, <2>5 DEF OnePlacePerGeneration
  <2>8. /\ \A o \in DOMAIN screens : screens[o].generation \in 0..generation'
        /\ \A j \in 1..Len(calls') : GivesBack(calls'[j]) => calls'[j].generation \in 1..generation'
    BY <1>2, <1>5, <2>1, <2>2
  <2>9. screens' = screens
    BY <1>1
  <2> QED
    BY <2>2, <2>6, <2>7, <2>8, <2>9, Zenon
       DEF OnePlacePerGeneration, GivesBack, Grants, Granted
<1>13. HiddenGaveUp' /\ TimersMatch'
  BY <1>1, <1>2 DEF HiddenGaveUp, TimersMatch
<1>14. ASSUME KnownOrGivenBack PROVE KnownOrGivenBack'
  <2> SUFFICES ASSUME NEW o \in DOMAIN owners', ~Bound(o)'
               PROVE  \/ \E other \in replies' :
                           /\ Grants(other) /\ other.owner = o
                           /\ Granted(other).generation = owners'[o].generation
                      \/ \E j \in 1..Len(calls') :
                           calls'[j] = UnsubscribeCall(o, owners'[o].generation)
    BY DEF KnownOrGivenBack, Grants, Granted, UnsubscribeCall
  <2>1. CASE o = c.owner
    BY <1>1, <1>5, <1>7, <2>1
  <2>2. CASE o # c.owner
    <3>1. o \in DOMAIN owners /\ owners'[o] = owners[o] /\ screens' = screens
      BY <1>1, <1>5, <2>2
    <3>2. ~Bound(o)
      BY <3>1 DEF Bound
    <3>3. \A g : c # UnsubscribeCall(o, g)
      BY <1>1 DEF UnsubscribeCall, GivesBack
    <3>4. CASE \E k \in 1..Len(calls) : calls[k] = UnsubscribeCall(o, owners[o].generation)
      <4>1. PICK k \in 1..Len(calls) : calls[k] = UnsubscribeCall(o, owners[o].generation)
        BY <3>4
      <4>2. k # i
        BY <3>3, <4>1 DEF c
      <4>3. PICK j \in 1..Len(calls') : Before(i, j) = k
        BY <1>3, <4>2
      <4> QED
        BY <1>3, <3>1, <4>1, <4>3
    <3> QED
      BY <1>1, <1>14, <3>1, <3>2, <3>4 DEF KnownOrGivenBack
  <2> QED
    BY <2>1, <2>2
<1>15. ASSUME WaitsOrBound PROVE WaitsOrBound'
  <2> SUFFICES ASSUME Ordered, visible, NEW o \in DOMAIN screens, ~screens[o].failed
               PROVE  WaitsInTurn(o)' \/ (Bound(o)' /\ NoAskOf(o)')
    BY <1>1 DEF WaitsOrBound, Ordered
  <2>1. WaitsInTurn(o) \/ (Bound(o) /\ NoAskOf(o))
    BY <1>15 DEF WaitsOrBound
  <2>2. NoAskOf(o) => NoAskOf(o)' /\ o # c.owner
    <3>1. NoAskOf(o) => o # c.owner
      BY <1>1 DEF NoAskOf, c
    <3>2. NoAskOf(o) => NoAskOf(o)'
      BY <1>3, Zenon DEF NoAskOf, Asks
    <3> QED
      BY <3>1, <3>2
  <2>3. CASE \E x \in begins : x.owner = o /\ x.epoch = screens[o].epoch
    BY <1>1, <2>3 DEF WaitsInTurn
  <2>4. CASE \E k \in 1..Len(calls) :
               /\ Asks(calls[k]) /\ calls[k].owner = o /\ calls[k].epoch = screens[o].epoch
               /\ \A j \in 1..Len(calls) : Asks(calls[j]) /\ calls[j].owner = o => j <= k
    <3>1. PICK k \in 1..Len(calls) :
               /\ Asks(calls[k]) /\ calls[k].owner = o /\ calls[k].epoch = screens[o].epoch
               /\ \A j \in 1..Len(calls) : Asks(calls[j]) /\ calls[j].owner = o => j <= k
      BY <2>4
    <3>2. CASE k = i
      <4>1. r \in replies' /\ r.owner = o /\ r.epoch = screens'[o].epoch
        BY <1>1, <1>7, <3>1, <3>2 DEF c
      <4>2. i = 1
        BY DEF HandleSubscribe, Waiting, Ordered
      <4>3. \A j \in 1..Len(calls') : ~(Asks(calls'[j]) /\ calls'[j].owner = o)
        <5> SUFFICES ASSUME NEW j \in 1..Len(calls'), Asks(calls'[j]), calls'[j].owner = o
                     PROVE  FALSE
          OBVIOUS
        <5>1. Before(i, j) \in 1..Len(calls) /\ Before(i, j) # i /\ Before(i, j) <= i
          BY <1>3, <3>1, <3>2
        <5> QED
          BY <1>3, <4>2, <5>1
      <4>4. NoAskOf(o)'
        BY <4>3, Zenon DEF NoAskOf, Asks
      <4>5. o \in DOMAIN owners' /\ owners'[o].generation = Granted(r).generation
        BY <1>5, <1>7, <4>1
      <4> QED
        BY <1>7, <4>1, <4>4, <4>5, Zenon DEF WaitsInTurn, Answers, Grants, Granted
    <3>3. CASE k # i
      <4>1. PICK l \in 1..Len(calls') : Before(i, l) = k
        BY <1>3, <3>3
      <4>2. calls'[l] = calls[k] /\ screens' = screens
        BY <1>1, <1>3, <4>1
      <4>3. \A j \in 1..Len(calls') : Asks(calls'[j]) /\ calls'[j].owner = o => j <= l
        BY <1>3, <3>1, <4>1
      <4> QED
        BY <3>1, <4>2, <4>3, Zenon DEF WaitsInTurn, Asks
    <3> QED
      BY <3>2, <3>3
  <2>5. CASE \E other \in replies :
               /\ Answers(other) /\ other.owner = o /\ other.epoch = screens[o].epoch
               /\ Grants(other) => /\ o \in DOMAIN owners
                                   /\ owners[o].generation = Granted(other).generation
                                   /\ NoAskOf(o)
    <3>1. PICK other \in replies :
               /\ Answers(other) /\ other.owner = o /\ other.epoch = screens[o].epoch
               /\ Grants(other) => /\ o \in DOMAIN owners
                                   /\ owners[o].generation = Granted(other).generation
                                   /\ NoAskOf(o)
      BY <2>5
    <3>2. other \in replies' /\ screens' = screens
      BY <1>1
    <3>3. Grants(other) => /\ o \in DOMAIN owners'
                           /\ owners'[o].generation = Granted(other).generation
                           /\ NoAskOf(o)'
      BY <1>5, <2>2, <3>1
    <3> QED
      BY <3>1, <3>2, <3>3, Zenon DEF WaitsInTurn, Answers, Grants, Granted
  <2>6. CASE Bound(o) /\ NoAskOf(o)
    <3>1. o \in DOMAIN owners' /\ owners'[o] = owners[o] /\ screens' = screens
      BY <1>1, <1>5, <2>2, <2>6 DEF Bound
    <3> QED
      BY <2>2, <2>6, <3>1 DEF Bound
  <2> QED
    BY <2>1, <2>3, <2>4, <2>5, <2>6, Zenon DEF WaitsInTurn
<1> QED
  BY <1>8, <1>9, <1>10, <1>11, <1>12, <1>13, <1>14, <1>15 DEF WebInv

-----------------------------------------------------------------------------
\* Every step of the composition is a turn or moves one token.
LEMMA TurnKeeps ==
  ASSUME FeedInv, FeedTypes', \E B, D \in SUBSET Owners : Turn(B, D)
  PROVE  /\ WebInv'
         /\ KnownOrGivenBack => KnownOrGivenBack'
         /\ WaitsOrBound => WaitsOrBound'
<1>1. PICK B \in SUBSET Owners, D \in SUBSET Owners : Turn(B, D)
  OBVIOUS
<1>2. ScreenTypes' /\ TimersMatch'
  BY <1>1 DEF FeedTypes, Turn
<1>3. EpochsGiven' /\ OneAskPerEpoch'
  BY <1>1, <1>2, TurnEpochs
<1>4. AskedBeforeBound' /\ HiddenGaveUp' /\ OnePlacePerGeneration'
  BY <1>1, <1>2, TurnPlaces
<1>5. KnownOrGivenBack => KnownOrGivenBack'
  BY <1>1, <1>2, TurnKnown
<1>6. WaitsOrBound => WaitsOrBound'
  BY <1>1, <1>2, TurnWaits
<1> QED
  BY <1>2, <1>3, <1>4, <1>5, <1>6 DEF WebInv

LEMMA HandleCallKeeps ==
  ASSUME FeedInv, steady, IInv', PublishedIsCurrent', HandleCall
  PROVE  /\ WebInv'
         /\ KnownOrGivenBack /\ Len(calls) <= CommandQueue => KnownOrGivenBack'
         /\ WaitsOrBound => WaitsOrBound'
<1>1. PICK i \in 1..Len(calls) :
        \/ HandleSubscribe(i) \/ RefuseSubscribe(i)
        \/ HandleUnsubscribe(i) \/ LoseUnsubscribe(i)
  BY DEF HandleCall
<1>2. CASE HandleSubscribe(i)
  BY <1>2, SubscribeKeeps
<1>3. CASE RefuseSubscribe(i)
  BY <1>3, RefuseKeeps
<1>4. CASE HandleUnsubscribe(i)
  <2> DEFINE o == calls[i].owner
             bound == o \in DOMAIN owners /\ owners[o].generation = calls[i].generation
  <2>1. /\ GivesBack(calls[i]) /\ calls' = CallsWithout(i)
        /\ UNCHANGED <<screens, visible, begun, begins, replies, events>>
        /\ IF bound THEN Unsubscribe(o, calls[i].generation) ELSE UNCHANGED <<owners, generation>>
    BY <1>4 DEF HandleUnsubscribe, GivesBack, schedulerIdle, vars
  <2>2. CASE bound
    <3>1. o \in Owners /\ Unsubscribe(o, calls[i].generation)
      BY <2>1, <2>2 DEF FeedInv, IInv, TypeOK
    <3>2. UnsubscribeEffect(o)
      BY <3>1, UnsubscribeShape DEF FeedInv
    <3>3. GivenBack(i) /\ o \notin DOMAIN owners'
      BY <2>1, <2>2, <3>2 DEF GivenBack, UnsubscribeEffect
    <3> QED
      BY <3>3, GiveBackHandled
  <2>3. CASE ~bound
    <3>1. GivenBack(i) /\ UNCHANGED owners
      BY <2>1, <2>3 DEF GivenBack
    <3> QED
      BY <2>3, <3>1, GiveBackHandled
  <2> QED
    BY <2>2, <2>3
<1>5. CASE LoseUnsubscribe(i)
  <2>1. GivenBack(i)
    BY <1>5 DEF LoseUnsubscribe, GivenBack, GivesBack, schedulerIdle, vars
  <2>2. ~(Len(calls) <= CommandQueue)
    <3>1. Len(calls) \in Nat /\ CommandQueue \in Nat /\ Len(calls) > CommandQueue
      BY <1>5, LenProperties, FeedAssumption DEF LoseUnsubscribe, FeedInv, FeedTypes
    <3> QED
      BY <3>1
  <2> QED
    BY <2>1, <2>2, GiveBackHandled
<1> QED
  BY <1>1, <1>2, <1>3, <1>4, <1>5

LEMMA ReceiveReplyKeeps ==
  ASSUME FeedInv, steady, NEW reply \in replies, ReceiveReply(reply)
  PROVE  /\ WebInv'
         /\ KnownOrGivenBack => KnownOrGivenBack'
         /\ WaitsOrBound => WaitsOrBound'
<1>1. CASE Subscribed(reply)
  BY <1>1, SubscribedStale, SubscribedCurrent
<1>2. CASE SubscribeFailed(reply)
  BY <1>2, SubscribeFailedTurn, TurnKeeps
<1>3. CASE Recovered(reply)
  BY <1>3, RecoveredTurn, TurnKeeps
<1> QED
  BY <1>1, <1>2, <1>3 DEF ReceiveReply

LEMMA FeedStep ==
  ASSUME FeedInv, FeedNext
  PROVE  /\ FeedInv'
         /\ KnownOrGivenBack /\ Len(calls) <= CommandQueue => KnownOrGivenBack'
         /\ WaitsOrBound => WaitsOrBound'
<1>1. IInv' /\ PublishedIsCurrent' /\ phase' = "running" /\ steady
  BY SchedulerKept DEF FeedNext
<1> SUFFICES /\ WebInv'
             /\ KnownOrGivenBack /\ Len(calls) <= CommandQueue => KnownOrGivenBack'
             /\ WaitsOrBound => WaitsOrBound'
  BY <1>1 DEF WebInv, FeedInv
<1>2. CASE \E o \in conditions.screens, r \in Requests : Mount(o, r)
  <2>1. conditions.screens \subseteq Owners
    BY DEF FeedInv, FeedTypes
  <2> QED
    BY <1>1, <1>2, <2>1, MountTurn, TurnKeeps
<1>3. CASE \E o \in Owners : Unmount(o) \/ ReleaseTimer(o) \/ Refresh(o)
  BY <1>1, <1>3, UnmountTurn, ReleaseTimerTurn, RefreshTurn, TurnKeeps
<1>4. CASE Hide \/ Show
  BY <1>1, <1>4, HideTurn, ShowTurn, TurnKeeps
<1>5. CASE \E b \in begins : BeginReady(b) \/ ListenFails(b)
  BY <1>1, <1>5, BeginAsked, BeginDropped, ListenFailsKeeps
<1>6. CASE \E reply \in replies : ReceiveReply(reply)
  BY <1>1, <1>6, ReceiveReplyKeeps
<1>7. CASE Deliver \/ Recover \/ Forward
  BY <1>1, <1>7, DeliverTurn, RecoverTurn, ForwardTurn, TurnKeeps
<1>8. CASE HandleCall
  BY <1>1, <1>8, HandleCallKeeps
<1>9. CASE (\E t \in tasks : Complete(t)) \/ FetchStep
  BY <1>1, <1>9, CompleteTurn, FetchStepTurn, TurnKeeps
<1> QED
  BY <1>2, <1>3, <1>4, <1>5, <1>6, <1>7, <1>8, <1>9 DEF FeedNext

\* Nothing happens to the web view, the commands or the scheduler in a stutter.
LEMMA FeedStutter ==
  ASSUME FeedInv, UNCHANGED allVars
  PROVE  /\ FeedInv'
         /\ KnownOrGivenBack => KnownOrGivenBack'
         /\ WaitsOrBound => WaitsOrBound'
<1>1. IInv' /\ PublishedIsCurrent' /\ phase' = "running"
  BY NextInv, PublishedStep DEF FeedInv, allVars, vars
<1>2. UNCHANGED <<conditions, screens, visible, begun, begins, calls, replies, events,
                  owners, generation>>
  BY DEF allVars, vars, feedVars
<1>3. steady /\ ScreenTypes' /\ EventTypes' /\ TimersMatch'
      /\ \A o \in DOMAIN screens : SameScreen(o)
  BY <1>2 DEF FeedInv, FeedTypes, steady, ScreenTypes, EventTypes, TimersMatch, SameScreen
<1>4. FeedTypes' /\ \E B, D \in SUBSET Owners : Turn(B, D)
  BY <1>2, <1>3, QuietTurn
<1> QED
  BY <1>1, <1>4, TurnKeeps DEF WebInv, FeedInv

LEMMA FeedInitInv == FeedInit => FeedInv /\ KnownOrGivenBack /\ WaitsOrBound
<1> SUFFICES ASSUME FeedInit PROVE FeedInv /\ KnownOrGivenBack /\ WaitsOrBound
  OBVIOUS
<1>1. /\ screens = EmptyMap /\ visible = TRUE /\ begun = 0 /\ begins = {}
      /\ calls = <<>> /\ replies = {} /\ events = <<>> /\ conditions \in Conditions
      /\ owners = EmptyMap /\ phase = "running" /\ Init
  BY DEF FeedInit, Init
<1>2. DOMAIN screens = {} /\ DOMAIN owners = {} /\ MapOf(screens, Owners, Screen)
  BY <1>1 DEF EmptyMap, MapOf
<1>3. IInv /\ PublishedIsCurrent
  BY <1>1, InitInv DEF Init, PublishedIsCurrent, View, EmptyMap
<1>4. calls \in Seq(Call) /\ Len(calls) = 0
      /\ events \in Seq(UNION {[D -> Update] : D \in SUBSET Owners})
  BY <1>1
<1>5. FeedTypes
  BY <1>1, <1>2, <1>4, FS_EmptySet, FeedAssumption DEF FeedTypes, ScreenTypes, EventTypes
<1>6. EpochsGiven /\ OneAskPerEpoch
  BY <1>1, <1>2, <1>4 DEF EpochsGiven, OneAskPerEpoch
<1>7. AskedBeforeBound /\ HiddenGaveUp /\ TimersMatch
  BY <1>1, <1>2, <1>4 DEF AskedBeforeBound, HiddenGaveUp, TimersMatch
<1>8. OnePlacePerGeneration
  BY <1>1, <1>2, <1>4 DEF OnePlacePerGeneration
<1>9. KnownOrGivenBack /\ WaitsOrBound
  BY <1>2 DEF KnownOrGivenBack, WaitsOrBound
<1> QED
  BY <1>1, <1>3, <1>5, <1>6, <1>7, <1>8, <1>9 DEF FeedInv

-----------------------------------------------------------------------------
\* The composition keeps the scheduler's invariant and its own.
LEMMA FeedInvariant == FeedSpec => []FeedInv
<1>1. FeedInit => FeedInv
  BY FeedInitInv
<1>2. FeedInv /\ [FeedNext]_allVars => FeedInv'
  BY FeedStep, FeedStutter
<1> QED
  BY <1>1, <1>2, PTL DEF FeedSpec

\* The web view, its commands and the forwarder use the scheduler only as its
\* specification allows: every behaviour of the composition is, seen from the
\* scheduler, a behaviour of module Subscriptions, so that all that is proved
\* of the scheduler holds behind the window too.
THEOREM FeedRunsScheduler == FeedSpec => Spec
<1>1. FeedInit => Init
  BY DEF FeedInit
<1>2. FeedInv /\ [FeedNext]_allVars => [Next]_vars
  BY ScheduledStep DEF allVars, vars
<1> QED
  BY <1>1, <1>2, FeedInvariant, PTL DEF FeedSpec, Spec

\* The scheduler holds no subscription for ever that no screen knows of
\* (subscriptions.ts: begin, suspend; subscriptions.rs: Command::Unsubscribe),
\* whatever the order in which commands, answers and timers come, as long as
\* no command is lost to a full queue.
THEOREM NoOrphan ==
  FeedSpec /\ [](Len(calls) <= CommandQueue) => []NoOrphanSubscription
<1> DEFINE Room == Len(calls) <= CommandQueue
<1>1. FeedInit => KnownOrGivenBack
  BY FeedInitInv
<1>2. FeedInv /\ KnownOrGivenBack /\ Room /\ [FeedNext]_allVars => KnownOrGivenBack'
  BY FeedStep, FeedStutter
<1>3. KnownOrGivenBack => NoOrphanSubscription
  <2> SUFFICES ASSUME KnownOrGivenBack, NEW o \in Owners, Quiet(o), o \in DOMAIN owners
               PROVE  Bound(o)
    BY DEF NoOrphanSubscription
  <2>1. \A i \in 1..Len(calls) : calls[i] # UnsubscribeCall(o, owners[o].generation)
    BY DEF Quiet, UnsubscribeCall
  <2>2. \A reply \in replies : ~(Grants(reply) /\ reply.owner = o)
    BY DEF Quiet, Grants
  <2> QED
    BY <2>1, <2>2 DEF KnownOrGivenBack
<1> QED
  BY <1>1, <1>2, <1>3, FeedInvariant, PTL DEF FeedSpec

\* When commands are handled in order and a due timer runs first, every
\* mounted and visible screen without a command error is subscribed once its
\* commands have settled: no begin is lost to an overtaken one.
THEOREM WantedBound == FeedSpec => [](Ordered => WantedIsBound)
<1>1. FeedInit => WaitsOrBound
  BY FeedInitInv
<1>2. FeedInv /\ WaitsOrBound /\ [FeedNext]_allVars => WaitsOrBound'
  BY FeedStep, FeedStutter
<1>3. WaitsOrBound => (Ordered => WantedIsBound)
  <2> SUFFICES ASSUME WaitsOrBound, Ordered, NEW o \in Owners, Quiet(o), Wanted(o)
               PROVE  Bound(o)
    BY DEF WantedIsBound
  <2>1. ~WaitsInTurn(o)
    BY DEF Quiet, WaitsInTurn, Answers
  <2> QED
    BY <2>1 DEF WaitsOrBound, Wanted
<1> QED
  BY <1>1, <1>2, <1>3, FeedInvariant, PTL DEF FeedSpec

-----------------------------------------------------------------------------
\* What a screen shows.  Every update on its way, and what a screen shows, is
\* no newer than what the scheduler published; and from some revision on all
\* of it agrees with what is published now and at least one is still to come.
SentTo(o, u) ==
  \/ \E k \in 1..Len(events) : o \in DOMAIN events[k] /\ u = events[k][o]
  \/ \E reply \in replies : o \in DOMAIN reply.updates /\ u = reply.updates[o]

IsPast(o, u) ==
  /\ u.generation \in 1..generation
  /\ u.revision <= revision
  /\ o \in DOMAIN owners =>
       /\ u.generation <= owners[o].generation
       /\ u.generation = owners[o].generation => u.request = owners[o].request

SentIsPast ==
  /\ \A o \in Owners : \A u \in Update : SentTo(o, u) => IsPast(o, u)
  /\ \A o \in DOMAIN screens :
       /\ screens[o].latest.generation <= generation
       /\ o \in DOMAIN owners => screens[o].latest.generation <= owners[o].generation
       /\ screens[o].latest.generation # 0 => screens[o].latest.revision <= revision

\* o has its binding on its screen, or in the answer it waits for.
Awaits(o) ==
  /\ o \in DOMAIN screens \cap DOMAIN owners
  /\ \/ Bound(o)
     \/ \E reply \in replies :
          /\ Grants(reply) /\ reply.owner = o /\ Awaited(reply)
          /\ Granted(reply).generation = owners[o].generation

SameShown(u, v) == u.generation = v.generation /\ u.payload = v.payload /\ u.error = v.error

Reaches(o, u, rev) == u.generation = owners[o].generation /\ u.revision >= rev

Noted(o) == lagged \/ \E k \in 1..Len(notes) : o \in notes[k]

\* An answer that o applies to its screen.
AppliedTo(o, reply) == ~Answers(reply) \/ (Grants(reply) /\ reply.owner = o)

Coming(o, rev) ==
  \/ Noted(o)
  \/ \E k \in 1..Len(events) : o \in DOMAIN events[k] /\ Reaches(o, events[k][o], rev)
  \/ \E reply \in replies :
       /\ AppliedTo(o, reply) /\ o \in DOMAIN reply.updates
       /\ Reaches(o, reply.updates[o], rev)
  \/ Reaches(o, screens[o].latest, rev)

Settling(o, rev) ==
  /\ \A u \in Update : SentTo(o, u) /\ Reaches(o, u, rev) => SameShown(u, latest[o])
  /\ Reaches(o, screens[o].latest, rev) => SameShown(screens[o].latest, latest[o])
  /\ Coming(o, rev)

ShownInv ==
  /\ notes \in Seq(SUBSET Owners) /\ lagged \in BOOLEAN
  /\ SentIsPast
  /\ \A o \in Owners : Awaits(o) => \E rev \in 0..revision : Settling(o, rev)

\* 2^64 publications do not happen.
NoWrap == revision + 1 < RevisionModulus

-----------------------------------------------------------------------------
\* What the scheduler publishes is what it holds.
PublishedOf(o) ==
  /\ o \in DOMAIN latest
  /\ latest[o] \in Update
  /\ latest[o].generation = owners[o].generation
  /\ latest[o].revision = revision
  /\ latest[o].request = owners[o].request
  /\ owners[o].request \in DOMAIN entries
  /\ latest[o].payload = entries[owners[o].request].payload
  /\ latest[o].error = entries[owners[o].request].error
  /\ owners[o].generation \in 1..generation

PublishedOfAll ==
  /\ DOMAIN latest = DOMAIN owners
  /\ \A o \in DOMAIN owners : PublishedOf(o)

LEMMA PublishedHeld == FeedInv => PublishedOfAll
<1> SUFFICES ASSUME FeedInv PROVE PublishedOfAll
  OBVIOUS
<1>1. latest = View(owners, entries, revision)
  BY DEF PublishedIsCurrent, FeedInv
<1>2. \A o \in DOMAIN owners : owners[o].request \in DOMAIN entries
                                /\ owners[o].generation \in 1..generation
  BY DEF FeedInv, IInv, OwnersAndEntriesAgree, GenerationsOrdered
<1>3. MapOf(latest, Owners, Update)
  BY TypeOKMaps DEF FeedInv, IInv
<1>4. DOMAIN latest = DOMAIN owners
  BY <1>1, <1>2 DEF View
<1>6. ASSUME NEW o \in DOMAIN owners PROVE PublishedOf(o)
  <2>1. latest[o] \in Update
    BY <1>3, <1>4 DEF MapOf
  <2>2. /\ latest[o].generation = owners[o].generation
        /\ latest[o].revision = revision
        /\ latest[o].request = owners[o].request
        /\ latest[o].payload = entries[owners[o].request].payload
        /\ latest[o].error = entries[owners[o].request].error
    <3> DEFINE x == [generation |-> owners[o].generation, revision |-> revision,
                     request |-> owners[o].request,
                     payload |-> entries[owners[o].request].payload,
                     error |-> entries[owners[o].request].error]
    <3>1. latest[o] = x
      BY <1>1, <1>2 DEF View
    <3> QED
      BY <3>1
  <2> QED
    BY <1>2, <1>4, <2>1, <2>2 DEF PublishedOf
<1> QED
  BY <1>4, <1>6 DEF PublishedOfAll

LEMMA NewPublishedHeld == FeedInv' => PublishedOfAll'
BY PublishedHeld, PTL

LEMMA RevisionGrows ==
  ASSUME IInv, NoWrap, Publish
  PROVE  revision' = revision + 1
<1>1. revision \in Nat /\ revision + 1 < RevisionModulus /\ RevisionModulus \in Nat
  BY LimitsAssumption DEF IInv, TypeOK, NoWrap
<1>2. revision' = (revision + 1) % RevisionModulus
  BY DEF Publish
<1> QED
  BY <1>1, <1>2

\* What a step of the scheduler does to the bindings: kept, gone or new.
Carries ==
  /\ generation' \in Nat /\ generation' >= generation
  /\ revision' \in Nat /\ revision' >= revision
  /\ \A o \in DOMAIN owners' :
       \/ o \in DOMAIN owners /\ owners'[o] = owners[o]
       \/ owners'[o].generation = generation + 1

SamePublished(o) ==
  /\ o \in DOMAIN owners /\ o \in DOMAIN owners' /\ owners'[o] = owners[o]
  /\ SameShown(latest'[o], latest[o])

LEMMA SchedulerIdles ==
  ASSUME FeedInv, UNCHANGED <<owners, generation, revision, latest>>
  PROVE  Carries /\ \A o \in DOMAIN owners : SamePublished(o)
BY DEF FeedInv, IInv, TypeOK, Carries, SamePublished, SameShown

LEMMA SubscribePublishes ==
  ASSUME FeedInv, FeedInv', NoWrap, NEW p \in Owners, NEW r \in Requests, Subscribe(p, r)
  PROVE  /\ Carries /\ revision' = revision + 1
         /\ DOMAIN owners' = DOMAIN owners \cup {p}
         /\ owners'[p].generation = generation + 1
         /\ \A o \in DOMAIN owners : o # p => SamePublished(o)
<1>1. IInv /\ generation \in Nat /\ revision \in Nat
  BY DEF FeedInv, IInv, TypeOK
<1>2. SubscribeEffect(p, r) /\ Publish
  BY <1>1, SubscribeShape DEF Subscribe
<1>3. revision' = revision + 1
  BY <1>1, <1>2, RevisionGrows
<1>4. /\ DOMAIN owners' = DOMAIN owners \cup {p}
      /\ owners'[p].generation = generation + 1 /\ generation' = generation + 1
      /\ \A o \in DOMAIN owners : o # p => owners'[o] = owners[o]
  BY <1>2 DEF SubscribeEffect
<1>5. ASSUME NEW o \in DOMAIN owners, o # p PROVE SamePublished(o)
  <2> DEFINE q == owners[o].request
  <2>1. owners'[o] = owners[o] /\ o \in DOMAIN owners'
    BY <1>4, <1>5
  <2>2. PublishedOf(o) /\ PublishedOf(o)'
    BY <2>1, PublishedHeld, NewPublishedHeld DEF PublishedOfAll
  <2>3. q \in DOMAIN Released(p)
    <3>1. q \in DOMAIN entries /\ o \in entries[q].owners
      BY <1>1, <1>5 DEF IInv, OwnersAndEntriesAgree
    <3>2. DOMAIN Released(p) = {k \in DOMAIN entries : entries[k].owners # {p}}
      BY <1>1, ReleasedShape
    <3> QED
      BY <1>5, <3>1, <3>2
  <2>4. entries'[q].payload = entries[q].payload /\ entries'[q].error = entries[q].error
    BY <1>2, <2>3 DEF SubscribeEffect, SameButOwners
  <2> QED
    BY <1>5, <2>1, <2>2, <2>4 DEF SamePublished, SameShown, PublishedOf
<1> QED
  BY <1>1, <1>3, <1>4, <1>5 DEF Carries

LEMMA UnsubscribePublishes ==
  ASSUME FeedInv, FeedInv', NoWrap, NEW p \in Owners, NEW g, Unsubscribe(p, g)
  PROVE  /\ Carries /\ revision' = revision + 1
         /\ p \notin DOMAIN owners'
         /\ \A o \in DOMAIN owners' : SamePublished(o)
<1>1. IInv /\ generation \in Nat /\ revision \in Nat
  BY DEF FeedInv, IInv, TypeOK
<1>2. UnsubscribeEffect(p) /\ Publish
  BY <1>1, UnsubscribeShape DEF Unsubscribe
<1>3. revision' = revision + 1
  BY <1>1, <1>2, RevisionGrows
<1>4. /\ DOMAIN owners' = DOMAIN owners \ {p} /\ generation' = generation
      /\ \A o \in DOMAIN owners' : owners'[o] = owners[o]
  BY <1>2 DEF UnsubscribeEffect
<1>5. ASSUME NEW o \in DOMAIN owners' PROVE SamePublished(o)
  <2> DEFINE q == owners[o].request
  <2>1. owners'[o] = owners[o] /\ o \in DOMAIN owners
    BY <1>4, <1>5
  <2>2. PublishedOf(o) /\ PublishedOf(o)'
    BY <1>5, <2>1, PublishedHeld, NewPublishedHeld DEF PublishedOfAll
  <2>3. q \in DOMAIN Released(p)
    BY <1>2, <2>1, <2>2 DEF UnsubscribeEffect, PublishedOf
  <2>4. entries'[q].payload = entries[q].payload /\ entries'[q].error = entries[q].error
    BY <1>2, <2>3 DEF UnsubscribeEffect, SameButOwners
  <2> QED
    BY <1>5, <2>1, <2>2, <2>4 DEF SamePublished, SameShown, PublishedOf
<1> QED
  BY <1>1, <1>3, <1>4, <1>5 DEF Carries

LEMMA CompletePublishes ==
  ASSUME FeedInv, FeedInv', NoWrap, NEW t \in tasks, JoinNext(t), Accepts(t)
  PROVE  /\ Carries /\ revision' = revision + 1 /\ owners' = owners
         /\ entries[t.request].owners \in SUBSET Owners
         /\ \A o \in DOMAIN owners :
              o \notin entries[t.request].owners => SamePublished(o)
<1>1. IInv /\ generation \in Nat /\ revision \in Nat
  BY DEF FeedInv, IInv, TypeOK
<1>2. /\ Publish /\ UNCHANGED <<owners, generation>>
      /\ entries' = [entries EXCEPT ![t.request] = Completed(@, t)]
      /\ t.request \in DOMAIN entries
  BY DEF JoinNext, Accepts
<1>3. revision' = revision + 1
  BY <1>1, <1>2, RevisionGrows
<1>4. entries[t.request].owners \in SUBSET Owners
  BY <1>1, <1>2 DEF IInv, TypeOK, Entry
<1>5. ASSUME NEW o \in DOMAIN owners, o \notin entries[t.request].owners
      PROVE  SamePublished(o)
  <2> DEFINE q == owners[o].request
  <2>1. PublishedOf(o) /\ PublishedOf(o)'
    BY <1>2, <1>5, PublishedHeld, NewPublishedHeld DEF PublishedOfAll
  <2>2. q \in DOMAIN entries /\ q # t.request
    BY <1>1, <1>5 DEF IInv, OwnersAndEntriesAgree
  <2>3. entries'[q] = entries[q]
    BY <1>2, <2>2
  <2> QED
    BY <1>2, <1>5, <2>1, <2>3 DEF SamePublished, SameShown, PublishedOf
<1> QED
  BY <1>1, <1>2, <1>3, <1>4, <1>5 DEF Carries

\* A notification is kept, or the forwarder learns that it lost some.
LEMMA BroadcastNotes ==
  ASSUME notes \in Seq(SUBSET Owners), lagged \in BOOLEAN,
         NEW changed \in SUBSET Owners, Broadcast(changed)
  PROVE  /\ notes' \in Seq(SUBSET Owners) /\ lagged' \in BOOLEAN
         /\ \A o : Noted(o) => Noted(o)'
         /\ \A o \in changed : Noted(o)'
<1>1. Len(notes) \in Nat /\ NotesCapacity \in Nat \ {0}
  BY LenProperties, FeedAssumption
<1>2. CASE Len(notes) < NotesCapacity
  <2>1. notes' = Append(notes, changed) /\ lagged' = lagged
    BY <1>2 DEF Broadcast
  <2>2. /\ notes' \in Seq(SUBSET Owners) /\ Len(notes') = Len(notes) + 1
        /\ \A k \in 1..Len(notes) : notes'[k] = notes[k]
        /\ notes'[Len(notes) + 1] = changed
    BY <2>1, AppendProperties
  <2>3. ASSUME NEW o, Noted(o) PROVE Noted(o)'
    BY <1>1, <2>1, <2>2, <2>3 DEF Noted
  <2>4. ASSUME NEW o \in changed PROVE Noted(o)'
    <3>1. Len(notes) + 1 \in 1..Len(notes') /\ o \in notes'[Len(notes) + 1]
      BY <1>1, <2>2, <2>4
    <3> QED
      BY <3>1 DEF Noted
  <2> QED
    BY <2>1, <2>2, <2>3, <2>4
<1>3. CASE ~(Len(notes) < NotesCapacity)
  <2>1. notes' = Append(Tail(notes), changed) /\ lagged' = TRUE
    BY <1>3 DEF Broadcast
  <2>2. notes # <<>>
    BY <1>1, <1>3
  <2>3. Tail(notes) \in Seq(SUBSET Owners)
    BY <2>2, HeadTailProperties
  <2>4. notes' \in Seq(SUBSET Owners)
    BY <2>1, <2>3, AppendProperties
  <2> QED
    BY <2>1, <2>4 DEF Noted
<1> QED
  BY <1>2, <1>3

-----------------------------------------------------------------------------
\* Only what was published is sent, and only what was sent is shown.
NewSent(o) ==
  \A u \in Update : SentTo(o, u)' =>
    \/ SentTo(o, u)
    \/ o \in DOMAIN latest /\ u = latest[o]
    \/ o \in DOMAIN latest' /\ u = latest'[o]

ShownFrom(o) ==
  \/ o \in DOMAIN screens /\ screens'[o].latest = screens[o].latest
  \/ \E u \in Update : SentTo(o, u) /\ screens'[o].latest = Shown(u)

LEMMA PastCarried ==
  ASSUME FeedInv, Carries, NEW o, NEW u \in Update, IsPast(o, u)
  PROVE  IsPast(o, u)'
<1>1. generation \in Nat /\ revision \in Nat
  BY DEF FeedInv, IInv, TypeOK
<1>2. u.revision \in Nat /\ u.generation \in 1..generation
  BY DEF Update, IsPast
<1>3. u.generation \in 1..generation' /\ u.revision <= revision'
  BY <1>1, <1>2 DEF Carries, IsPast
<1>4. ASSUME o \in DOMAIN owners'
      PROVE  /\ u.generation <= owners'[o].generation
             /\ u.generation = owners'[o].generation => u.request = owners'[o].request
  BY <1>1, <1>2, <1>4 DEF Carries, IsPast
<1> QED
  BY <1>3, <1>4 DEF IsPast

LEMMA PublishedIsPast == FeedInv => \A o \in DOMAIN latest : IsPast(o, latest[o])
<1> SUFFICES ASSUME FeedInv, NEW o \in DOMAIN latest PROVE IsPast(o, latest[o])
  OBVIOUS
<1>1. PublishedOf(o)
  BY PublishedHeld DEF PublishedOfAll
<1>2. latest[o].generation \in Nat /\ latest[o].revision \in Nat
  BY <1>1 DEF PublishedOf, Update
<1> QED
  BY <1>1, <1>2 DEF PublishedOf, IsPast

LEMMA NewPublishedIsPast == FeedInv' => (\A o \in DOMAIN latest : IsPast(o, latest[o]))'
BY PublishedIsPast, PTL

LEMMA SentStaysPast ==
  ASSUME FeedInv, FeedInv', SentIsPast, Carries,
         \A o \in Owners : NewSent(o),
         \A o \in DOMAIN screens' : ShownFrom(o) \/ screens'[o].latest.generation = 0
  PROVE  SentIsPast'
<1>1. \A o \in DOMAIN latest : latest[o] \in Update /\ IsPast(o, latest[o])
  BY PublishedHeld, PublishedIsPast DEF PublishedOfAll, PublishedOf
<1>2. \A o \in DOMAIN latest' : IsPast(o, latest[o])'
  BY NewPublishedIsPast
<1>3. ASSUME NEW o \in Owners, NEW u \in Update, SentTo(o, u)' PROVE IsPast(o, u)'
  <2>1. CASE SentTo(o, u)
    BY <2>1, PastCarried DEF SentIsPast
  <2>2. CASE o \in DOMAIN latest /\ u = latest[o]
    BY <1>1, <2>2, PastCarried
  <2>3. CASE o \in DOMAIN latest' /\ u = latest'[o]
    BY <1>2, <2>3 DEF IsPast
  <2> QED
    BY <1>3, <2>1, <2>2, <2>3 DEF NewSent
<1>4. generation \in Nat /\ revision \in Nat
  BY DEF FeedInv, IInv, TypeOK
<1>5. ASSUME NEW o \in DOMAIN screens'
      PROVE  /\ screens'[o].latest.generation <= generation'
             /\ o \in DOMAIN owners' => screens'[o].latest.generation <= owners'[o].generation
             /\ screens'[o].latest.generation # 0 => screens'[o].latest.revision <= revision'
  <2> DEFINE shown == screens'[o].latest
  <2>1. CASE o \in DOMAIN screens /\ shown = screens[o].latest
    <3>1. shown \in Pictured
      BY <2>1 DEF FeedInv, FeedTypes, ScreenTypes, MapOf, Screen
    <3> HIDE DEF shown
    <3>2. /\ shown.generation <= generation
          /\ o \in DOMAIN owners => shown.generation <= owners[o].generation
          /\ shown.generation # 0 => shown.revision <= revision
      BY <2>1 DEF SentIsPast
    <3>3. /\ shown.generation <= generation'
          /\ o \in DOMAIN owners' => shown.generation <= owners'[o].generation
          /\ shown.generation # 0 => shown.revision <= revision'
      BY <1>4, <3>1, <3>2 DEF Carries, Pictured
    <3> QED
      BY <3>3 DEF shown
  <2>2. CASE shown.generation = 0
    <3>1. o \in DOMAIN owners' => owners'[o].generation >= 0
      BY DEF FeedInv, IInv, GenerationsOrdered
    <3> QED
      BY <2>2, <3>1 DEF Carries
  <2>3. CASE \E u \in Update : SentTo(o, u) /\ shown = Shown(u)
    <3>1. PICK u \in Update : SentTo(o, u) /\ shown = Shown(u)
      BY <2>3
    <3>2. o \in Owners
      BY DEF FeedInv, FeedTypes, ScreenTypes, MapOf
    <3>3. IsPast(o, u)'
      BY <3>1, <3>2, PastCarried DEF SentIsPast
    <3>4. shown.generation = u.generation /\ shown.revision = u.revision
      BY <3>1 DEF Shown
    <3> HIDE DEF shown
    <3>5. u.generation <= generation'
      BY <3>3 DEF IsPast
    <3>6. /\ shown.generation <= generation'
          /\ o \in DOMAIN owners' => shown.generation <= owners'[o].generation
          /\ shown.generation # 0 => shown.revision <= revision'
      BY <3>3, <3>4, <3>5 DEF IsPast
    <3> QED
      BY <3>6 DEF shown
  <2> QED
    BY <2>1, <2>2, <2>3 DEF ShownFrom
<1> QED
  BY <1>3, <1>5 DEF SentIsPast

-----------------------------------------------------------------------------
\* A threshold stays while the owner's publication does ...
LEMMA SettlingKept ==
  ASSUME FeedInv, FeedInv', Carries, NEW o \in Owners, NEW rev \in 0..revision,
         o \in DOMAIN screens, Settling(o, rev), SamePublished(o), NewSent(o), ShownFrom(o),
         Coming(o, rev) => Coming(o, rev)'
  PROVE  rev \in 0..revision' /\ Settling(o, rev)'
<1>1. owners'[o] = owners[o] /\ SameShown(latest'[o], latest[o])
  BY DEF SamePublished
<1>2. revision \in Nat
  BY DEF FeedInv, IInv, TypeOK
<1>3. ASSUME NEW u \in Update, SentTo(o, u)', Reaches(o, u, rev)'
      PROVE  SameShown(u, latest'[o])
  <2>1. Reaches(o, u, rev)
    BY <1>1, <1>3 DEF Reaches
  <2> QED
    BY <1>1, <1>3, <2>1 DEF NewSent, SameShown, Settling
<1>4. ASSUME Reaches(o, screens[o].latest, rev)'
      PROVE  SameShown(screens'[o].latest, latest'[o])
  <2> DEFINE shown == screens'[o].latest
  <2>1. shown.generation = owners[o].generation /\ shown.revision >= rev
    BY <1>1, <1>4 DEF Reaches
  <2>2. CASE shown = screens[o].latest
    BY <1>1, <2>1, <2>2 DEF Reaches, Settling, SameShown
  <2>3. CASE \E u \in Update : SentTo(o, u) /\ shown = Shown(u)
    <3>1. PICK u \in Update : SentTo(o, u) /\ shown = Shown(u)
      BY <2>3
    <3>2. /\ shown.generation = u.generation /\ shown.revision = u.revision
          /\ shown.payload = u.payload /\ shown.error = u.error
      BY <3>1 DEF Shown
    <3>3. Reaches(o, u, rev)
      BY <2>1, <3>2 DEF Reaches
    <3> QED
      BY <1>1, <3>1, <3>2, <3>3 DEF Settling, SameShown
  <2> QED
    BY <2>2, <2>3 DEF ShownFrom
<1>5. Coming(o, rev)'
  BY DEF Settling
<1>6. rev \in 0..revision'
  BY <1>2 DEF Carries
<1> QED
  BY <1>3, <1>4, <1>5, <1>6 DEF Settling, SameShown

\* ... and a publication that changes it, and is announced, is a new one.
LEMMA SettlingNew ==
  ASSUME FeedInv, FeedInv', SentIsPast, NEW o \in Owners, Noted(o)',
         o \in DOMAIN screens, o \in DOMAIN owners', revision' = revision + 1,
         \A u \in Update : SentTo(o, u)' => SentTo(o, u) \/ u = latest'[o],
         screens'[o].latest = screens[o].latest
  PROVE  revision' \in 0..revision' /\ Settling(o, revision)'
<1>1. revision \in Nat /\ revision' \in Nat
  BY DEF FeedInv, IInv, TypeOK
<1>2. ASSUME NEW u \in Update, SentTo(o, u)', u.revision >= revision'
      PROVE  u = latest'[o]
  <2>1. SentTo(o, u) => u.revision <= revision
    BY DEF SentIsPast, IsPast
  <2>2. u.revision \in Nat
    BY DEF Update
  <2> QED
    BY <1>1, <1>2, <2>1, <2>2
<1>3. screens[o].latest \in Pictured
  BY DEF FeedInv, FeedTypes, ScreenTypes, MapOf, Screen
<1>4. screens[o].latest.generation = 0 \/ ~(screens[o].latest.revision >= revision')
  <2>1. screens[o].latest.generation # 0 => screens[o].latest.revision <= revision
    BY DEF SentIsPast
  <2> QED
    BY <1>1, <1>3, <2>1 DEF Pictured
<1>5. ~Reaches(o, screens[o].latest, revision)'
  <2>1. owners'[o].generation # 0
    BY DEF FeedInv, IInv, GenerationsOrdered
  <2> QED
    BY <1>4, <2>1 DEF Reaches
<1>6. \A u \in Update : SentTo(o, u)' /\ Reaches(o, u, revision)' => SameShown(u, latest'[o])
  BY <1>2 DEF SameShown, Reaches
<1>7. Coming(o, revision)'
  BY DEF Coming
<1> QED
  BY <1>1, <1>5, <1>6, <1>7 DEF Settling, SameShown

-----------------------------------------------------------------------------
LEMMA AwaitsOwn ==
  ASSUME FeedInv, NEW o, Awaits(o)
  PROVE  /\ o \in Owners /\ o \in DOMAIN screens /\ o \in DOMAIN owners
         /\ owners[o].generation # 0
         /\ screens[o].request = owners[o].request
         /\ screens[o].generation = 0 \/ screens[o].generation = owners[o].generation
<1>1. o \in DOMAIN screens /\ o \in DOMAIN owners
  BY DEF Awaits
<1>2. o \in Owners /\ owners[o].generation # 0
  BY <1>1 DEF FeedInv, IInv, TypeOK, GenerationsOrdered
<1>3. CASE Bound(o)
  BY <1>1, <1>2, <1>3 DEF Bound
<1>4. CASE ~Bound(o)
  <2>1. PICK reply \in replies :
          /\ Grants(reply) /\ reply.owner = o /\ Awaited(reply)
          /\ Granted(reply).generation = owners[o].generation
    BY <1>4 DEF Awaits
  <2>2. Granted(reply).request = owners[o].request
    BY <1>1, <2>1 DEF FeedInv, OnePlacePerGeneration
  <2>3. screens[o].generation = 0 /\ Granted(reply).request = screens[o].request
    BY <2>1 DEF FeedInv, AskedBeforeBound, Answers, Grants
  <2> QED
    BY <1>1, <1>2, <2>2, <2>3
<1> QED
  BY <1>3, <1>4

LEMMA TurnAwaits ==
  ASSUME FeedInv, \E B, D \in SUBSET Owners : Turn(B, D), NEW o, Awaits(o)'
  PROVE  Awaits(o) /\ SameScreen(o)
<1>1. PICK B \in SUBSET Owners, D \in SUBSET Owners : Turn(B, D)
  OBVIOUS
<1>2. o \in DOMAIN screens' /\ o \in DOMAIN owners /\ owners' = owners
  BY <1>1 DEF Awaits, Turn
<1>3. owners[o].generation # 0 /\ begun \in Nat
  BY <1>2 DEF FeedInv, IInv, GenerationsOrdered, FeedTypes
<1>4. CASE Bound(o)'
  <2>1. screens'[o].generation # 0
    BY <1>2, <1>3, <1>4 DEF Bound
  <2>2. SameScreen(o)
    BY <1>1, <1>2, <2>1 DEF Turn
  <2> QED
    BY <1>2, <1>4, <2>2 DEF Bound, SameScreen, Awaits
<1>5. CASE ~Bound(o)'
  <2>1. PICK reply \in replies' :
          /\ Grants(reply) /\ reply.owner = o /\ reply.epoch = screens'[o].epoch
          /\ Granted(reply).generation = owners'[o].generation
    BY <1>5 DEF Awaits, Awaited, Grants, Granted
  <2>2. reply \in replies /\ Answers(reply)
    BY <1>1, <2>1 DEF Turn, Answers, Grants
  <2>3. reply.epoch \in 1..begun
    BY <2>2 DEF FeedInv, EpochsGiven
  <2>4. SameScreen(o)
    BY <1>1, <1>2, <1>3, <2>1, <2>3 DEF Turn
  <2> QED
    BY <1>2, <2>1, <2>2, <2>4 DEF SameScreen, Awaits, Awaited
<1> QED
  BY <1>4, <1>5

\* A step at which nothing is published, announced, delivered or shown.
Calm ==
  /\ UNCHANGED <<owners, generation, revision, latest, notes, lagged, events>>
  /\ \A o \in DOMAIN screens' :
       \/ o \in DOMAIN screens /\ screens'[o].latest = screens[o].latest
       \/ screens'[o].latest.generation = 0 /\ ~Awaits(o)'
  /\ \A o : Awaits(o)' => Awaits(o)
  /\ \A reply \in replies' :
       reply \in replies \/ reply.updates = latest \/ DOMAIN reply.updates = {}
  /\ \A reply \in replies \ replies' :
       /\ Answers(reply)
       /\ Grants(reply) /\ Awaits(reply.owner)' =>
            Granted(reply).generation # owners[reply.owner].generation

LEMMA CalmKeeps ==
  ASSUME FeedInv, FeedInv', ShownInv, Calm
  PROVE  ShownInv'
<1>1. UNCHANGED <<owners, generation, revision, latest, notes, lagged, events>>
  BY DEF Calm
<1>2. Carries /\ \A o \in DOMAIN owners : SamePublished(o)
  BY <1>1, SchedulerIdles
<1>3. ASSUME NEW o PROVE NewSent(o)
  <2> SUFFICES ASSUME NEW u \in Update, SentTo(o, u)', ~SentTo(o, u)
               PROVE  o \in DOMAIN latest /\ u = latest[o]
    BY DEF NewSent
  <2>1. PICK reply \in replies' : o \in DOMAIN reply.updates /\ u = reply.updates[o]
    BY <1>1 DEF SentTo
  <2>2. reply \notin replies
    BY <2>1 DEF SentTo
  <2> QED
    BY <2>1, <2>2 DEF Calm
<1>4. \A o \in DOMAIN screens' : ShownFrom(o) \/ screens'[o].latest.generation = 0
  BY DEF Calm, ShownFrom
<1>5. SentIsPast'
  BY <1>2, <1>3, <1>4, SentStaysPast DEF ShownInv
<1>6. ASSUME NEW o \in Owners, Awaits(o)' PROVE \E rev \in 0..revision' : Settling(o, rev)'
  <2>1. Awaits(o) /\ o \in DOMAIN screens'
    BY <1>6 DEF Calm, Awaits
  <2>2. o \in DOMAIN screens /\ o \in DOMAIN owners
    BY <2>1 DEF Awaits
  <2>3. screens'[o].latest = screens[o].latest
    BY <1>6, <2>1 DEF Calm
  <2>4. PICK rev \in 0..revision : Settling(o, rev)
    BY <2>1 DEF ShownInv
  <2>5. ASSUME Coming(o, rev) PROVE Coming(o, rev)'
    <3>1. CASE \E reply \in replies :
                 /\ AppliedTo(o, reply) /\ o \in DOMAIN reply.updates
                 /\ Reaches(o, reply.updates[o], rev)
      <4>1. PICK reply \in replies :
                 /\ AppliedTo(o, reply) /\ o \in DOMAIN reply.updates
                 /\ Reaches(o, reply.updates[o], rev)
        BY <3>1
      <4>2. reply \in replies'
        BY <1>6, <4>1 DEF Calm, AppliedTo, Reaches, Granted
      <4> QED
        BY <1>1, <4>1, <4>2, Zenon DEF Coming, AppliedTo, Reaches, Answers, Grants
    <3>2. CASE Noted(o)
      BY <1>1, <3>2 DEF Coming, Noted
    <3>3. CASE \E k \in 1..Len(events) : o \in DOMAIN events[k] /\ Reaches(o, events[k][o], rev)
      BY <1>1, <3>3 DEF Coming, Reaches
    <3>4. CASE Reaches(o, screens[o].latest, rev)
      BY <1>1, <2>3, <3>4 DEF Coming, Reaches
    <3> QED
      BY <2>5, <3>1, <3>2, <3>3, <3>4 DEF Coming
  <2>6. ShownFrom(o)
    BY <2>2, <2>3 DEF ShownFrom
  <2>7. rev \in 0..revision' /\ Settling(o, rev)'
    BY <1>2, <1>3, <2>2, <2>4, <2>5, <2>6, SettlingKept
  <2> QED
    BY <2>7
<1>7. notes' \in Seq(SUBSET Owners) /\ lagged' \in BOOLEAN
  BY <1>1 DEF ShownInv
<1> QED
  BY <1>5, <1>6, <1>7 DEF ShownInv

\* The turns that leave what is shown alone, or begin with nothing shown.
LEMMA CalmTurn ==
  ASSUME FeedInv, \E B, D \in SUBSET Owners : Turn(B, D),
         UNCHANGED <<revision, latest, notes, lagged, events>>,
         \A o \in DOMAIN screens' :
           \/ o \in DOMAIN screens /\ screens'[o].latest = screens[o].latest
           \/ screens'[o].latest.generation = 0 /\ (SameScreen(o) => ~Awaits(o)),
         \A reply \in replies' : reply \in replies \/ reply.updates = latest,
         \A reply \in replies \ replies' : Answers(reply)
  PROVE  Calm
<1>1. PICK B \in SUBSET Owners, D \in SUBSET Owners : Turn(B, D)
  OBVIOUS
<1>2. owners' = owners /\ generation' = generation
  BY <1>1 DEF Turn
<1>3. \A o : Awaits(o)' => Awaits(o) /\ SameScreen(o)
  BY TurnAwaits
<1>4. \A reply \in replies \ replies' : ~Grants(reply)
  BY <1>1 DEF Turn
<1> QED
  BY <1>2, <1>3, <1>4 DEF Calm

\* The user's turns.
LEMMA UserShown ==
  ASSUME FeedInv, FeedInv', ShownInv, steady, NEW o \in Owners, NEW r \in Requests,
         Mount(o, r) \/ Unmount(o) \/ ReleaseTimer(o) \/ Refresh(o) \/ Hide \/ Show
  PROVE  ShownInv'
<1>1. \E B, D \in SUBSET Owners : Turn(B, D)
  BY MountTurn, UnmountTurn, ReleaseTimerTurn, RefreshTurn, HideTurn, ShowTurn
<1>2. UNCHANGED <<revision, latest, notes, lagged, events, replies>>
  BY DEF Mount, Unmount, ReleaseTimer, Refresh, Hide, Show, schedulerIdle, vars
<1>3. begun \in Nat /\ \A p \in DOMAIN screens : screens[p] \in Screen /\ screens[p].epoch \in 0..begun
  BY DEF FeedInv, FeedTypes, ScreenTypes, MapOf, EpochsGiven
<1>4. \A p \in DOMAIN screens' :
        \/ p \in DOMAIN screens /\ screens'[p].latest = screens[p].latest
        \/ screens'[p].latest.generation = 0 /\ ~SameScreen(p)
  <2>1. CASE Mount(o, r) /\ o \in DOMAIN screens /\ screens[o].request = r
    <3>1. screens' = [screens EXCEPT ![o].mounted = TRUE, ![o].releasing = FALSE]
      BY <2>1 DEF Mount
    <3> QED
      BY <1>3, <2>1, <3>1 DEF Screen
  <2>2. CASE Mount(o, r) /\ ~(o \in DOMAIN screens /\ screens[o].request = r)
    <3> DEFINE new == Begun(NewScreen(r))
    <3>1. screens' = Put(screens, o, new)
      BY <2>2 DEF Mount
    <3>2. new.latest.generation = 0 /\ new.epoch = begun + 1
      BY DEF Begun, NewScreen, NothingShown
    <3> HIDE DEF new
    <3>3. /\ DOMAIN screens' = DOMAIN screens \cup {o} /\ screens'[o] = new
          /\ \A p \in DOMAIN screens \ {o} : screens'[p] = screens[p]
      BY <3>1 DEF Put
    <3>4. ~SameScreen(o)
      BY <1>3, <3>2, <3>3 DEF SameScreen
    <3> QED
      BY <3>2, <3>3, <3>4
  <2>3. CASE Unmount(o)
    <3>1. screens' = [screens EXCEPT ![o].mounted = FALSE, ![o].releasing = TRUE]
      BY <2>3 DEF Unmount
    <3> QED
      BY <1>3, <3>1 DEF Screen
  <2>4. CASE ReleaseTimer(o)
    BY <2>4 DEF ReleaseTimer, Drop
  <2>5. CASE Refresh(o)
    <3>1. screens' = [screens EXCEPT ![o] = Begun(screens[o])] /\ o \in DOMAIN screens
      BY <2>5 DEF Refresh
    <3>2. Begun(screens[o]).latest = screens[o].latest
      BY <1>3, <3>1, BegunScreen
    <3>3. \A p \in DOMAIN screens' : p \in DOMAIN screens
            /\ screens'[p] = IF p = o THEN Begun(screens[o]) ELSE screens[p]
      BY <3>1
    <3> QED
      BY <3>2, <3>3
  <2>6. CASE Hide
    <3>1. screens' = [p \in DOMAIN screens |-> Suspended(screens[p])]
      BY <2>6 DEF Hide
    <3> QED
      BY <1>3, <3>1, SuspendedScreen
  <2>7. CASE Show
    <3>1. screens' = [p \in DOMAIN screens |->
                        IF screens[p].mounted THEN Begun(screens[p]) ELSE screens[p]]
      BY <2>7 DEF Show
    <3> QED
      BY <1>3, <3>1, BegunScreen
  <2> QED
    BY <2>1, <2>2, <2>3, <2>4, <2>5, <2>6, <2>7
<1>5. Calm
  BY <1>1, <1>2, <1>4, CalmTurn
<1> QED
  BY <1>5, CalmKeeps

\* Begins, refusals, and what the fetches and a recovery do on their own.
LEMMA BeginReadyShown ==
  ASSUME FeedInv, FeedInv', ShownInv, steady, NEW b \in begins, BeginReady(b)
  PROVE  ShownInv'
<1>1. UNCHANGED <<owners, generation, revision, latest, notes, lagged, events, replies, screens>>
  BY DEF BeginReady, schedulerIdle, vars
<1>2. \A o : Awaits(o)' => Awaits(o)
  BY <1>1 DEF Awaits, Bound, Awaited, Granted, Grants
<1> QED
  BY <1>1, <1>2, CalmKeeps DEF Calm

\* A begin that found no listener has no generation, and nothing awaits it.
LEMMA ListenFailsShown ==
  ASSUME FeedInv, FeedInv', ShownInv, steady, NEW b \in begins, ListenFails(b)
  PROVE  ShownInv'
<1>1. /\ UNCHANGED <<owners, generation, revision, latest, notes, lagged, events, replies>>
      /\ screens' = Failed(b)
  BY DEF ListenFails, schedulerIdle, vars
<1>2. /\ DOMAIN screens' = DOMAIN screens
      /\ \A p \in DOMAIN screens \ {b.owner} : screens'[p] = screens[p]
      /\ Awaited(b) => screens'[b.owner].latest.generation = screens[b.owner].generation
      /\ ~Awaited(b) => screens' = screens
      /\ \A o \in DOMAIN screens :
           /\ screens'[o].request = screens[o].request
           /\ screens'[o].epoch = screens[o].epoch
           /\ screens'[o].generation = screens[o].generation
  BY <1>1, FailedShape DEF SameScreen
<1>3. \A o : Awaits(o)' => Awaits(o)
  BY <1>1, <1>2 DEF Awaits, Bound, Awaited, Granted, Grants
<1>4. Awaited(b) => screens[b.owner].generation = 0 /\ ~Awaits(b.owner)
  <2> SUFFICES ASSUME Awaited(b) PROVE screens[b.owner].generation = 0 /\ ~Awaits(b.owner)
    OBVIOUS
  <2>1. screens[b.owner].generation = 0
    BY DEF FeedInv, AskedBeforeBound
  <2>2. ~Bound(b.owner)
    BY <2>1 DEF Bound, FeedInv, IInv, GenerationsOrdered
  <2>3. \A reply \in replies : Grants(reply) /\ reply.owner = b.owner => ~Awaited(reply)
    BY DEF FeedInv, OneAskPerEpoch, Awaited, SameAsk, Grants, Answers
  <2> QED
    BY <2>1, <2>2, <2>3 DEF Awaits
<1>5. Calm
  BY <1>1, <1>2, <1>3, <1>4 DEF Calm
<1> QED
  BY <1>5, CalmKeeps

LEMMA RecoverShown ==
  ASSUME FeedInv, FeedInv', ShownInv, steady, Recover
  PROVE  ShownInv'
<1>1. \E B, D \in SUBSET Owners : Turn(B, D)
  BY RecoverTurn
<1>2. /\ UNCHANGED <<revision, latest, notes, lagged, events, screens>>
      /\ replies \subseteq replies'
      /\ \A reply \in replies' : reply \in replies \/ reply.updates = latest
  BY DEF Recover, schedulerIdle, vars
<1>3. Calm
  BY <1>1, <1>2, CalmTurn
<1> QED
  BY <1>3, CalmKeeps

LEMMA SubscribeFailedShown ==
  ASSUME FeedInv, FeedInv', ShownInv, steady, NEW reply \in replies,
         ReceiveReply(reply), SubscribeFailed(reply)
  PROVE  ShownInv'
<1>1. \E B, D \in SUBSET Owners : Turn(B, D)
  BY SubscribeFailedTurn
<1>2. /\ UNCHANGED <<revision, latest, notes, lagged, events>>
      /\ replies' = replies \ {reply} /\ Answers(reply) /\ ~Grants(reply)
  BY DEF ReceiveReply, SubscribeFailed, Answers, Grants, schedulerIdle, vars
<1> DEFINE o == reply.owner
<1>3. CASE Awaited(reply)
  <2>1. o \in DOMAIN screens /\ screens[o].generation = 0 /\ screens[o] \in Screen
    BY <1>2, <1>3 DEF Awaited, FeedInv, AskedBeforeBound, FeedTypes, ScreenTypes, MapOf
  <2>2. ~Awaits(o)
    <3>1. ~Bound(o)
      <4>1. o \in DOMAIN owners => owners[o].generation # 0
        BY DEF FeedInv, IInv, GenerationsOrdered
      <4> QED
        BY <2>1, <4>1 DEF Bound
    <3>2. \A other \in replies : Grants(other) /\ other.owner = o => ~Awaited(other)
      BY <1>2, <1>3 DEF Awaited, FeedInv, OneAskPerEpoch, SameAsk, Answers, Grants
    <3> QED
      BY <3>1, <3>2 DEF Awaits
  <2>3. /\ DOMAIN screens' = DOMAIN screens
        /\ \A p \in DOMAIN screens \ {o} : screens'[p] = screens[p]
        /\ screens'[o].latest.generation = 0
    BY <1>3, <2>1, FailedShape DEF SubscribeFailed
  <2> QED
    BY <1>1, <1>2, <2>2, <2>3, CalmTurn, CalmKeeps
<1>4. CASE ~Awaited(reply)
  <2>1. UNCHANGED screens
    BY <1>4 DEF SubscribeFailed, Failed, Awaited
  <2> QED
    BY <1>1, <1>2, <2>1, CalmTurn, CalmKeeps
<1> QED
  BY <1>3, <1>4

LEMMA SubscribedStaleShown ==
  ASSUME FeedInv, FeedInv', ShownInv, steady, NEW reply \in replies,
         ReceiveReply(reply), Subscribed(reply), ~Current(reply.owner, reply.epoch)
  PROVE  ShownInv'
<1>1. /\ UNCHANGED <<owners, generation, revision, latest, notes, lagged, events, screens>>
      /\ replies' = replies \ {reply} /\ Grants(reply) /\ Answers(reply)
  BY DEF ReceiveReply, Subscribed, Answers, Grants, schedulerIdle, vars
<1>2. \A o : Awaits(o)' => Awaits(o)
  BY <1>1 DEF Awaits, Bound, Awaited, Granted, Grants
<1>3. Awaits(reply.owner)' => Granted(reply).generation # owners[reply.owner].generation
  <2> SUFFICES ASSUME Awaits(reply.owner)', Granted(reply).generation = owners[reply.owner].generation
               PROVE  FALSE
    OBVIOUS
  <2>1. ~Bound(reply.owner)'
    BY <1>1 DEF FeedInv, OnePlacePerGeneration, Bound
  <2>2. PICK other \in replies' :
          /\ Grants(other) /\ other.owner = reply.owner
          /\ Granted(other).generation = owners[reply.owner].generation
    BY <1>1, <2>1 DEF Awaits, Granted, Grants
  <2>3. other = reply
    BY <1>1, <2>2 DEF FeedInv, OnePlacePerGeneration
  <2> QED
    BY <1>1, <2>3
<1> QED
  BY <1>1, <1>2, <1>3, CalmKeeps DEF Calm

LEMMA IdleHandledShown ==
  ASSUME FeedInv, FeedInv', ShownInv, steady, NEW i \in 1..Len(calls),
         \/ RefuseSubscribe(i) \/ LoseUnsubscribe(i)
         \/ HandleUnsubscribe(i) /\ UNCHANGED <<notes, lagged>> /\ schedulerIdle
  PROVE  ShownInv'
<1>1. /\ UNCHANGED <<owners, generation, revision, latest, notes, lagged, events, screens>>
      /\ replies \subseteq replies'
      /\ \A reply \in replies' \ replies : ~Grants(reply) /\ DOMAIN reply.updates = {}
  BY DEF RefuseSubscribe, LoseUnsubscribe, HandleUnsubscribe, Grants, EmptyMap, schedulerIdle, vars
<1>2. \A o : Awaits(o)' => Awaits(o)
  BY <1>1 DEF Awaits, Bound, Awaited, Granted, Grants
<1> QED
  BY <1>1, <1>2, CalmKeeps DEF Calm

LEMMA FetchShown ==
  ASSUME FeedInv, FeedInv', ShownInv, steady,
         FetchStep \/ \E t \in tasks : Complete(t) /\ ~Accepts(t)
  PROVE  ShownInv'
<1>1. UNCHANGED <<owners, generation, revision, latest, notes, lagged, events, replies, screens>>
  BY DEF FetchStep, Tick, FinishFetch, DueElapses, feedVars, Complete, JoinNext
<1>2. \A o : Awaits(o)' => Awaits(o)
  BY <1>1 DEF Awaits, Bound, Awaited, Granted, Grants
<1> QED
  BY <1>1, <1>2, CalmKeeps DEF Calm

-----------------------------------------------------------------------------
\* An update that a screen takes in is shown unless a newer one is.
LEMMA AppliedReaches ==
  ASSUME NEW s \in Screen, NEW u \in Update, NEW g \in Nat, NEW rev \in Nat,
         u.generation <= g, s.latest.generation <= g
  PROVE  /\ Applied(s, u).latest = s.latest \/ Applied(s, u).latest = Shown(u)
         /\ \/ s.latest.generation = g /\ s.latest.revision >= rev
            \/ /\ u.generation = g /\ u.revision >= rev /\ u.request = s.request
               /\ s.generation = 0 \/ s.generation = g
            => Applied(s, u).latest.generation = g /\ Applied(s, u).latest.revision >= rev
<1>1. /\ s.latest \in Pictured /\ u.generation \in Nat /\ u.revision \in Nat
      /\ s.generation \in Nat
  BY DEF Screen, Update
<1>2. s.latest.generation \in Nat /\ s.latest.revision \in Nat
  BY <1>1 DEF Pictured
<1>3. CASE Fresh(s, u)
  <2>1. Applied(s, u).latest = Shown(u)
    BY <1>3 DEF Applied, Screen
  <2>2. Shown(u).generation = u.generation /\ Shown(u).revision = u.revision
    BY DEF Shown
  <2>3. s.latest.generation = g /\ s.latest.revision >= rev =>
          u.generation = g /\ u.revision >= rev
    BY <1>1, <1>2, <1>3 DEF Fresh
  <2> QED
    BY <2>1, <2>2, <2>3
<1>4. CASE ~Fresh(s, u)
  <2>1. Applied(s, u).latest = s.latest
    BY <1>4 DEF Applied
  <2>2. /\ u.generation = g /\ u.revision >= rev /\ u.request = s.request
        /\ s.generation = 0 \/ s.generation = g
        => s.latest.generation = g /\ s.latest.revision >= rev
    BY <1>1, <1>2, <1>4 DEF Fresh
  <2> QED
    BY <2>1, <2>2
<1> QED
  BY <1>3, <1>4

Heard(o, u) ==
  \E s \in Screen :
    /\ s.request = screens[o].request /\ s.latest = screens[o].latest
    /\ s.generation = 0 \/ s.generation = owners[o].generation
    /\ screens'[o].latest = Applied(s, u).latest

LEMMA HeardReaches ==
  ASSUME FeedInv, SentIsPast, NEW o, Awaits(o), NEW u \in Update, SentTo(o, u), Heard(o, u),
         NEW rev \in Nat, Reaches(o, u, rev) \/ Reaches(o, screens[o].latest, rev)
  PROVE  Reaches(o, screens'[o].latest, rev)
<1>1. /\ o \in Owners /\ o \in DOMAIN screens /\ o \in DOMAIN owners
      /\ screens[o].request = owners[o].request
  BY AwaitsOwn
<1> DEFINE g == owners[o].generation
<1>2. g \in Nat
  BY <1>1 DEF FeedInv, IInv, GenerationsOrdered
<1>3. u.generation <= g /\ (u.generation = g => u.request = owners[o].request)
  BY <1>1 DEF SentIsPast, IsPast
<1>4. screens[o].latest.generation <= g
  BY <1>1 DEF SentIsPast
<1>5. PICK s \in Screen :
        /\ s.request = screens[o].request /\ s.latest = screens[o].latest
        /\ s.generation = 0 \/ s.generation = g
        /\ screens'[o].latest = Applied(s, u).latest
  BY DEF Heard
<1>6. \/ s.latest.generation = g /\ s.latest.revision >= rev
      \/ u.generation = g /\ u.revision >= rev
  BY <1>5 DEF Reaches
<1> HIDE DEF g
<1>7. screens'[o].latest.generation = g /\ screens'[o].latest.revision >= rev
  BY <1>1, <1>2, <1>3, <1>4, <1>5, <1>6, AppliedReaches
<1> QED
  BY <1>7 DEF Reaches, g

\* A step at which the screens only take in updates that were sent.
TakesIn ==
  /\ UNCHANGED <<owners, generation, revision, latest, notes, lagged>>
  /\ \A o \in Owners : \A u \in Update : SentTo(o, u)' => SentTo(o, u)
  /\ \A o \in DOMAIN screens' : ShownFrom(o)
  /\ \A o : Awaits(o)' =>
       /\ Awaits(o)
       /\ screens'[o].latest = screens[o].latest \/ \E u \in Update : SentTo(o, u) /\ Heard(o, u)
       /\ \A k \in 1..Len(events) : o \in DOMAIN events[k] =>
            \/ \E j \in 1..Len(events') : events'[j] = events[k]
            \/ Heard(o, events[k][o])
       /\ \A reply \in replies : AppliedTo(o, reply) /\ o \in DOMAIN reply.updates =>
            reply \in replies' \/ Heard(o, reply.updates[o])

LEMMA EventsAreUpdates ==
  ASSUME FeedInv
  PROVE  /\ Len(events) \in Nat
         /\ \A k \in 1..Len(events) : IsUpdates(events[k])
         /\ \A k \in 1..Len(events) : \A o \in DOMAIN events[k] : events[k][o] \in Update
<1> DEFINE Maps == UNION {[D -> Update] : D \in SUBSET Owners}
<1>1. events \in Seq(Maps)
  BY DEF FeedInv, FeedTypes, EventTypes
<1>2. \A map \in Maps : IsUpdates(map) /\ \A o \in DOMAIN map : map[o] \in Update
  BY DEF IsUpdates, MapOf
<1> HIDE DEF Maps
<1>3. Len(events) \in Nat /\ \A k \in 1..Len(events) : events[k] \in Maps
  BY <1>1, LenProperties, ElementOfSeq
<1> QED
  BY <1>2, <1>3

LEMMA TakenInShown ==
  ASSUME FeedInv, FeedInv', ShownInv, TakesIn
  PROVE  ShownInv'
<1>1. UNCHANGED <<owners, generation, revision, latest, notes, lagged>>
  BY DEF TakesIn
<1>2. Carries /\ \A o \in DOMAIN owners : SamePublished(o)
  BY <1>1, SchedulerIdles
<1>3. \A o \in Owners : NewSent(o)
  BY DEF NewSent, TakesIn
<1>4. SentIsPast'
  BY <1>2, <1>3, SentStaysPast DEF ShownInv, TakesIn
<1>5. ASSUME NEW o \in Owners, Awaits(o)' PROVE \E rev \in 0..revision' : Settling(o, rev)'
  <2>1. Awaits(o) /\ o \in DOMAIN screens /\ o \in DOMAIN owners /\ ShownFrom(o)
    BY <1>5 DEF TakesIn, Awaits
  <2>2. PICK rev \in 0..revision : Settling(o, rev)
    BY <2>1 DEF ShownInv
  <2>3. rev \in Nat /\ SentIsPast
    BY DEF ShownInv
  <2>4. ASSUME Coming(o, rev) PROVE Coming(o, rev)'
    <3>1. CASE Noted(o)
      BY <1>1, <3>1 DEF Coming, Noted
    <3>2. CASE Reaches(o, screens[o].latest, rev)
      <4>1. Reaches(o, screens'[o].latest, rev)
        BY <1>5, <2>1, <2>3, <3>2, HeardReaches DEF TakesIn
      <4> QED
        BY <1>1, <4>1 DEF Coming, Reaches
    <3>3. CASE \E k \in 1..Len(events) : o \in DOMAIN events[k] /\ Reaches(o, events[k][o], rev)
      <4>1. PICK k \in 1..Len(events) : o \in DOMAIN events[k] /\ Reaches(o, events[k][o], rev)
        BY <3>3
      <4>2. CASE \E j \in 1..Len(events') : events'[j] = events[k]
        BY <1>1, <4>1, <4>2 DEF Coming, Reaches
      <4>3. CASE Heard(o, events[k][o])
        <5>1. SentTo(o, events[k][o]) /\ events[k][o] \in Update
          BY <4>1, EventsAreUpdates DEF SentTo
        <5>2. Reaches(o, screens'[o].latest, rev)
          BY <2>1, <2>3, <4>1, <4>3, <5>1, HeardReaches
        <5> QED
          BY <1>1, <5>2 DEF Coming, Reaches
      <4> QED
        BY <1>5, <4>1, <4>2, <4>3 DEF TakesIn
    <3>4. CASE \E reply \in replies :
                 /\ AppliedTo(o, reply) /\ o \in DOMAIN reply.updates
                 /\ Reaches(o, reply.updates[o], rev)
      <4>1. PICK reply \in replies :
                 /\ AppliedTo(o, reply) /\ o \in DOMAIN reply.updates
                 /\ Reaches(o, reply.updates[o], rev)
        BY <3>4
      <4>2. CASE reply \in replies'
        BY <1>1, <4>1, <4>2, Zenon DEF Coming, AppliedTo, Reaches, Answers, Grants
      <4>3. CASE Heard(o, reply.updates[o])
        <5>1. SentTo(o, reply.updates[o]) /\ reply.updates[o] \in Update
          BY <4>1 DEF SentTo, FeedInv, FeedTypes, EventTypes, IsReply, IsUpdates, MapOf
        <5>2. Reaches(o, screens'[o].latest, rev)
          BY <2>1, <2>3, <4>1, <4>3, <5>1, HeardReaches
        <5> QED
          BY <1>1, <5>2 DEF Coming, Reaches
      <4> QED
        BY <1>5, <4>1, <4>2, <4>3 DEF TakesIn
    <3> QED
      BY <2>4, <3>1, <3>2, <3>3, <3>4 DEF Coming
  <2>5. rev \in 0..revision' /\ Settling(o, rev)'
    BY <1>2, <1>3, <2>1, <2>2, <2>4, SettlingKept
  <2> QED
    BY <2>5
<1>6. notes' \in Seq(SUBSET Owners) /\ lagged' \in BOOLEAN
  BY <1>1 DEF ShownInv
<1> QED
  BY <1>4, <1>5, <1>6 DEF ShownInv

\* A map of updates reaches every screen it names.
LEMMA AppliedAllHeard ==
  ASSUME FeedInv, NEW M, IsUpdates(M), screens' = AppliedAll(M),
         \E B, D \in SUBSET Owners : Turn(B, D),
         \A o \in DOMAIN M : SentTo(o, M[o])
  PROVE  /\ \A o \in DOMAIN screens' : ShownFrom(o)
         /\ \A o : Awaits(o)' =>
              /\ Awaits(o)
              /\ o \in DOMAIN M => M[o] \in Update /\ Heard(o, M[o])
              /\ o \notin DOMAIN M => screens'[o].latest = screens[o].latest
<1>1. /\ \A o \in DOMAIN screens : o \in Owners /\ screens[o] \in Screen
      /\ \A o \in DOMAIN M : M[o] \in Update
  BY DEF FeedInv, FeedTypes, ScreenTypes, MapOf, IsUpdates
<1>2. /\ DOMAIN screens' = DOMAIN screens
      /\ \A o \in DOMAIN screens : screens'[o] =
           IF o \in DOMAIN M THEN Applied(screens[o], M[o]) ELSE screens[o]
  BY DEF AppliedAll
<1>3. ASSUME NEW o \in DOMAIN screens' PROVE ShownFrom(o)
  <2>1. CASE o \in DOMAIN M
    <3>1. \/ screens'[o].latest = screens[o].latest
          \/ screens'[o].latest = Shown(M[o])
      <4>1. screens'[o] = Applied(screens[o], M[o]) /\ screens[o] \in Screen
        BY <1>1, <1>2, <2>1
      <4> QED
        BY <4>1 DEF Applied, Screen
    <3> QED
      BY <1>1, <1>2, <2>1, <3>1 DEF ShownFrom
  <2>2. CASE o \notin DOMAIN M
    BY <1>2, <2>2 DEF ShownFrom
  <2> QED
    BY <2>1, <2>2
<1>4. ASSUME NEW o, Awaits(o)'
      PROVE  /\ Awaits(o)
             /\ o \in DOMAIN M => M[o] \in Update /\ Heard(o, M[o])
             /\ o \notin DOMAIN M => screens'[o].latest = screens[o].latest
  <2>1. Awaits(o)
    BY <1>4, TurnAwaits
  <2>2. /\ o \in DOMAIN screens
        /\ screens[o].generation = 0 \/ screens[o].generation = owners[o].generation
    BY <2>1, AwaitsOwn
  <2>3. o \in DOMAIN M => Heard(o, M[o])
    BY <1>1, <1>2, <2>2 DEF Heard
  <2> QED
    BY <1>1, <1>2, <2>1, <2>2, <2>3
<1> QED
  BY <1>3, <1>4

LEMMA DeliverShown ==
  ASSUME FeedInv, FeedInv', ShownInv, steady, Deliver
  PROVE  ShownInv'
<1> DEFINE M == Head(events)
           Maps == UNION {[D -> Update] : D \in SUBSET Owners}
<1>1. /\ UNCHANGED <<owners, generation, revision, latest, notes, lagged, replies>>
      /\ events # <<>> /\ events' = Tail(events) /\ screens' = AppliedAll(M)
  BY DEF Deliver, schedulerIdle, vars
<1>2. \E B, D \in SUBSET Owners : Turn(B, D)
  BY DeliverTurn
<1>3. events \in Seq(Maps)
  BY DEF FeedInv, FeedTypes, EventTypes
<1> HIDE DEF Maps
<1>4. /\ Len(events) \in Nat \ {0} /\ Len(events') = Len(events) - 1 /\ M = events[1]
      /\ \A j \in 1..Len(events') : events'[j] = events[j + 1]
  <2>1. Len(events) \in Nat /\ Len(events) # 0
    BY <1>1, <1>3, LenProperties, EmptySeq
  <2>2. M = events[1] /\ Len(Tail(events)) = Len(events) - 1
        /\ \A j \in 1..Len(Tail(events)) : Tail(events)[j] = events[j + 1]
    BY <1>1, <1>3, HeadTailProperties
  <2> QED
    BY <1>1, <2>1, <2>2
<1> HIDE DEF M
<1>5. IsUpdates(M) /\ \A o \in DOMAIN M : SentTo(o, M[o])
  BY <1>4, EventsAreUpdates DEF SentTo
<1>6. /\ \A o \in DOMAIN screens' : ShownFrom(o)
      /\ \A o : Awaits(o)' =>
           /\ Awaits(o)
           /\ o \in DOMAIN M => M[o] \in Update /\ Heard(o, M[o])
           /\ o \notin DOMAIN M => screens'[o].latest = screens[o].latest
  BY <1>1, <1>2, <1>5, AppliedAllHeard
<1>7. \A o \in Owners : \A u \in Update : SentTo(o, u)' => SentTo(o, u)
  <2> SUFFICES ASSUME NEW o \in Owners, NEW u \in Update, SentTo(o, u)' PROVE SentTo(o, u)
    OBVIOUS
  <2>1. \A k \in 1..Len(events') : k + 1 \in 1..Len(events)
    BY <1>4
  <2> QED
    BY <1>1, <1>4, <2>1 DEF SentTo
<1>8. \A k \in 1..Len(events) : k = 1 \/ \E j \in 1..Len(events') : events'[j] = events[k]
  <2> SUFFICES ASSUME NEW k \in 1..Len(events), k # 1
               PROVE  \E j \in 1..Len(events') : events'[j] = events[k]
    OBVIOUS
  <2>1. k - 1 \in 1..Len(events') /\ (k - 1) + 1 = k
    BY <1>4
  <2> QED
    BY <1>4, <2>1
<1>9. ASSUME NEW o, Awaits(o)'
      PROVE  /\ Awaits(o)
             /\ screens'[o].latest = screens[o].latest
                \/ \E u \in Update : SentTo(o, u) /\ Heard(o, u)
             /\ \A k \in 1..Len(events) : o \in DOMAIN events[k] =>
                  \/ \E j \in 1..Len(events') : events'[j] = events[k]
                  \/ Heard(o, events[k][o])
  BY <1>4, <1>5, <1>6, <1>8, <1>9
<1>10. TakesIn
  BY <1>1, <1>6, <1>7, <1>9, Zenon DEF TakesIn
<1> QED
  BY <1>10, TakenInShown

LEMMA RecoveredShown ==
  ASSUME FeedInv, FeedInv', ShownInv, steady, NEW reply \in replies,
         ReceiveReply(reply), Recovered(reply)
  PROVE  ShownInv'
<1> DEFINE M == reply.updates
<1>1. /\ UNCHANGED <<owners, generation, revision, latest, notes, lagged, events>>
      /\ replies' = replies \ {reply} /\ screens' = AppliedAll(M)
  BY DEF ReceiveReply, Recovered, schedulerIdle, vars
<1>2. \E B, D \in SUBSET Owners : Turn(B, D)
  BY RecoveredTurn
<1>3. IsUpdates(M) /\ \A o \in DOMAIN M : SentTo(o, M[o])
  BY DEF FeedInv, FeedTypes, EventTypes, IsReply, SentTo
<1>4. /\ \A o \in DOMAIN screens' : ShownFrom(o)
      /\ \A o : Awaits(o)' =>
           /\ Awaits(o)
           /\ o \in DOMAIN M => M[o] \in Update /\ Heard(o, M[o])
           /\ o \notin DOMAIN M => screens'[o].latest = screens[o].latest
  BY <1>1, <1>2, <1>3, AppliedAllHeard
<1>5. \A o \in Owners : \A u \in Update : SentTo(o, u)' => SentTo(o, u)
  BY <1>1 DEF SentTo
<1>6. ASSUME NEW o, Awaits(o)'
      PROVE  /\ Awaits(o)
             /\ screens'[o].latest = screens[o].latest
                \/ \E u \in Update : SentTo(o, u) /\ Heard(o, u)
             /\ \A k \in 1..Len(events) : \E j \in 1..Len(events') : events'[j] = events[k]
             /\ \A other \in replies : o \in DOMAIN other.updates =>
                  other \in replies' \/ Heard(o, other.updates[o])
  BY <1>1, <1>3, <1>4, <1>6
<1>7. TakesIn
  BY <1>1, <1>4, <1>5, <1>6 DEF TakesIn
<1> QED
  BY <1>7, TakenInShown

\* The answer to the current begin makes the screen its binding's.
LEMMA SubscribedCurrentShown ==
  ASSUME FeedInv, FeedInv', ShownInv, steady, NEW reply \in replies,
         ReceiveReply(reply), Subscribed(reply), Current(reply.owner, reply.epoch)
  PROVE  ShownInv'
<1> DEFINE p == reply.owner
           u == Granted(reply)
           kept == [screens[p] EXCEPT !.generation = u.generation]
<1>1. /\ UNCHANGED <<owners, generation, revision, latest, notes, lagged, events>>
      /\ replies' = replies \ {reply} /\ Grants(reply) /\ Answers(reply)
      /\ screens' = [screens EXCEPT ![p] = Applied(kept, u)]
  BY DEF ReceiveReply, Subscribed, Grants, Answers, Granted, schedulerIdle, vars
<1>2. p \in DOMAIN screens /\ p \in Owners /\ screens[p] \in Screen /\ Awaited(reply)
  BY DEF Current, FeedInv, FeedTypes, ScreenTypes, MapOf, Awaited
<1>3. /\ u \in Update /\ u = reply.updates[p] /\ p \in DOMAIN reply.updates
      /\ u.generation \in Nat
  BY <1>1 DEF FeedInv, FeedTypes, EventTypes, IsReply, IsUpdates, MapOf, Grants, Granted, Update
<1>4. SentTo(p, u)
  BY <1>3 DEF SentTo
<1>5. /\ kept \in Screen /\ kept.generation = u.generation
      /\ kept.request = screens[p].request /\ kept.latest = screens[p].latest
  BY <1>2, <1>3 DEF Screen
<1> HIDE DEF kept
<1>6. /\ DOMAIN screens' = DOMAIN screens
      /\ screens'[p].latest = Applied(kept, u).latest
      /\ screens'[p].generation = u.generation
      /\ screens'[p].epoch = screens[p].epoch
      /\ \A o \in DOMAIN screens \ {p} : screens'[o] = screens[o]
  <2>1. Applied(kept, u).generation = u.generation /\ Applied(kept, u).epoch = screens[p].epoch
    <3>1. kept.epoch = screens[p].epoch
      BY <1>2 DEF kept, Screen
    <3> QED
      BY <1>3, <1>5, <3>1, AppliedScreen
  <2> QED
    BY <1>1, <1>2, <2>1
<1>7. \A o \in DOMAIN screens' : ShownFrom(o)
  <2>1. Applied(kept, u).latest = kept.latest \/ Applied(kept, u).latest = Shown(u)
    BY <1>5 DEF Applied, Screen
  <2> QED
    BY <1>2, <1>3, <1>4, <1>5, <1>6, <2>1 DEF ShownFrom
<1>8. \A other \in replies' : Grants(other) /\ other.owner = p => other.epoch # screens[p].epoch
  BY <1>1, <1>2 DEF FeedInv, OneAskPerEpoch, SameAsk, Answers, Grants, Awaited
<1>9. Awaits(p)' => u.generation = owners[p].generation
  <2> SUFFICES ASSUME Awaits(p)' PROVE u.generation = owners[p].generation
    OBVIOUS
  <2>1. Bound(p)'
    BY <1>6, <1>8 DEF Awaits, Awaited, Grants
  <2> QED
    BY <1>1, <1>6, <2>1 DEF Bound
<1>10. ASSUME NEW o, Awaits(o)' PROVE Awaits(o)
  <2>1. o \in DOMAIN screens /\ o \in DOMAIN owners
    BY <1>1, <1>6, <1>10 DEF Awaits
  <2>2. CASE o = p
    BY <1>1, <1>2, <1>9, <1>10, <2>1, <2>2 DEF Awaits
  <2>3. CASE o # p
    <3>1. screens'[o] = screens[o]
      BY <1>6, <2>1, <2>3
    <3>2. CASE Bound(o)'
      BY <1>1, <2>1, <3>1, <3>2 DEF Bound, Awaits
    <3>3. CASE ~Bound(o)'
      <4>1. PICK other \in replies' :
              /\ Grants(other) /\ other.owner = o /\ other.epoch = screens'[o].epoch
              /\ Granted(other).generation = owners'[o].generation
        BY <1>10, <3>3 DEF Awaits, Awaited, Grants, Granted
      <4> QED
        BY <1>1, <2>1, <3>1, <4>1 DEF Awaits, Awaited
    <3> QED
      BY <3>2, <3>3
  <2> QED
    BY <2>2, <2>3
<1>11. ASSUME NEW o, Awaits(o)'
       PROVE  /\ screens'[o].latest = screens[o].latest \/ (o = p /\ Heard(p, u))
              /\ o = p => Heard(p, u)
  <2>1. o \in DOMAIN screens
    BY <1>10, <1>11 DEF Awaits
  <2>2. Awaits(p)' => Heard(p, u)
    BY <1>5, <1>6, <1>9 DEF Heard
  <2> QED
    BY <1>6, <1>11, <2>1, <2>2
<1>12. \A o \in Owners : \A v \in Update : SentTo(o, v)' => SentTo(o, v)
  BY <1>1 DEF SentTo
<1>13. ASSUME NEW o, Awaits(o)', NEW other \in replies, AppliedTo(o, other),
              o \in DOMAIN other.updates
       PROVE  other \in replies' \/ Heard(o, other.updates[o])
  <2>1. CASE other = reply
    <3>1. o = p
      BY <1>1, <1>13, <2>1 DEF AppliedTo
    <3> QED
      BY <1>3, <1>11, <1>13, <2>1, <3>1
  <2> QED
    BY <1>1, <2>1
<1>14. \A o : Awaits(o)' =>
         /\ Awaits(o)
         /\ screens'[o].latest = screens[o].latest
            \/ \E v \in Update : SentTo(o, v) /\ Heard(o, v)
         /\ \A k \in 1..Len(events) : \E j \in 1..Len(events') : events'[j] = events[k]
         /\ \A other \in replies : AppliedTo(o, other) /\ o \in DOMAIN other.updates =>
              other \in replies' \/ Heard(o, other.updates[o])
  <2>1. \A k \in 1..Len(events) : \E j \in 1..Len(events') : events'[j] = events[k]
    BY <1>1
  <2> HIDE DEF u, p
  <2> QED
    BY <1>3, <1>4, <1>10, <1>11, <1>13, <2>1
<1>15. TakesIn
  BY <1>1, <1>7, <1>12, <1>14 DEF TakesIn
<1> QED
  BY <1>15, TakenInShown

\* The forwarder turns a notification into an event that is up to date.
LEMMA ForwardShown ==
  ASSUME FeedInv, FeedInv', ShownInv, steady, Forward
  PROVE  ShownInv'
<1> DEFINE changed == (IF lagged THEN Owners ELSE Head(notes)) \cap DOMAIN latest
           emitted == [o \in changed |-> latest[o]]
           Maps == UNION {[D -> Update] : D \in SUBSET Owners}
<1>1. /\ UNCHANGED <<owners, generation, revision, latest, screens, replies>>
      /\ lagged \/ notes # <<>>
      /\ notes' = IF lagged THEN notes ELSE Tail(notes)
      /\ lagged' = FALSE
      /\ events' = IF changed = {} THEN events ELSE Append(events, emitted)
  BY DEF Forward, schedulerIdle, vars
<1>2. /\ PublishedOfAll /\ notes \in Seq(SUBSET Owners) /\ lagged \in BOOLEAN
      /\ DOMAIN latest = DOMAIN owners
  BY PublishedHeld DEF ShownInv, PublishedOfAll
<1>3. /\ DOMAIN emitted = changed /\ \A o \in changed : emitted[o] = latest[o]
      /\ changed \subseteq DOMAIN latest
  OBVIOUS
<1>4. /\ Len(events) \in Nat
      /\ \A k \in 1..Len(events) : k \in 1..Len(events') /\ events'[k] = events[k]
      /\ \A k \in 1..Len(events') : k \in 1..Len(events) \/ events'[k] = emitted
      /\ changed # {} => \E k \in 1..Len(events') : events'[k] = emitted
  <2>1. emitted \in Maps /\ events \in Seq(Maps)
    <3>1. \A o \in DOMAIN latest : latest[o] \in Update /\ o \in Owners
      BY TypeOKMaps DEF FeedInv, IInv, MapOf
    <3>2. changed \in SUBSET Owners
      BY <3>1
    <3>3. emitted \in [changed -> Update]
      BY <3>1
    <3>4. events \in Seq(Maps)
      BY DEF FeedInv, FeedTypes, EventTypes
    <3> HIDE DEF changed, emitted
    <3> QED
      BY <3>2, <3>3, <3>4
  <2>2. Len(events) \in Nat
    BY EventsAreUpdates
  <2> HIDE DEF Maps, emitted, changed
  <2>3. CASE changed = {}
    BY <1>1, <2>2, <2>3
  <2>4. CASE changed # {}
    <3>1. events' = Append(events, emitted)
      BY <1>1, <2>4
    <3>2. /\ Len(events') = Len(events) + 1
          /\ \A k \in 1..Len(events) : events'[k] = events[k]
          /\ events'[Len(events) + 1] = emitted
      BY <2>1, <3>1, AppendProperties
    <3>3. \A k \in 1..Len(events') : k \in 1..Len(events) \/ k = Len(events) + 1
      BY <2>2, <3>2
    <3>4. Len(events) + 1 \in 1..Len(events') /\ \A k \in 1..Len(events) : k \in 1..Len(events')
      BY <2>2, <3>2
    <3> QED
      BY <2>2, <3>2, <3>3, <3>4
  <2> QED
    BY <2>3, <2>4
<1>5. /\ notes' \in Seq(SUBSET Owners)
      /\ \A o : Noted(o) => Noted(o)' \/ (o \in Owners => o \in changed \/ o \notin DOMAIN latest)
  <2>1. CASE lagged
    BY <1>1, <1>2, <2>1
  <2>2. CASE ~lagged
    <3>1. notes # <<>> /\ notes' = Tail(notes)
      BY <1>1, <2>2
    <3>2. /\ notes' \in Seq(SUBSET Owners) /\ Len(notes') = Len(notes) - 1
          /\ Head(notes) = notes[1]
          /\ \A k \in 1..Len(notes') : notes'[k] = notes[k + 1]
      BY <1>2, <3>1, HeadTailProperties
    <3>3. Len(notes) \in Nat
      BY <1>2, LenProperties
    <3>4. ASSUME NEW o, Noted(o), ~Noted(o)', o \in DOMAIN latest PROVE o \in changed
      <4>1. PICK k \in 1..Len(notes) : o \in notes[k]
        BY <2>2, <3>4 DEF Noted
      <4>2. k = 1
        <5> SUFFICES ASSUME k # 1 PROVE FALSE
          OBVIOUS
        <5>1. k - 1 \in 1..Len(notes') /\ notes'[k - 1] = notes[k]
          BY <3>2, <3>3
        <5> QED
          BY <3>4, <4>1, <5>1 DEF Noted
      <4> QED
        BY <2>2, <3>2, <3>4, <4>1, <4>2
    <3> QED
      BY <3>2, <3>4
  <2> QED
    BY <2>1, <2>2
<1> HIDE DEF changed, emitted
<1>6. Carries /\ \A o \in DOMAIN owners : SamePublished(o)
  BY <1>1, SchedulerIdles
<1>7. \A o \in Owners : NewSent(o)
  <2> SUFFICES ASSUME NEW o \in Owners, NEW u \in Update, SentTo(o, u)', ~SentTo(o, u)
               PROVE  o \in DOMAIN latest /\ u = latest[o]
    BY DEF NewSent
  <2>1. PICK k \in 1..Len(events') : o \in DOMAIN events'[k] /\ u = events'[k][o]
    BY <1>1 DEF SentTo
  <2>2. k \notin 1..Len(events)
    BY <1>4, <2>1 DEF SentTo
  <2> QED
    BY <1>3, <1>4, <2>1, <2>2
<1>8. \A o \in DOMAIN screens' : ShownFrom(o)
  BY <1>1 DEF ShownFrom
<1>9. SentIsPast'
  BY <1>6, <1>7, <1>8, SentStaysPast DEF ShownInv
<1>10. ASSUME NEW o \in Owners, Awaits(o)' PROVE \E rev \in 0..revision' : Settling(o, rev)'
  <2>1. Awaits(o) /\ o \in DOMAIN screens /\ o \in DOMAIN owners /\ ShownFrom(o)
    BY <1>1, <1>8, <1>10 DEF Awaits, Bound, Awaited, Granted, Grants
  <2>2. PICK rev \in 0..revision : Settling(o, rev)
    BY <2>1 DEF ShownInv
  <2>3. Reaches(o, latest[o], rev)
    <3>1. latest[o].generation = owners[o].generation /\ latest[o].revision = revision
      BY <1>2, <2>1 DEF PublishedOfAll, PublishedOf
    <3>2. revision \in Nat
      BY DEF FeedInv, IInv, TypeOK
    <3> QED
      BY <3>1, <3>2 DEF Reaches
  <2>4. ASSUME Coming(o, rev) PROVE Coming(o, rev)'
    <3>1. CASE Noted(o)
      <4>1. CASE o \in changed
        <5>1. PICK k \in 1..Len(events') : events'[k] = emitted
          BY <1>4, <4>1
        <5>2. o \in DOMAIN events'[k] /\ events'[k][o] = latest[o]
          BY <1>3, <4>1, <5>1
        <5> QED
          BY <1>1, <2>3, <5>2 DEF Coming, Reaches
      <4> QED
        BY <1>2, <1>5, <2>1, <3>1, <4>1 DEF Coming
    <3>2. CASE \E k \in 1..Len(events) : o \in DOMAIN events[k] /\ Reaches(o, events[k][o], rev)
      BY <1>1, <1>4, <3>2 DEF Coming, Reaches
    <3>3. CASE \E reply \in replies :
                 /\ AppliedTo(o, reply) /\ o \in DOMAIN reply.updates
                 /\ Reaches(o, reply.updates[o], rev)
      BY <1>1, <3>3 DEF Coming, AppliedTo, Reaches, Answers, Grants
    <3>4. CASE Reaches(o, screens[o].latest, rev)
      BY <1>1, <3>4 DEF Coming, Reaches
    <3> QED
      BY <2>4, <3>1, <3>2, <3>3, <3>4 DEF Coming
  <2>5. rev \in 0..revision' /\ Settling(o, rev)'
    BY <1>6, <1>7, <2>1, <2>2, <2>4, SettlingKept
  <2> QED
    BY <2>5
<1> QED
  BY <1>1, <1>5, <1>9, <1>10 DEF ShownInv

-----------------------------------------------------------------------------
\* A step that publishes announces what it changed to the owners concerned.
Publishes ==
  /\ UNCHANGED <<screens, events>> /\ revision' = revision + 1 /\ Carries
  /\ notes' \in Seq(SUBSET Owners) /\ lagged' \in BOOLEAN
  /\ \A o : Noted(o) => Noted(o)'
  /\ replies \subseteq replies'
  /\ \A reply \in replies' : reply \in replies \/ reply.updates = latest'
  /\ \A o : Awaits(o)' => Noted(o)' \/ (Awaits(o) /\ SamePublished(o))

LEMMA PublishesShown ==
  ASSUME FeedInv, FeedInv', ShownInv, Publishes
  PROVE  ShownInv'
<1>1. UNCHANGED <<screens, events>> /\ revision' = revision + 1 /\ Carries
  BY DEF Publishes
<1>2. DOMAIN latest' = DOMAIN owners'
  BY NewPublishedHeld DEF PublishedOfAll
<1>3. \A o \in Owners : \A u \in Update :
        SentTo(o, u)' => SentTo(o, u) \/ (o \in DOMAIN latest' /\ u = latest'[o])
  <2> SUFFICES ASSUME NEW o \in Owners, NEW u \in Update, SentTo(o, u)', ~SentTo(o, u)
               PROVE  o \in DOMAIN latest' /\ u = latest'[o]
    OBVIOUS
  <2>1. PICK reply \in replies' : o \in DOMAIN reply.updates /\ u = reply.updates[o]
    BY <1>1 DEF SentTo
  <2>2. reply \notin replies
    BY <2>1 DEF SentTo
  <2> QED
    BY <2>1, <2>2 DEF Publishes
<1>4. \A o \in Owners : NewSent(o)
  BY <1>3 DEF NewSent
<1>5. \A o \in DOMAIN screens' : ShownFrom(o)
  BY <1>1 DEF ShownFrom
<1>6. SentIsPast'
  BY <1>1, <1>4, <1>5, SentStaysPast DEF ShownInv
<1>7. ASSUME NEW o \in Owners, Awaits(o)' PROVE \E rev \in 0..revision' : Settling(o, rev)'
  <2>1. o \in DOMAIN screens /\ o \in DOMAIN owners'
    BY <1>1, <1>7 DEF Awaits
  <2>2. CASE Noted(o)'
    BY <1>1, <1>3, <2>1, <2>2, SettlingNew DEF ShownInv
  <2>3. CASE Awaits(o) /\ SamePublished(o)
    <3>1. PICK rev \in 0..revision : Settling(o, rev)
      BY <2>3 DEF ShownInv
    <3>2. owners'[o] = owners[o]
      BY <2>3 DEF SamePublished
    <3>3. ASSUME Coming(o, rev) PROVE Coming(o, rev)'
      <4>1. CASE Noted(o)
        BY <4>1 DEF Coming, Publishes
      <4>2. CASE \E k \in 1..Len(events) :
                   o \in DOMAIN events[k] /\ Reaches(o, events[k][o], rev)
        BY <1>1, <3>2, <4>2 DEF Coming, Reaches
      <4>3. CASE \E reply \in replies :
                   /\ AppliedTo(o, reply) /\ o \in DOMAIN reply.updates
                   /\ Reaches(o, reply.updates[o], rev)
        <5>1. replies \subseteq replies'
          BY DEF Publishes
        <5> QED
          BY <3>2, <4>3, <5>1 DEF Coming, AppliedTo, Reaches, Answers, Grants
      <4>4. CASE Reaches(o, screens[o].latest, rev)
        BY <1>1, <3>2, <4>4 DEF Coming, Reaches
      <4> QED
        BY <3>3, <4>1, <4>2, <4>3, <4>4 DEF Coming
    <3>4. rev \in 0..revision' /\ Settling(o, rev)'
      BY <1>1, <1>4, <1>5, <2>1, <2>3, <3>1, <3>3, SettlingKept
    <3> QED
      BY <3>4
  <2> QED
    BY <1>7, <2>2, <2>3 DEF Publishes
<1> QED
  BY <1>6, <1>7 DEF ShownInv, Publishes

LEMMA CompleteShown ==
  ASSUME FeedInv, FeedInv', ShownInv, NoWrap, steady, NEW t \in tasks, Complete(t), Accepts(t)
  PROVE  ShownInv'
<1>1. /\ JoinNext(t) /\ Broadcast(entries[t.request].owners)
      /\ UNCHANGED <<screens, replies, events>>
  BY DEF Complete
<1>2. /\ Carries /\ revision' = revision + 1 /\ owners' = owners
      /\ entries[t.request].owners \in SUBSET Owners
      /\ \A o \in DOMAIN owners :
           o \notin entries[t.request].owners => SamePublished(o)
  BY <1>1, CompletePublishes
<1>3. /\ notes' \in Seq(SUBSET Owners) /\ lagged' \in BOOLEAN
      /\ \A o : Noted(o) => Noted(o)'
      /\ \A o \in entries[t.request].owners : Noted(o)'
  BY <1>1, <1>2, BroadcastNotes DEF ShownInv
<1>4. \A o : Awaits(o)' => Awaits(o) /\ o \in DOMAIN owners
  BY <1>1, <1>2 DEF Awaits, Bound, Awaited, Granted, Grants
<1>5. Publishes
  BY <1>1, <1>2, <1>3, <1>4 DEF Publishes
<1> QED
  BY <1>5, PublishesShown

LEMMA HandleUnsubscribeShown ==
  ASSUME FeedInv, FeedInv', ShownInv, NoWrap, steady, NEW i \in 1..Len(calls),
         HandleUnsubscribe(i)
  PROVE  ShownInv'
<1> DEFINE p == calls[i].owner
           g == calls[i].generation
<1>1. CASE p \in DOMAIN owners /\ owners[p].generation = g
  <2>1. Unsubscribe(p, g) /\ Broadcast({}) /\ UNCHANGED <<screens, replies, events>>
    BY <1>1 DEF HandleUnsubscribe
  <2>2. p \in Owners
    BY <1>1 DEF FeedInv, IInv, TypeOK
  <2> HIDE DEF p, g
  <2>3. /\ Carries /\ revision' = revision + 1
        /\ \A o \in DOMAIN owners' : SamePublished(o)
    BY <2>1, <2>2, UnsubscribePublishes
  <2>4. /\ notes' \in Seq(SUBSET Owners) /\ lagged' \in BOOLEAN
        /\ \A o : Noted(o) => Noted(o)'
    BY <2>1, BroadcastNotes DEF ShownInv
  <2>5. ASSUME NEW o, Awaits(o)' PROVE Awaits(o) /\ SamePublished(o)
    <3>1. o \in DOMAIN owners' /\ SamePublished(o)
      BY <2>3, <2>5 DEF Awaits
    <3>2. owners'[o] = owners[o] /\ o \in DOMAIN owners
      BY <3>1 DEF SamePublished
    <3> QED
      BY <2>1, <2>5, <3>1, <3>2 DEF Awaits, Bound, Awaited, Granted, Grants
  <2>6. Publishes
    BY <2>1, <2>3, <2>4, <2>5 DEF Publishes
  <2> QED
    BY <2>6, PublishesShown
<1>2. CASE ~(p \in DOMAIN owners /\ owners[p].generation = g)
  <2>1. HandleUnsubscribe(i) /\ UNCHANGED <<notes, lagged>> /\ schedulerIdle
    BY <1>2 DEF HandleUnsubscribe
  <2> QED
    BY <2>1, IdleHandledShown
<1> QED
  BY <1>1, <1>2

LEMMA HandleSubscribeShown ==
  ASSUME FeedInv, FeedInv', ShownInv, NoWrap, steady, NEW i \in 1..Len(calls),
         HandleSubscribe(i)
  PROVE  ShownInv'
<1> DEFINE p == calls[i].owner
           r == calls[i].request
           reply == [kind |-> "subscribed", owner |-> p, epoch |-> calls[i].epoch,
                     updates |-> latest']
<1>1. /\ Subscribe(p, r) /\ Broadcast({p}) /\ UNCHANGED <<screens, events>>
      /\ replies' = replies \cup {reply}
  BY DEF HandleSubscribe
<1>2. p \in Owners /\ r \in Requests
  <2>1. calls[i] \in Call /\ calls[i].kind = "subscribe"
    BY ElementOfSeq DEF HandleSubscribe, FeedInv, FeedTypes
  <2> QED
    BY <2>1 DEF Call, SubscribeCall, GiveBack
<1>3. reply.owner = p /\ reply.updates = latest'
  OBVIOUS
<1> HIDE DEF p, r, reply
<1>4. /\ Carries /\ revision' = revision + 1
      /\ DOMAIN owners' = DOMAIN owners \cup {p}
      /\ \A o \in DOMAIN owners : o # p => SamePublished(o)
  BY <1>1, <1>2, SubscribePublishes
<1>5. /\ notes' \in Seq(SUBSET Owners) /\ lagged' \in BOOLEAN
      /\ \A o : Noted(o) => Noted(o)'
      /\ \A o \in {p} : Noted(o)'
  BY <1>1, <1>2, BroadcastNotes DEF ShownInv
<1>6. ASSUME NEW o, Awaits(o)', o # p PROVE Awaits(o) /\ SamePublished(o)
  <2>1. o \in DOMAIN owners /\ SamePublished(o)
    BY <1>4, <1>6 DEF Awaits
  <2>2. owners'[o] = owners[o] /\ o \in DOMAIN screens
    BY <1>1, <1>6, <2>1 DEF SamePublished, Awaits
  <2>3. CASE Bound(o)'
    BY <1>1, <2>1, <2>2, <2>3 DEF Bound, Awaits
  <2>4. CASE ~Bound(o)'
    <3>1. PICK other \in replies' :
            /\ Grants(other) /\ other.owner = o /\ other.epoch = screens'[o].epoch
            /\ Granted(other).generation = owners'[o].generation
      BY <1>6, <2>4 DEF Awaits, Awaited, Grants, Granted
    <3>2. other \in replies
      BY <1>1, <1>3, <1>6, <3>1
    <3> QED
      BY <1>1, <2>1, <2>2, <3>1, <3>2 DEF Awaits, Awaited
  <2> QED
    BY <2>3, <2>4
<1>7. Publishes
  BY <1>1, <1>3, <1>4, <1>5, <1>6 DEF Publishes
<1> QED
  BY <1>7, PublishesShown

-----------------------------------------------------------------------------
LEMMA ShownStep ==
  ASSUME FeedInv, ShownInv, NoWrap, FeedNext
  PROVE  ShownInv'
<1>1. FeedInv' /\ steady
  BY FeedStep DEF FeedNext
<1>2. CASE \E o \in conditions.screens, r \in Requests : Mount(o, r)
  <2>1. conditions.screens \subseteq Owners
    BY DEF FeedInv, FeedTypes
  <2> QED
    BY <1>1, <1>2, <2>1, UserShown
<1>3. CASE \E o \in Owners : Unmount(o) \/ ReleaseTimer(o) \/ Refresh(o)
  <2>1. \E r : r \in Requests
    <3>1. PICK o \in DOMAIN screens : screens[o] \in Screen
      BY <1>3 DEF Unmount, ReleaseTimer, Refresh, FeedInv, FeedTypes, ScreenTypes, MapOf
    <3> QED
      BY <3>1 DEF Screen
  <2> QED
    BY <1>1, <1>3, <2>1, UserShown
<1>4. CASE Hide \/ Show
  <2>1. CASE screens = screens' /\ replies = replies'
    <3>1. UNCHANGED <<owners, generation, revision, latest, notes, lagged, events>>
      BY <1>4 DEF Hide, Show, schedulerIdle, vars
    <3>2. Calm
      BY <2>1, <3>1 DEF Calm, Awaits, Bound, Awaited, Granted, Grants
    <3> QED
      BY <1>1, <3>2, CalmKeeps
  <2>2. CASE screens # screens' \/ replies # replies'
    <3>1. DOMAIN screens # {}
      <4> SUFFICES ASSUME DOMAIN screens = {} PROVE FALSE
        OBVIOUS
      <4>1. screens = [o \in {} |-> {}]
        BY DEF FeedInv, FeedTypes, ScreenTypes, MapOf
      <4> QED
        BY <1>4, <2>2, <4>1 DEF Hide, Show
    <3>2. PICK o \in DOMAIN screens : o \in Owners /\ screens[o] \in Screen
      BY <3>1 DEF FeedInv, FeedTypes, ScreenTypes, MapOf
    <3>3. screens[o].request \in Requests
      BY <3>2 DEF Screen
    <3> QED
      BY <1>1, <1>4, <3>2, <3>3, UserShown
  <2> QED
    BY <2>1, <2>2
<1>5. CASE \E b \in begins : BeginReady(b) \/ ListenFails(b)
  BY <1>1, <1>5, BeginReadyShown, ListenFailsShown
<1>6. CASE \E reply \in replies : ReceiveReply(reply)
  BY <1>1, <1>6, SubscribedStaleShown, SubscribedCurrentShown, SubscribeFailedShown,
     RecoveredShown DEF ReceiveReply
<1>7. CASE Deliver \/ Recover \/ Forward
  BY <1>1, <1>7, DeliverShown, RecoverShown, ForwardShown
<1>8. CASE HandleCall
  BY <1>1, <1>8, HandleSubscribeShown, HandleUnsubscribeShown, IdleHandledShown DEF HandleCall
<1>9. CASE (\E t \in tasks : Complete(t)) \/ FetchStep
  BY <1>1, <1>9, CompleteShown, FetchShown
<1> QED
  BY <1>2, <1>3, <1>4, <1>5, <1>6, <1>7, <1>8, <1>9 DEF FeedNext

LEMMA ShownStutter ==
  ASSUME FeedInv, ShownInv, UNCHANGED allVars
  PROVE  ShownInv'
<1>1. UNCHANGED <<owners, generation, revision, latest, notes, lagged, events, screens, replies>>
  BY DEF allVars, vars, feedVars
<1>2. Calm
  BY <1>1 DEF Calm, Awaits, Bound, Awaited, Granted, Grants
<1>3. FeedInv'
  BY FeedStutter
<1> QED
  BY <1>2, <1>3, CalmKeeps

\* Once every command, answer, notification and event has arrived, a screen
\* that holds a subscription shows what the scheduler publishes for it
\* (subscriptions.ts: apply; terminal.rs: the resource forwarder): neither the
\* order of revisions that apply keeps, nor a lag of the forwarder, nor an
\* answer that events overtook leaves an old value on the screen, as long as
\* the revisions do not wrap around.
THEOREM SettledCurrent ==
  FeedSpec /\ [](revision + 1 < RevisionModulus) => []SettledScreenIsCurrent
<1>1. FeedInit => ShownInv
  <2> SUFFICES ASSUME FeedInit PROVE ShownInv
    OBVIOUS
  <2>1. /\ screens = EmptyMap /\ replies = {} /\ notes = <<>> /\ lagged = FALSE
        /\ events = <<>>
    BY DEF FeedInit
  <2>2. DOMAIN screens = {} /\ Len(events) = 0 /\ notes \in Seq(SUBSET Owners)
    BY <2>1 DEF EmptyMap
  <2>3. \A o, u : ~SentTo(o, u)
    BY <2>1, <2>2 DEF SentTo
  <2> QED
    BY <2>1, <2>2, <2>3 DEF ShownInv, SentIsPast, Awaits
<1>2. FeedInv /\ ShownInv /\ NoWrap /\ [FeedNext]_allVars => ShownInv'
  BY ShownStep, ShownStutter
<1>3. FeedInv /\ ShownInv => SettledScreenIsCurrent
  <2> SUFFICES ASSUME FeedInv, ShownInv, NEW o \in Owners, Bound(o),
                      replies = {}, notes = <<>>, ~lagged, events = <<>>
               PROVE  /\ screens[o].latest.generation = latest[o].generation
                      /\ screens[o].latest.payload = latest[o].payload
                      /\ screens[o].latest.error = latest[o].error
    BY DEF SettledScreenIsCurrent
  <2>1. Awaits(o)
    BY DEF Awaits, Bound
  <2>2. PICK rev \in 0..revision : Settling(o, rev)
    BY <2>1 DEF ShownInv
  <2>3. Len(events) = 0 /\ Len(notes) = 0
    OBVIOUS
  <2>4. Reaches(o, screens[o].latest, rev)
    BY <2>2, <2>3 DEF Settling, Coming, Noted
  <2> QED
    BY <2>2, <2>4 DEF Settling, SameShown
<1>4. NoWrap <=> revision + 1 < RevisionModulus
  BY DEF NoWrap
<1> QED
  BY <1>1, <1>2, <1>3, <1>4, FeedInvariant, PTL DEF FeedSpec

-----------------------------------------------------------------------------
\* One step ends or changes no binding but by a command of its own owner.
EndsOnlyByOwn ==
  \A o \in DOMAIN latest :
    \/ BindingKept(o)
    \/ \E i \in 1..Len(calls) :
         calls' = CallsWithout(i) /\ EndsBinding(calls[i], o)

LEMMA CallEndsOwn ==
  ASSUME FeedInv, HandleCall
  PROVE  EndsOnlyByOwn
<1>1. PICK i \in 1..Len(calls) :
        \/ HandleSubscribe(i) \/ RefuseSubscribe(i)
        \/ HandleUnsubscribe(i) \/ LoseUnsubscribe(i)
  BY DEF HandleCall
<1>2. /\ calls[i] \in Call
      /\ IInv /\ PublishedIsCurrent /\ phase = "running"
  BY ElementOfSeq DEF FeedInv, FeedTypes
<1> SUFFICES ASSUME NEW o \in DOMAIN latest
             PROVE  BindingKept(o) \/ (calls' = CallsWithout(i) /\ EndsBinding(calls[i], o))
  BY DEF EndsOnlyByOwn
<1>3. CASE HandleSubscribe(i)
  <2>1. /\ calls[i].owner \in Owners /\ calls[i].request \in Requests
        /\ Subscribe(calls[i].owner, calls[i].request)
        /\ calls' = CallsWithout(i) /\ calls[i].kind = "subscribe"
    BY <1>2, <1>3 DEF HandleSubscribe, Call, SubscribeCall, GiveBack
  <2>2. CASE o = calls[i].owner
    BY <2>1, <2>2 DEF EndsBinding
  <2>3. CASE o # calls[i].owner
    BY <1>2, <2>1, <2>3, OtherSubscribes DEF BindingKept
  <2> QED
    BY <2>2, <2>3
<1>4. CASE HandleUnsubscribe(i)
  <2>1. /\ calls[i].owner \in Owners /\ calls[i].kind = "unsubscribe"
        /\ calls' = CallsWithout(i)
    BY <1>2, <1>4 DEF HandleUnsubscribe, Call, SubscribeCall, GiveBack
  <2>2. CASE calls[i].owner \in DOMAIN owners
             /\ owners[calls[i].owner].generation = calls[i].generation
    <3>1. Unsubscribe(calls[i].owner, calls[i].generation)
      BY <1>4, <2>2 DEF HandleUnsubscribe
    <3>2. CASE o = calls[i].owner
      <4>1. latest[o].generation = owners[o].generation
        BY <1>2, LatestReadsMaps
      <4> QED
        BY <2>1, <2>2, <3>2, <4>1 DEF EndsBinding
    <3>3. CASE o # calls[i].owner
      BY <1>2, <2>1, <3>1, <3>3, OtherUnsubscribes DEF BindingKept
    <3> QED
      BY <3>2, <3>3
  <2>3. CASE ~(calls[i].owner \in DOMAIN owners
               /\ owners[calls[i].owner].generation = calls[i].generation)
    BY <1>4, <2>3 DEF HandleUnsubscribe, schedulerIdle, vars, BindingKept
  <2> QED
    BY <2>2, <2>3
<1>5. CASE RefuseSubscribe(i) \/ LoseUnsubscribe(i)
  BY <1>5 DEF RefuseSubscribe, LoseUnsubscribe, schedulerIdle, vars, BindingKept
<1> QED
  BY <1>1, <1>3, <1>4, <1>5

LEMMA BindingsStep ==
  ASSUME FeedInv, FeedNext
  PROVE  EndsOnlyByOwn
<1>1. CASE latest' = latest
  BY <1>1 DEF EndsOnlyByOwn, BindingKept
<1>2. CASE HandleCall
  BY <1>2, CallEndsOwn
<1>3. ASSUME NEW t \in tasks, Complete(t) PROVE EndsOnlyByOwn
  <2>1. JoinNext(t) /\ IInv /\ PublishedIsCurrent
    BY <1>3 DEF Complete, FeedInv
  <2>2. CASE Accepts(t)
    BY <2>1, <2>2, AcceptedKeepsBindings DEF EndsOnlyByOwn, BindingKept
  <2>3. CASE ~Accepts(t)
    BY <1>1, <2>1, <2>3 DEF JoinNext
  <2> QED
    BY <2>2, <2>3
<1>4. CASE FetchStep
  BY <1>1, <1>4 DEF FetchStep, Tick, FinishFetch, DueElapses
<1>5. CASE schedulerIdle
  BY <1>1, <1>5 DEF schedulerIdle, vars
<1>6. ASSUME NEW o \in Owners,
             Unmount(o) \/ ReleaseTimer(o) \/ Refresh(o) \/ (\E r \in Requests : Mount(o, r))
      PROVE  schedulerIdle
  BY <1>6 DEF Mount, Unmount, ReleaseTimer, Refresh
<1>7. CASE Hide \/ Show \/ Deliver \/ Recover \/ Forward
  BY <1>5, <1>7 DEF Hide, Show, Deliver, Recover, Forward
<1>8. ASSUME NEW b \in begins, BeginReady(b) \/ ListenFails(b) PROVE schedulerIdle
  BY <1>8 DEF BeginReady, ListenFails
<1>9. ASSUME NEW reply \in replies, ReceiveReply(reply) PROVE schedulerIdle
  BY <1>9 DEF ReceiveReply
<1>10. conditions.screens \subseteq Owners
  BY DEF FeedInv, FeedTypes
<1> QED
  BY <1>2, <1>3, <1>4, <1>5, <1>6, <1>7, <1>8, <1>9, <1>10 DEF FeedNext

\* A published binding, with what was loaded for it, lasts until the scheduler
\* handles a subscription of its own owner or an unsubscribe that names just
\* its generation (subscriptions.rs: Command::Unsubscribe), in whatever order
\* the commands come.
THEOREM BindingsEnd == FeedSpec => BindingsEndByOwnCommand
<1>1. FeedInv /\ [FeedNext]_allVars => [EndsOnlyByOwn]_allVars
  BY BindingsStep
<1>2. BindingsEndByOwnCommand <=> [][EndsOnlyByOwn]_allVars
  BY DEF BindingsEndByOwnCommand, EndsOnlyByOwn
<1> QED
  BY <1>1, <1>2, FeedInvariant, PTL DEF FeedSpec
=============================================================================
