------------------------------ MODULE LiveFeed ------------------------------
(***************************************************************************)
(* How a screen stays fed: the subscription hook of the web view           *)
(* (frontend/src/subscriptions.ts), the desktop commands and the resource  *)
(* forwarder (frontend/src-tauri/src/terminal.rs), composed with the       *)
(* scheduler of module Subscriptions.                                      *)
(*                                                                         *)
(* The web view is single threaded: each of its actions is one turn of the *)
(* JavaScript loop.  An invoke is a call, handled later by the scheduler,  *)
(* whose reply arrives later still; events travel separately, in order.    *)
(* An epoch is represented by the number of the begin it belongs to, and   *)
(* by 0 after a suspend: the code only compares epochs for equality.       *)
(***************************************************************************)
EXTENDS Subscriptions, Sequences, SequencesExt

CONSTANTS
  NotesCapacity,  \* broadcast channel between scheduler and forwarder (64)
  CommandQueue,   \* capacity of the scheduler's command channel (4352)
  Conditions,     \* the conditions to consider, see the variable
  MaxBegins       \* bound: begins (mounts, resumptions, refreshes)

ASSUME FeedAssumption ==
  /\ NotesCapacity \in Nat \ {0} /\ CommandQueue \in Nat
  /\ Conditions \subseteq
       [screens : SUBSET Owners, reordering : BOOLEAN, lateTimers : BOOLEAN,
        begins : 0..MaxBegins, dueUntil : Nat, focus : BOOLEAN]
  /\ MaxBegins \in Nat
  /\ Owners # {}

VARIABLES
  conditions,\* constant in a behaviour: which screens there are, may commands
             \* be handled out of order, may other turns run before a due timer;
             \* bounds: how many begins, until which revision entries fall due
             \* again, does anybody focus the window
  screens,   \* owner -> entry of the hook's map
  visible,   \* document.visibilityState
  begun,     \* number of begins so far
  begins,    \* begins waiting for ensureListening
  calls,     \* invoked commands the scheduler has not handled yet
  replies,   \* command results on their way to the web view
  notes,     \* notifications the forwarder has not received yet
  lagged,    \* the forwarder fell behind and lost notifications
  events     \* terminal:resource events not yet delivered

feedVars == <<conditions, screens, visible, begun, begins, calls, replies, notes, lagged, events>>
allVars == <<vars, feedVars>>
schedulerIdle == UNCHANGED vars
steady == UNCHANGED conditions
-----------------------------------------------------------------------------
NothingShown == [generation |-> 0, revision |-> 0, payload |-> 0, error |-> 0]

Shown(update) == [generation |-> update.generation, revision |-> update.revision,
                  payload |-> update.payload, error |-> update.error]

NewScreen(r) == [request |-> r, mounted |-> TRUE, releasing |-> FALSE,
                 latest |-> NothingShown, epoch |-> 0, generation |-> 0,
                 failed |-> FALSE]

\* begin: a new epoch (failed is auxiliary: this begin ended in an error).
Begun(screen) == [screen EXCEPT !.epoch = begun + 1, !.failed = FALSE]

BeginOf(o, r) == [owner |-> o, request |-> r, epoch |-> begun + 1]

\* suspend: no begin is current any more and the generation is given up ...
Suspended(screen) == [screen EXCEPT !.epoch = 0, !.generation = 0]

UnsubscribeCall(o, version) ==
  [kind |-> "unsubscribe", owner |-> o, generation |-> version]

\* ... with an unsubscribe for it, if there was one.
SuspendCalls(o) ==
  IF screens[o].generation = 0 THEN <<>>
  ELSE <<UnsubscribeCall(o, screens[o].generation)>>

\* (mutant) the epoch of the begin is not compared
CurrentAnyEpoch(o, epoch) == o \in DOMAIN screens /\ screens[o].mounted

\* A begin or a reply is current if its epoch is, and somebody is mounted.
Current(o, epoch) ==
  o \in DOMAIN screens /\ screens[o].epoch = epoch /\ screens[o].mounted

\* apply: which updates a screen accepts.
Fresh(screen, update) ==
  /\ update.request = screen.request
  /\ screen.generation = 0 \/ update.generation >= screen.generation
  /\ \/ update.generation > screen.latest.generation
     \/ /\ update.generation = screen.latest.generation
        /\ update.revision >= screen.latest.revision

Applied(screen, update) ==
  IF Fresh(screen, update) THEN [screen EXCEPT !.latest = Shown(update)]
  ELSE screen

\* A map of updates applied to every screen it names.
AppliedAll(updates) ==
  [o \in DOMAIN screens |->
    IF o \in DOMAIN updates THEN Applied(screens[o], updates[o]) ELSE screens[o]]

\* A timer that is due runs before the next turn, unless timers may be late.
TimersRun == conditions.lateTimers \/ \A o \in DOMAIN screens : ~screens[o].releasing

-----------------------------------------------------------------------------
\* The effect of useSubscription: join the entry of the same key, or replace
\* the entry by a fresh one and begin.
Mount(o, r) ==
  /\ o \in DOMAIN screens => ~screens[o].mounted
  /\ IF o \in DOMAIN screens /\ screens[o].request = r
     THEN /\ screens' = [screens EXCEPT ![o].mounted = TRUE, ![o].releasing = FALSE]
          /\ UNCHANGED <<begun, begins, calls>>
     ELSE /\ begun < conditions.begins
          /\ begun' = begun + 1
          /\ screens' = Put(screens, o, Begun(NewScreen(r)))
          /\ begins' = begins \cup {BeginOf(o, r)}
          /\ calls' = IF o \in DOMAIN screens THEN calls \o SuspendCalls(o) ELSE calls
  /\ UNCHANGED <<visible, replies, notes, lagged, events>>
  /\ schedulerIdle

\* The effect's cleanup: the entry is released by a 0 ms timer.
Unmount(o) ==
  /\ o \in DOMAIN screens
  /\ screens[o].mounted
  /\ screens' = [screens EXCEPT ![o].mounted = FALSE, ![o].releasing = TRUE]
  /\ UNCHANGED <<visible, begun, begins, calls, replies, notes, lagged, events>>
  /\ schedulerIdle

ReleaseTimer(o) ==
  /\ o \in DOMAIN screens
  /\ screens[o].releasing
  /\ screens' = Drop(screens, o)
  /\ calls' = calls \o SuspendCalls(o)
  /\ UNCHANGED <<visible, begun, begins, replies, notes, lagged, events>>
  /\ schedulerIdle

\* refresh: begins again if there is no generation to recover with.
Refresh(o) ==
  /\ TimersRun
  /\ o \in DOMAIN screens
  /\ screens[o].mounted
  /\ screens[o].generation = 0
  /\ begun < conditions.begins
  /\ begun' = begun + 1
  /\ screens' = [screens EXCEPT ![o] = Begun(@)]
  /\ begins' = begins \cup {BeginOf(o, screens[o].request)}
  /\ UNCHANGED <<visible, calls, replies, notes, lagged, events>>
  /\ schedulerIdle

\* visibilitychange to hidden suspends every entry, also those being released.
Hide ==
  /\ TimersRun
  /\ visible
  /\ visible' = FALSE
  /\ screens' = [o \in DOMAIN screens |-> Suspended(screens[o])]
  /\ \E order \in SetToSeqs({o \in DOMAIN screens : screens[o].generation # 0}) :
       calls' = calls \o [i \in DOMAIN order |->
                           UnsubscribeCall(order[i], screens[order[i]].generation)]
  /\ UNCHANGED <<begun, begins, replies, notes, lagged, events>>
  /\ schedulerIdle

\* visibilitychange to visible begins every entry with a callback.
Show ==
  /\ TimersRun
  /\ ~visible
  /\ visible' = TRUE
  /\ begun < conditions.begins
  /\ begun' = begun + 1
  /\ screens' = [p \in DOMAIN screens |->
                  IF screens[p].mounted THEN Begun(screens[p]) ELSE screens[p]]
  /\ begins' = begins \cup
       {BeginOf(p, screens[p].request) : p \in {q \in DOMAIN screens : screens[q].mounted}}
  /\ UNCHANGED <<calls, replies, notes, lagged, events>>
  /\ schedulerIdle

\* begin, after ensureListening: invoke the subscription unless overtaken.
BeginReady(b) ==
  /\ TimersRun
  /\ begins' = begins \ {b}
  /\ calls' = IF Current(b.owner, b.epoch) /\ visible
              THEN Append(calls, [kind |-> "subscribe", owner |-> b.owner,
                                  request |-> b.request, epoch |-> b.epoch])
              ELSE calls
  /\ UNCHANGED <<screens, visible, begun, replies, notes, lagged, events>>
  /\ schedulerIdle

\* begin's catch: show the error and keep the payload, unless overtaken (ask is
\* the begin, or the reply to its command).
Failed(ask) ==
  IF ask.owner \in DOMAIN screens /\ screens[ask.owner].epoch = ask.epoch
  THEN LET screen == screens[ask.owner]
           shown == [screen.latest EXCEPT !.generation = screen.generation,
                                          !.revision = @ + 1, !.error = 1]
       IN [screens EXCEPT ![ask.owner] = [screen EXCEPT !.failed = TRUE, !.latest = shown]]
  ELSE screens

\* Once a begin has got through, the web view listens for good.
Listening ==
  \/ generation # 0
  \/ \E i \in 1..Len(calls) : calls[i].kind = "subscribe"
  \/ \E reply \in replies : reply.kind # "recovered"

\* begin, when ensureListening rejects: the next begin listens anew.
ListenFails(b) ==
  /\ TimersRun
  /\ ~Listening
  /\ begins' = begins \ {b}
  /\ screens' = Failed(b)
  /\ UNCHANGED <<visible, begun, calls, replies, notes, lagged, events>>
  /\ schedulerIdle

\* (mutant) the reply to an overtaken begin is dropped, not unsubscribed
SubscribedDropsStale(reply) ==
  LET o == reply.owner
      update == reply.updates[o]
  IN /\ reply.kind = "subscribed"
     /\ replies' = replies \ {reply}
     /\ screens' = IF Current(o, reply.epoch)
                   THEN [screens EXCEPT ![o] =
                          Applied([@ EXCEPT !.generation = update.generation], update)]
                   ELSE screens
     /\ UNCHANGED calls

\* begin, after the subscription: keep the generation, or give it back if
\* another begin or a suspend overtook this one.
Subscribed(reply) ==
  LET o == reply.owner
      update == reply.updates[o]
  IN /\ reply.kind = "subscribed"
     /\ replies' = replies \ {reply}
     /\ IF Current(o, reply.epoch)
        THEN /\ screens' = [screens EXCEPT ![o] =
                  Applied([@ EXCEPT !.generation = update.generation], update)]
             /\ UNCHANGED calls
        ELSE /\ calls' = Append(calls, UnsubscribeCall(o, update.generation))
             /\ UNCHANGED screens

\* begin, when the command failed.
SubscribeFailed(reply) ==
  /\ reply.kind = "refused"
  /\ replies' = replies \ {reply}
  /\ screens' = Failed(reply)
  /\ UNCHANGED calls

\* terminal_resource_recover returned (focus, or refresh): apply the map.
Recovered(reply) ==
  /\ reply.kind = "recovered"
  /\ replies' = replies \ {reply}
  /\ screens' = AppliedAll(reply.updates)
  /\ UNCHANGED calls

ReceiveReply(reply) ==
  /\ TimersRun
  /\ Subscribed(reply) \/ SubscribeFailed(reply) \/ Recovered(reply)
  /\ UNCHANGED <<visible, begun, begins, notes, lagged, events>>
  /\ schedulerIdle

\* A terminal:resource event reaches the listener.
Deliver ==
  /\ TimersRun
  /\ events # <<>>
  /\ screens' = AppliedAll(Head(events))
  /\ events' = Tail(events)
  /\ UNCHANGED <<visible, begun, begins, calls, replies, notes, lagged>>
  /\ schedulerIdle

-----------------------------------------------------------------------------
\* The broadcast channel drops the oldest notification when it is full.
Broadcast(changed) ==
  IF Len(notes) < NotesCapacity
  THEN notes' = Append(notes, changed) /\ UNCHANGED lagged
  ELSE notes' = Append(Tail(notes), changed) /\ lagged' = TRUE

\* The next command to handle: the oldest, or any if they may overtake.
Waiting(i) == i \in 1..Len(calls) /\ (conditions.reordering \/ i = 1)

CallsWithout(i) == SubSeq(calls, 1, i - 1) \o SubSeq(calls, i + 1, Len(calls))

\* terminal_subscribe.
HandleSubscribe(i) ==
  /\ Waiting(i)
  /\ calls[i].kind = "subscribe"
  /\ Subscribe(calls[i].owner, calls[i].request)
  /\ Broadcast({calls[i].owner})
  /\ calls' = CallsWithout(i)
  /\ replies' = replies \cup
       {[kind |-> "subscribed", owner |-> calls[i].owner, epoch |-> calls[i].epoch,
         updates |-> latest']}
  /\ UNCHANGED <<screens, visible, begun, begins, events>>

\* The command fails: no session, the queue or the capacity is full.
RefuseSubscribe(i) ==
  /\ Waiting(i)
  /\ calls[i].kind = "subscribe"
  /\ calls' = CallsWithout(i)
  /\ replies' = replies \cup
       {[kind |-> "refused", owner |-> calls[i].owner, epoch |-> calls[i].epoch,
         updates |-> EmptyMap]}
  /\ UNCHANGED <<screens, visible, begun, begins, notes, lagged, events>>
  /\ schedulerIdle

\* (mutant) whatever binding the owner has now is released
HandleUnsubscribeAnyGeneration(i) ==
  /\ Waiting(i)
  /\ calls[i].kind = "unsubscribe"
  /\ calls' = CallsWithout(i)
  /\ IF calls[i].owner \in DOMAIN owners
     THEN /\ Unsubscribe(calls[i].owner, owners[calls[i].owner].generation)
          /\ Broadcast({})
     ELSE schedulerIdle /\ UNCHANGED <<notes, lagged>>
  /\ UNCHANGED <<screens, visible, begun, begins, replies, events>>

\* terminal_unsubscribe: ignored by the scheduler if the generation is old.
HandleUnsubscribe(i) ==
  /\ Waiting(i)
  /\ calls[i].kind = "unsubscribe"
  /\ calls' = CallsWithout(i)
  /\ IF calls[i].owner \in DOMAIN owners
        /\ owners[calls[i].owner].generation = calls[i].generation
     THEN Unsubscribe(calls[i].owner, calls[i].generation) /\ Broadcast({})
     ELSE schedulerIdle /\ UNCHANGED <<notes, lagged>>
  /\ UNCHANGED <<screens, visible, begun, begins, replies, events>>

\* The web view ignores the error of an unsubscribe that found the queue full:
\* the subscription stays.
LoseUnsubscribe(i) ==
  /\ Waiting(i)
  /\ calls[i].kind = "unsubscribe"
  /\ Len(calls) > CommandQueue
  /\ calls' = CallsWithout(i)
  /\ UNCHANGED <<screens, visible, begun, begins, replies, notes, lagged, events>>
  /\ schedulerIdle

\* Focus, or refresh with a generation: ask for the published map; the handler
\* is there since the first begin.  (Bound: one such reply is on its way at a
\* time; it races with every other reply and event, and names nobody.)
Recover ==
  /\ conditions.focus
  /\ begun > 0
  /\ \A reply \in replies : reply.kind # "recovered"
  /\ replies' = replies \cup
       {[kind |-> "recovered", owner |-> CHOOSE o \in Owners : TRUE,
         epoch |-> 0, updates |-> latest]}
  /\ UNCHANGED <<screens, visible, begun, begins, calls, notes, lagged, events>>
  /\ schedulerIdle

\* (mutant) the forwarder goes on after a lag without recovering
ForwardIgnoresLag ==
  /\ notes # <<>>
  /\ LET changed == Head(notes) \cap DOMAIN latest
     IN events' = IF changed = {} THEN events
                  ELSE Append(events, [o \in changed |-> latest[o]])
  /\ notes' = Tail(notes)
  /\ lagged' = FALSE
  /\ UNCHANGED <<screens, visible, begun, begins, calls, replies>>
  /\ schedulerIdle

\* The resource forwarder: emit the updates of the owners a notification
\* names, or after a lag those of all owners, as they are published now.
Forward ==
  /\ lagged \/ notes # <<>>
  /\ LET changed == (IF lagged THEN Owners ELSE Head(notes)) \cap DOMAIN latest
     IN events' = IF changed = {} THEN events
                  ELSE Append(events, [o \in changed |-> latest[o]])
  /\ notes' = IF lagged THEN notes ELSE Tail(notes)
  /\ lagged' = FALSE
  /\ UNCHANGED <<screens, visible, begun, begins, calls, replies>>
  /\ schedulerIdle

\* (mutant) a completion is published but names no owner
CompleteUnnamed(t) ==
  /\ JoinNext(t)
  /\ IF Accepts(t) THEN Broadcast({}) ELSE UNCHANGED <<notes, lagged>>
  /\ UNCHANGED <<screens, visible, begun, begins, calls, replies, events>>

\* The scheduler's own steps: only an accepted completion notifies.
Complete(t) ==
  /\ JoinNext(t)
  /\ IF Accepts(t) THEN Broadcast(entries[t.request].owners)
     ELSE UNCHANGED <<notes, lagged>>
  /\ UNCHANGED <<screens, visible, begun, begins, calls, replies, events>>

FetchStep ==
  /\ \/ Tick
     \/ \E t \in tasks, outcome \in {"ok", "failed", "cancelled"} :
          FinishFetch(t, outcome)
     \/ revision < conditions.dueUntil /\ \E r \in Requests : DueElapses(r)
  /\ UNCHANGED feedVars

-----------------------------------------------------------------------------
FeedInit ==
  /\ Init
  /\ conditions \in Conditions
  /\ screens = EmptyMap
  /\ visible = TRUE
  /\ begun = 0
  /\ begins = {}
  /\ calls = <<>>
  /\ replies = {}
  /\ notes = <<>>
  /\ lagged = FALSE
  /\ events = <<>>

HandleCall ==
  \E i \in 1..Len(calls) :
    \/ HandleSubscribe(i) \/ RefuseSubscribe(i)
    \/ HandleUnsubscribe(i) \/ LoseUnsubscribe(i)

FeedNext ==
  /\ steady
  /\ \/ \E o \in conditions.screens, r \in Requests : Mount(o, r)
     \/ \E o \in Owners :
          Unmount(o) \/ ReleaseTimer(o) \/ Refresh(o)
     \/ Hide
     \/ Show
     \/ \E b \in begins : BeginReady(b) \/ ListenFails(b)
     \/ \E reply \in replies : ReceiveReply(reply)
     \/ Deliver
     \/ HandleCall
     \/ Recover
     \/ Forward
     \/ \E t \in tasks : Complete(t)
     \/ FetchStep

FeedSpec == FeedInit /\ [][FeedNext]_allVars

\* The answer to the command of begin e of owner o arrives.
AnswerArrives(o, e) ==
  \E reply \in replies : /\ reply.kind # "recovered"
                         /\ reply.owner = o /\ reply.epoch = e
                         /\ ReceiveReply(reply)

\* Everything in flight arrives, however often the window is focused, the
\* loops run and the fetches end; users need not do anything.
FeedFairness ==
  /\ \A o \in Owners : WF_allVars(steady /\ ReleaseTimer(o))
  /\ WF_allVars(steady /\ \E b \in begins : BeginReady(b))
  /\ \A o \in Owners, e \in 1..MaxBegins : WF_allVars(steady /\ AnswerArrives(o, e))
  /\ WF_allVars(steady /\ HandleCall)
  /\ WF_allVars(steady /\ Deliver)
  /\ WF_allVars(steady /\ Forward)
  /\ WF_allVars(steady /\ \E t \in tasks : Complete(t))
  /\ WF_allVars(Tick /\ UNCHANGED feedVars)
  /\ WF_allVars(UNCHANGED feedVars /\ \E t \in tasks,
       outcome \in {"ok", "failed", "cancelled"} : FinishFetch(t, outcome))

FairFeedSpec == FeedSpec /\ FeedFairness

-----------------------------------------------------------------------------
\* Nothing about o is on its way between the web view and the scheduler.
Quiet(o) ==
  /\ \A b \in begins : b.owner # o
  /\ \A i \in 1..Len(calls) : calls[i].owner # o
  /\ \A reply \in replies : reply.kind # "recovered" => reply.owner # o

Wanted(o) ==
  o \in DOMAIN screens /\ screens[o].mounted /\ visible /\ ~screens[o].failed

Bound(o) ==
  /\ o \in DOMAIN screens \cap DOMAIN owners
  /\ screens[o].generation = owners[o].generation
  /\ screens[o].request = owners[o].request

\* Once all commands have settled the scheduler holds no subscription that no
\* screen knows of: an overtaken subscription is always given back, so hidden
\* and closed screens do not keep resources refreshing.  (Not so if the queue
\* was full when it was given back: the runs of this property leave room.)
NoOrphanSubscription ==
  \A o \in Owners : Quiet(o) /\ o \in DOMAIN owners => Bound(o)

\* Once all commands have settled, a mounted and visible screen that shows no
\* command error is subscribed.  This holds when commands are handled in
\* order and a due timer runs first; each of the two races breaks it.
WantedIsBound ==
  \A o \in Owners : Quiet(o) /\ Wanted(o) => Bound(o)

\* When nothing at all is in flight, a subscribed screen shows what the
\* scheduler publishes for it: no filter, lag or reordering of replies and
\* events leaves an old value on the screen.
SettledScreenIsCurrent ==
  \A o \in Owners :
    (Quiet(o) /\ Bound(o) /\ replies = {} /\ notes = <<>> /\ ~lagged /\ events = <<>>) =>
      /\ screens[o].latest.generation = latest[o].generation
      /\ screens[o].latest.payload = latest[o].payload
      /\ screens[o].latest.error = latest[o].error

\* What o is bound to goes on from one state to the next.
BindingKept(o) ==
  /\ o \in DOMAIN latest'
  /\ latest'[o].generation = latest[o].generation
  /\ latest'[o].request = latest[o].request
  /\ latest[o].payload # 0 => latest'[o].payload # 0

\* A command that may end the binding of o: a new subscription of o, or o
\* giving up just this generation.
EndsBinding(call, o) ==
  /\ call.owner = o
  /\ \/ call.kind = "subscribe"
     \/ call.kind = "unsubscribe" /\ call.generation = latest[o].generation

\* No subscription is taken away from a screen that did not give it up: a
\* published binding, and what was loaded for it, lasts until the scheduler
\* handles a command of the same owner, and an unsubscribe that is handled
\* after the owner subscribed again is not such a command.  Neither another
\* owner that joins or leaves the resource nor a fetch or an error ends it.
BindingsEndByOwnCommand ==
  [][\A o \in DOMAIN latest :
       \/ BindingKept(o)
       \/ \E i \in 1..Len(calls) :
            calls' = CallsWithout(i) /\ EndsBinding(calls[i], o)]_allVars

\* A mounted, visible screen is eventually fed: its begin is not lost between
\* the listener, the command, the reply and the forwarder, and it does not
\* show "loading" for ever.
ScreenIsFed ==
  \A o \in Owners :
    Wanted(o) ~> (~Wanted(o) \/ ~Loading(screens[o].latest))
=============================================================================
