---------------------------- MODULE MarketServer ----------------------------
(* The Rust server over the market service: requests of HTTP clients pass    *)
(* the key cache of the authenticator (terminal-server/src/auth.rs), share   *)
(* an entry of the bounded cache (terminal-engine/src/market.rs), and load   *)
(* it through the direct providers, which share upstream slots, cooldowns    *)
(* and one public Yahoo session (terminal-providers/src/native).             *)
(* Every lock and semaphore is tokio's: first come, first served.  A mutex   *)
(* is the sequence of those that asked for it, its holder at the head.       *)
EXTENDS Naturals, FiniteSets, Sequences, SequencesExt, Functions

CONSTANTS
    Clients,        \* requests under way at the same time
    Requests,       \* resources that are asked for
    Kind,           \* what each of them is: one of the arms of Stages
    Setups,         \* sets of requests with the limits they meet, see setup
    MaxEntries,     \* no setup has room for more entries
    None

ASSUME ServerAssumption ==
    /\ IsFiniteSet(Clients) /\ IsFiniteSet(Requests)
    /\ MaxEntries \in Nat /\ None \notin Nat
    /\ \A s \in Setups : s.requests \subseteq Requests /\ s.entries \in 0..MaxEntries

VARIABLES
    setup,      \* never changes: the requests that are asked for, whether a
                \* token is required, and the limits: entries (256), bytes (16 MiB,
                \* in entries that have data), flights (64), upstream (4)
    calls,      \* per client: [phase, of, slot, stage, failed, denied, retried, first]
    entries,    \* entries: the slot of a cached request
    used,       \* pairs of cached requests: the first was used before the second
    slots,      \* per slot: [queue, data, fresh]
    upstream,   \* [line, sent]: who waits for or has an upstream slot
    cooldown,   \* the hosts whose rate limit is reached
    session,    \* [queue, crumb]: the Yahoo session
    keys        \* [queue, fresh, tried]: the signing keys

vars == <<setup, calls, entries, used, slots, upstream, cooldown, session, keys>>

SlotIds == 1..(MaxEntries + Cardinality(Clients))

(* The upstream requests of a load: stages one after the other, the hosts of *)
(* a stage at the same time.                                                 *)
Quote == <<{"yahoo"}>>
Coin == <<{"gecko"}>>
History == <<{"yahoo"}>>
Search == <<{"yahoo", "gecko"}>>
Crypto == <<{"gecko"}, {"gecko"}>>
Macro == <<{"yahoo", "fred", "bnm"}>>
Calendar == <<{"faireconomy"}, {"fred"}>>

(* Options and a chain, which is the options of one expiry, need the Yahoo   *)
(* session first: its cookie, its crumb, then a page.                        *)
Options == <<{"fc"}, {"yahoo"}, {"yahoo"}>>

Stages(r) ==
    CASE Kind[r] = "quote" -> Quote
      [] Kind[r] = "coin" -> Coin
      [] Kind[r] = "history" -> History
      [] Kind[r] = "search" -> Search
      [] Kind[r] = "crypto" -> Crypto
      [] Kind[r] = "macro" -> Macro
      [] Kind[r] = "calendar" -> Calendar
      [] Kind[r] \in {"options", "chain"} -> Options

Hosts == UNION {UNION Range(Stages(r)) : r \in Requests}

Authenticated(r) == Kind[r] \in {"options", "chain"}

(* What a load does without: one of the hosts of a search or of the macro    *)
(* snapshot, and the official outcomes of calendar events.                   *)
Survives(r, stage, failed) ==
    CASE Kind[r] \in {"search", "macro"} -> failed # Stages(r)[1]
      [] Kind[r] = "calendar" -> stage = 2 \/ failed = {}
      [] OTHER -> failed = {}

Cookie == 1
Page == 3

Away == [phase |-> "idle", of |-> None, slot |-> None, stage |-> 0,
         failed |-> {}, denied |-> FALSE, retried |-> FALSE, first |-> FALSE]

Unused == [queue |-> <<>>, data |-> FALSE, fresh |-> FALSE]

NoKeys == [queue |-> <<>>, fresh |-> FALSE, tried |-> FALSE]

NoSession == [queue |-> <<>>, crumb |-> FALSE]

Init ==
    /\ setup \in Setups
    /\ calls = [c \in Clients |-> Away]
    /\ entries = [r \in Requests |-> None] /\ used = {}
    /\ slots = [s \in SlotIds |-> Unused]
    /\ upstream = [line |-> <<>>, sent |-> {}] /\ cooldown = {}
    /\ session = NoSession /\ keys = NoKeys

Holds(queue, c) == queue # <<>> /\ Head(queue) = c

(* Nobody is in a queue twice.                                               *)
Without(queue, c) ==
    IF \E i \in DOMAIN queue : queue[i] = c
    THEN RemoveAt(queue, CHOOSE i \in DOMAIN queue : queue[i] = c) ELSE queue

InPhase(c, p) == calls[c].phase = p

(* An Arc of the entry is held beside the cache's own.                       *)
InUse(s) == \E c \in Clients : calls[c].slot = s

-----------------------------------------------------------------------------
(* A request of a client, and the keys that verify its token.                *)
Ask(c, r) ==
    /\ InPhase(c, "idle") /\ r \in setup.requests
    /\ \/ /\ setup.required
          /\ calls' = [calls EXCEPT ![c] = [Away EXCEPT !.phase = "keys", !.of = r]]
          /\ keys' = [keys EXCEPT !.queue = Append(@, c)]
       \/ /\ ~setup.required
          /\ calls' = [calls EXCEPT ![c] = [Away EXCEPT !.phase = "lookup", !.of = r]]
          /\ UNCHANGED keys
    /\ UNCHANGED <<setup, entries, used, slots, upstream, cooldown, session>>

Verified(c) ==
    \/ calls' = [calls EXCEPT ![c].phase = "lookup"]
    \/ calls' = [calls EXCEPT ![c] = Away]

(* The lock is kept while the keys are fetched, at most every five seconds.  *)
Authenticate(c) ==
    /\ InPhase(c, "keys") /\ Holds(keys.queue, c)
    /\ \/ keys.fresh /\ Verified(c) /\ keys' = [keys EXCEPT !.queue = Tail(@)]
       \/ /\ keys.tried
          /\ calls' = [calls EXCEPT ![c] = Away]
          /\ keys' = [keys EXCEPT !.queue = Tail(@)]
       \/ /\ ~keys.tried
          /\ calls' = [calls EXCEPT ![c].phase = "fetching"]
          /\ keys' = [keys EXCEPT !.tried = TRUE]
    /\ UNCHANGED <<setup, entries, used, slots, upstream, cooldown, session>>

FetchKeys(c) ==
    /\ InPhase(c, "fetching")
    /\ \/ /\ Verified(c)
          /\ keys' = [keys EXCEPT !.queue = Tail(@), !.fresh = TRUE]
       \/ /\ calls' = [calls EXCEPT ![c] = Away]
          /\ keys' = [keys EXCEPT !.queue = Tail(@)]
    /\ UNCHANGED <<setup, entries, used, slots, upstream, cooldown, session>>

-----------------------------------------------------------------------------
(* execute_validated: the entry.  With its last Arc a removed slot is gone.  *)
Removed(R) == [s \in SlotIds |-> IF (\E r \in R : entries[r] = s) /\ ~InUse(s)
                                 THEN Unused ELSE slots[s]]

Cached == {r \in Requests : entries[r] # None}

Idle == {r \in Cached : ~InUse(entries[r])}

HasRoom(r) == r \in Cached \/ Cardinality(Cached) < setup.entries

Oldest(R) == {r \in R : \A q \in R \ {r} : <<r, q>> \in used}

(* (mutant) The oldest entry makes room, whoever holds it.                   *)
EvictableInUse(r) == IF HasRoom(r) THEN {} ELSE Oldest(Cached)

(* The idle entry that goes when r needs room, if there is one.              *)
Evictable(r) == IF HasRoom(r) THEN {} ELSE Oldest(Idle)

Free == CHOOSE s \in SlotIds : s \notin Range(entries) /\ ~InUse(s)

Lookup(c) ==
    LET r == calls[c].of
        out == Evictable(r)
        others == Cached \ (out \cup {r})
        s == IF r \in Cached THEN entries[r] ELSE Free
    IN  /\ InPhase(c, "lookup")
        /\ HasRoom(r) \/ out # {}
        /\ entries' = [q \in Requests |-> IF q = r THEN s
                                         ELSE IF q \in out THEN None ELSE entries[q]]
        /\ used' = (used \cap (others \X others)) \cup (others \X {r})
        /\ slots' = [Removed(out) EXCEPT ![s].queue = Append(@, c)]
        /\ calls' = [calls EXCEPT ![c].phase = "locking", ![c].slot = s]
        /\ UNCHANGED <<setup, upstream, cooldown, session, keys>>

(* QueueFull: every entry is in use.                                         *)
NoEntry(c) ==
    /\ InPhase(c, "lookup")
    /\ ~HasRoom(calls[c].of) /\ Evictable(calls[c].of) = {}
    /\ calls' = [calls EXCEPT ![c] = Away]
    /\ UNCHANGED <<setup, entries, used, slots, upstream, cooldown, session, keys>>

InFlight == {c \in Clients : calls[c].phase \in {"loading", "trimming"}}

Owns(c) == InPhase(c, "locking") /\ Holds(slots[calls[c].slot].queue, c)

(* What is cached is returned, and a call too many is refused.               *)
Answered(c) ==
    /\ Owns(c)
    /\ slots[calls[c].slot].fresh \/ Cardinality(InFlight) >= setup.flights
    /\ slots' = [slots EXCEPT ![calls[c].slot].queue = Tail(@)]
    /\ calls' = [calls EXCEPT ![c] = Away]
    /\ UNCHANGED <<setup, entries, used, upstream, cooldown, session, keys>>

(* The upstream requests of a stage are made; the session is asked for first.*)
Enters(c, stage) ==
    \E asked \in SetToSeqs({<<c, h>> : h \in Stages(calls[c].of)[stage]}) :
        upstream' = [upstream EXCEPT !.line = @ \o asked]

Load(c) ==
    /\ Owns(c)
    /\ ~slots[calls[c].slot].fresh /\ Cardinality(InFlight) < setup.flights
    /\ IF Authenticated(calls[c].of)
       THEN /\ calls' = [calls EXCEPT ![c].phase = "loading",
                                      ![c].first = Kind[calls[c].of] = "chain"]
            /\ session' = [session EXCEPT !.queue = Append(@, c)]
            /\ UNCHANGED upstream
       ELSE /\ calls' = [calls EXCEPT ![c].phase = "loading", ![c].stage = 1]
            /\ Enters(c, 1)
            /\ UNCHANGED session
    /\ UNCHANGED <<setup, entries, used, slots, cooldown, keys>>

-----------------------------------------------------------------------------
(* request_status: a slot, the cooldown of the host, and the request.  The   *)
(* slot is kept until the body has been read.                                *)
HasSlot(f) ==
    \E i \in DOMAIN upstream.line : i <= setup.upstream /\ upstream.line[i] = f

Fetched(f, ok) ==
    /\ upstream' = [line |-> Without(upstream.line, f), sent |-> upstream.sent \ {f}]
    /\ calls' = [calls EXCEPT ![f[1]].failed = IF ok THEN @ ELSE @ \cup {f[2]}]

Send(f) ==
    /\ HasSlot(f) /\ f \notin upstream.sent
    /\ \/ /\ f[2] \notin cooldown
          /\ upstream' = [upstream EXCEPT !.sent = @ \cup {f}]
          /\ UNCHANGED calls
       \/ f[2] \in cooldown /\ Fetched(f, FALSE)
    /\ UNCHANGED <<setup, entries, used, slots, cooldown, session, keys>>

(* An answer, an error, a rate limit, or a page refused for its crumb.       *)
Respond(f) ==
    /\ f \in upstream.sent
    /\ \/ \E ok \in BOOLEAN : Fetched(f, ok) /\ UNCHANGED cooldown
       \/ Fetched(f, FALSE) /\ cooldown' = cooldown \cup {f[2]}
       \/ /\ Authenticated(calls[f[1]].of) /\ calls[f[1]].stage = Page
          /\ upstream' = [line |-> Without(upstream.line, f), sent |-> upstream.sent \ {f}]
          /\ calls' = [calls EXCEPT ![f[1]].failed = {f[2]}, ![f[1]].denied = TRUE]
          /\ UNCHANGED cooldown
    /\ UNCHANGED <<setup, entries, used, slots, session, keys>>

Fetching(c) == \E i \in DOMAIN upstream.line : upstream.line[i][1] = c

(* The requests of a stage are through.                                      *)
StageEnds(c) == InPhase(c, "loading") /\ calls[c].stage > 0 /\ ~Fetching(c)

StageSurvives(c) == Survives(calls[c].of, calls[c].stage, calls[c].failed)

Stage(c, next) == calls' = [calls EXCEPT ![c].stage = next]

(* (mutant) The cookie's slot is kept until the crumb has come.              *)
NextStageKeepsSlot(c) ==
    /\ StageEnds(c) /\ StageSurvives(c) /\ calls[c].stage < Len(Stages(calls[c].of))
    /\ Stage(c, calls[c].stage + 1)
    /\ IF Authenticated(calls[c].of) /\ calls[c].stage = Cookie
       THEN upstream' = [upstream EXCEPT !.line =
                            <<<<c, "cookie_slot">>>> \o @ \o <<<<c, "yahoo">>>>]
       ELSE Enters(c, calls[c].stage + 1)
    /\ session' = IF Holds(session.queue, c) /\ calls[c].stage = Page - 1
                  THEN [queue |-> Tail(session.queue), crumb |-> TRUE] ELSE session
    /\ UNCHANGED <<setup, entries, used, slots, cooldown, keys>>

(* The next stage; with the crumb the session is known and its lock free.    *)
NextStage(c) ==
    /\ StageEnds(c) /\ StageSurvives(c) /\ calls[c].stage < Len(Stages(calls[c].of))
    /\ Stage(c, calls[c].stage + 1)
    /\ Enters(c, calls[c].stage + 1)
    /\ session' = IF Holds(session.queue, c) /\ calls[c].stage = Page - 1
                  THEN [queue |-> Tail(session.queue), crumb |-> TRUE] ELSE session
    /\ UNCHANGED <<setup, entries, used, slots, cooldown, keys>>

(* yahoo_authenticated: the lock of the session, and its crumb or a new one. *)
UseSession(c) ==
    /\ InPhase(c, "loading") /\ calls[c].stage = 0 /\ ~calls[c].denied
    /\ Holds(session.queue, c)
    /\ \/ /\ session.crumb
          /\ session' = [session EXCEPT !.queue = Tail(@)]
          /\ Stage(c, Page) /\ Enters(c, Page)
       \/ ~session.crumb /\ Stage(c, Cookie) /\ Enters(c, Cookie) /\ UNCHANGED session
    /\ UNCHANGED <<setup, entries, used, slots, cooldown, keys>>

(* The page was refused for its crumb: the lock is asked for, once per page, *)
(* the session dropped even if somebody has renewed it since, and the lock   *)
(* asked for again.                                                          *)
Unauthorised(c) ==
    /\ StageEnds(c) /\ calls[c].denied /\ ~calls[c].retried
    /\ session' = [session EXCEPT !.queue = Append(@, c)]
    /\ calls' = [calls EXCEPT ![c].stage = 0, ![c].failed = {}, ![c].retried = TRUE]
    /\ UNCHANGED <<setup, entries, used, slots, upstream, cooldown, keys>>

DropSession(c) ==
    /\ InPhase(c, "loading") /\ calls[c].stage = 0 /\ calls[c].denied
    /\ Holds(session.queue, c)
    /\ session' = [queue |-> Append(Tail(session.queue), c), crumb |-> FALSE]
    /\ calls' = [calls EXCEPT ![c].denied = FALSE]
    /\ UNCHANGED <<setup, entries, used, slots, upstream, cooldown, keys>>

(* The first page of a chain lists the expiry: its own page, by the session. *)
SecondPage(c) ==
    /\ StageEnds(c) /\ StageSurvives(c) /\ calls[c].stage = Page /\ calls[c].first
    /\ session' = [session EXCEPT !.queue = Append(@, c)]
    /\ calls' = [calls EXCEPT ![c].stage = 0, ![c].retried = FALSE, ![c].first = FALSE]
    /\ UNCHANGED <<setup, entries, used, slots, upstream, cooldown, keys>>

(* The load ends: its value is cached, or a failure over what was there if   *)
(* the last success is less than an hour old.                                *)
Outcomes(c) ==
    IF StageSurvives(c) THEN BOOLEAN ELSE {FALSE, slots[calls[c].slot].data}

Loaded(c) ==
    LET s == calls[c].slot
    IN  /\ StageEnds(c)
        /\ \/ calls[c].stage = Len(Stages(calls[c].of)) \/ Kind[calls[c].of] = "calendar"
           \/ ~StageSurvives(c)
        /\ calls[c].denied => calls[c].retried
        /\ \E data \in Outcomes(c) : slots' = [slots EXCEPT
              ![s] = [queue |-> Tail(slots[s].queue), data |-> data, fresh |-> TRUE]]
        /\ session' = [session EXCEPT !.queue = Without(@, c)]
        /\ calls' = [calls EXCEPT ![c] = [Away EXCEPT !.phase = "trimming", !.slot = s]]
        /\ UNCHANGED <<setup, entries, used, upstream, cooldown, keys>>

(* trim: idle entries go, the oldest first, while there are too many bytes   *)
(* in the entries that nobody has locked.                                    *)
Bytes(R) == Cardinality({r \in R : slots[entries[r]].data})

Trim(c) ==
    LET unlocked == {r \in Cached : slots[entries[r]].queue = <<>>}
        Before(r) == {q \in Idle : <<q, r>> \in used}
        out == {r \in Idle : Bytes(unlocked \ Before(r)) > setup.bytes}
    IN  /\ InPhase(c, "trimming")
        /\ entries' = [r \in Requests |-> IF r \in out THEN None ELSE entries[r]]
        /\ used' = used \cap ((Cached \ out) \X (Cached \ out))
        /\ slots' = Removed(out)
        /\ calls' = [calls EXCEPT ![c] = Away]
        /\ UNCHANGED <<setup, upstream, cooldown, session, keys>>

-----------------------------------------------------------------------------
(* A call is dropped wherever it is: its deadline, or a client that leaves.  *)
Dropped(c) ==
    LET left == SelectSeq(upstream.line, LAMBDA f : f[1] # c)
    IN  /\ ~InPhase(c, "idle")
        /\ calls' = [calls EXCEPT ![c] = Away]
        /\ slots' = [s \in SlotIds |-> [slots[s] EXCEPT !.queue = Without(@, c)]]
        /\ upstream' = [line |-> left, sent |-> upstream.sent \cap Range(left)]
        /\ session' = [session EXCEPT !.queue = Without(@, c)]
        /\ keys' = [keys EXCEPT !.queue = Without(@, c)]
        /\ UNCHANGED <<setup, entries, used, cooldown>>

(* Every request is answered that the server stops, which it does; the next  *)
(* server begins empty.                                                      *)
Shutdown ==
    /\ calls' = [c \in Clients |-> Away]
    /\ entries' = [r \in Requests |-> None] /\ used' = {}
    /\ slots' = [s \in SlotIds |-> Unused]
    /\ upstream' = [line |-> <<>>, sent |-> {}] /\ cooldown' = {}
    /\ session' = NoSession /\ keys' = NoKeys
    /\ UNCHANGED setup

Elapses ==
    /\ \/ \E s \in SlotIds : /\ slots[s].fresh
                             /\ slots' = [slots EXCEPT ![s].fresh = FALSE]
                             /\ UNCHANGED <<cooldown, keys>>
       \/ \E h \in cooldown : cooldown' = cooldown \ {h} /\ UNCHANGED <<slots, keys>>
       \/ keys.fresh /\ keys' = [keys EXCEPT !.fresh = FALSE] /\ UNCHANGED <<slots, cooldown>>
       \/ keys.tried /\ keys' = [keys EXCEPT !.tried = FALSE] /\ UNCHANGED <<slots, cooldown>>
    /\ UNCHANGED <<setup, calls, entries, used, upstream, session>>

Progress(c) ==
    \/ Authenticate(c) \/ FetchKeys(c) \/ Lookup(c) \/ NoEntry(c) \/ Answered(c)
    \/ Load(c) \/ UseSession(c) \/ NextStage(c) \/ Unauthorised(c) \/ DropSession(c)
    \/ SecondPage(c) \/ Loaded(c)
    \/ Trim(c)
    \/ \E h \in Hosts : Send(<<c, h>>) \/ Respond(<<c, h>>)

Next ==
    \/ \E c \in Clients : (\E r \in Requests : Ask(c, r)) \/ Progress(c) \/ Dropped(c)
    \/ Shutdown \/ Elapses

Spec == Init /\ [][Next]_vars /\ \A c \in Clients : WF_vars(Progress(c))

-----------------------------------------------------------------------------
(* A resource is loaded by one call at a time, and the cache keeps within    *)
(* its entries: no entry goes while a call waits for it or fills it.         *)
SharedFlights ==
    /\ Cardinality(Cached) <= setup.entries
    /\ \A c, d \in Clients : c # d =>
          ~(InPhase(c, "loading") /\ InPhase(d, "loading") /\ calls[c].of = calls[d].of)

(* Every request ends by itself: nobody waits for a lock, a session or a slot*)
(* whose holder waits for him, though no deadline ever passes.               *)
RequestsEnd == \A c \in Clients : ~InPhase(c, "idle") ~> InPhase(c, "idle")
=============================================================================
