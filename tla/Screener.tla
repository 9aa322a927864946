------------------------------ MODULE Screener ------------------------------
(* Equity screens of the desktop (terminal-providers: lib.rs, equities.rs,   *)
(* screening.rs).  A snapshot of a market is assembled from the pages of an  *)
(* upstream that changes meanwhile and whose gateway caches each page by     *)
(* itself, so a page may be of any source there has been.  Snapshots are     *)
(* cached behind one mutex, which a load keeps; a screen is a page of a      *)
(* snapshot, filtered and ranked.                                            *)
EXTENDS Naturals, FiniteSets, Sequences, SequencesExt, FiniteSetsExt, Functions

CONSTANTS
    Readers,        \* screens under way at the same time
    Queries,        \* [market, min, descending, offset]: what they ask for
    Sources,        \* [market, feed, id, rest, rows]: what the upstream may have
    Instruments,    \* natural numbers, in the order of their ids
    Volume,         \* per instrument, None when the provider has none
    Unreadable,     \* quotes without an identity or with a malformed price
    Foreign,        \* quotes that are not in ringgit, or not of Bursa
    PageSize,       \* 250 in the code
    MaxRows,        \* MAX_EQUITIES
    Concurrency,    \* 4
    ScreenSize,     \* 100
    None

Markets == {s.market : s \in Sources}

(* An id names the download of a listing (Nasdaq), so there is one listing   *)
(* under a name.  An id that names less, such as Yahoo's of the totals of    *)
(* the exchanges, is no id: it is the rest of the provenance, with the date  *)
(* and the counts of what is omitted and reported.                           *)
ASSUME ScreenAssumption ==
    /\ Instruments \subseteq Nat /\ None \notin Nat
    /\ Volume \in [Instruments -> Nat \cup {None}]
    /\ {PageSize, Concurrency, ScreenSize} \subseteq Nat \ {0}
    /\ \A s \in Sources : s.rows \in Seq(Instruments)
    /\ \A s, t \in Sources :
          s.market = t.market /\ s.feed = t.feed /\ s.id = t.id /\ s.id # None => s.rows = t.rows
    /\ Queries \subseteq [market : Markets, min : Nat \cup {None}, descending : BOOLEAN, offset : Nat]

VARIABLES
    queue,      \* who holds the mutex, at the head, and who waits
    reads,      \* per reader: [phase, of]
    snapshots,  \* per market: [rows, source], None when a load is due
    load        \* [total, source, pages, flying]: the load of the holder

screenVars == <<queue, reads, snapshots, load>>

NoLoad == [total |-> 0, source |-> None, pages |-> <<>>, flying |-> {}]

Quiet == [phase |-> "idle", of |-> None]

ScreenInit ==
    /\ queue = <<>>
    /\ reads = [c \in Readers |-> Quiet]
    /\ snapshots = [m \in Markets |-> None]
    /\ load = NoLoad

-----------------------------------------------------------------------------
(* What the upstream answers: a page of a source, or one that lost a row.    *)

Listed(s, offset) == SubSeq(s.rows, offset + 1, Min({offset + PageSize, Len(s.rows)}))

Page(s, offset, quotes) == [total |-> Len(s.rows), offset |-> offset, quotes |-> quotes,
                            source |-> [feed |-> s.feed, id |-> s.id, rest |-> s.rest]]

Pages(m, offset) ==
    LET Whole == {Page(s, offset, Listed(s, offset)) : s \in {t \in Sources : t.market = m}}
    IN Whole \cup {[p EXCEPT !.quotes = Tail(@)] : p \in {q \in Whole : q.quotes # <<>>}}

(* (mutant) Pages of any source are put together.                            *)
AnySource(page, source) == TRUE

(* The provenance of every page is the first one's.                          *)
SameSource(page, source) == page.source = source

(* append_page: a page that is full, readable and repeats nothing.           *)
Appends(rows, page, total) ==
    /\ total <= MaxRows /\ page.offset <= total /\ page.total = total
    /\ Len(page.quotes) = Min({PageSize, total - page.offset})
    /\ Range(page.quotes) \cap Unreadable = {}
    /\ IsInjective(rows \o page.quotes)

(* The pages in the order of their offsets.                                  *)
Assembled(pages) == FlattenSeq([i \in 1..Cardinality(pages) |->
    (CHOOSE p \in pages : p.offset = (i - 1) * PageSize).quotes])

(* Each page is appended to those before it, and Malaysia has only its own.  *)
Accepted(m, pages, total) ==
    /\ \A p \in pages : Appends(Assembled({q \in pages : q.offset < p.offset}), p, total)
    /\ m = "MY" => Range(Assembled(pages)) \cap Foreign = {}

-----------------------------------------------------------------------------
(* screening::page: the rows of a screen.                                    *)

Ranked(a, b, descending) ==
    LET x == Volume[a]
        y == Volume[b]
    IN IF x = y THEN a < b
       ELSE IF x = None THEN FALSE
       ELSE IF y = None THEN TRUE
       ELSE IF descending THEN x > y ELSE x < y

Selected(rows, q) ==
    {r \in Range(rows) : q.min = None \/ (IF Volume[r] = None THEN FALSE ELSE Volume[r] >= q.min)}

(* What is selected in its order: each after those ranked before it.         *)
Order(selected, descending) ==
    LET Before(r) == {s \in selected : Ranked(s, r, descending)}
    IN  [i \in 1..Cardinality(selected) |->
            CHOOSE r \in selected : Cardinality(Before(r)) = i - 1]

Screen(rows, q) ==
    LET order == Order(Selected(rows, q), q.descending)
        start == Min({q.offset, Len(order)})
    IN SubSeq(order, start + 1, Min({start + ScreenSize, Len(order)}))

-----------------------------------------------------------------------------
Holder(c) == queue # <<>> /\ Head(queue) = c

(* A reader is answered with Screen(rows, of), or that there is no data.     *)
Answer(c) == reads' = [reads EXCEPT ![c] = Quiet] /\ queue' = Tail(queue)

Read(c, q) ==
    /\ reads[c].phase = "idle"
    /\ reads' = [reads EXCEPT ![c] = [phase |-> "locking", of |-> q]]
    /\ queue' = Append(queue, c)
    /\ UNCHANGED <<snapshots, load>>

(* screener_snapshot: what is cached and not due, or a load.                 *)
Look(c) ==
    /\ reads[c].phase = "locking" /\ Holder(c)
    /\ IF snapshots[reads[c].of.market] # None THEN Answer(c)
       ELSE reads' = [reads EXCEPT ![c].phase = "loading"] /\ UNCHANGED queue
    /\ UNCHANGED <<snapshots, load>>

(* The load ends and is cached, a failure for as long as it says.            *)
Cache(c, rows, source) ==
    /\ snapshots' = [snapshots EXCEPT ![reads[c].of.market] = [rows |-> rows, source |-> source]]
    /\ Answer(c)
    /\ load' = NoLoad

Unavailable(c) == Cache(c, None, None)

Loading(c) == reads[c].phase = "loading"

(* The requests that may be in flight beside those answered.                 *)
Launched(total, answered) ==
    {o \in {k * PageSize : k \in 1..total} : o < total /\ o < (answered + Concurrency) * PageSize}

(* The first page says how many there are and where they are from.           *)
FirstPage(c) ==
    /\ Loading(c) /\ load.pages = <<>>
    /\ \E p \in Pages(reads[c].of.market, 0) :
           IF p.total = 0 \/ ~Appends(<<>>, p, p.total) THEN Unavailable(c)
           ELSE /\ load' = [total |-> p.total, source |-> p.source, pages |-> <<p>>,
                            flying |-> Launched(p.total, 1)]
                /\ UNCHANGED <<queue, reads, snapshots>>

(* Another page, in any order; each answer makes room for a request.         *)
NextPage(c) ==
    /\ Loading(c)
    /\ \E o \in load.flying : \E p \in Pages(reads[c].of.market, o) :
           IF ~SameSource(p, load.source) THEN Unavailable(c)
           ELSE LET pages == Append(load.pages, p)
                IN /\ load' = [load EXCEPT !.pages = pages,
                         !.flying = Launched(load.total, Len(pages)) \ {q.offset : q \in Range(pages)}]
                   /\ UNCHANGED <<queue, reads, snapshots>>

(* With every page there the snapshot is accepted or refused.                *)
Complete(c) ==
    /\ Loading(c) /\ load.pages # <<>> /\ load.flying = {}
    /\ IF Accepted(reads[c].of.market, Range(load.pages), load.total)
       THEN Cache(c, Assembled(Range(load.pages)), load.source)
       ELSE Unavailable(c)

(* A request fails: an answer that is stale, too large or an error.          *)
Fails(c) == Loading(c) /\ Unavailable(c)

(* A caller that is not authorised is told so, and nothing is cached.        *)
Refused(c) ==
    /\ Loading(c)
    /\ Answer(c)
    /\ load' = NoLoad
    /\ UNCHANGED snapshots

(* The caller goes away, and its requests with it.                           *)
Dropped(c) ==
    /\ reads[c].phase # "idle"
    /\ reads' = [reads EXCEPT ![c] = Quiet]
    /\ queue' = RemoveAt(queue, CHOOSE i \in DOMAIN queue : queue[i] = c)
    /\ load' = IF Loading(c) THEN NoLoad ELSE load
    /\ UNCHANGED snapshots

(* 60 seconds, 5 after a failure, or what the provider has asked for.        *)
Due(m) ==
    /\ snapshots[m] # None
    /\ snapshots' = [snapshots EXCEPT ![m] = None]
    /\ UNCHANGED <<queue, reads, load>>

ScreenNext ==
    \/ \E c \in Readers : \/ \E q \in Queries : Read(c, q)
                          \/ Look(c) \/ FirstPage(c) \/ NextPage(c) \/ Complete(c)
                          \/ Fails(c) \/ Refused(c) \/ Dropped(c)
    \/ \E m \in Markets : Due(m)

-----------------------------------------------------------------------------
(* The screens of a query, one after the other.                              *)
Screens(rows, q) == FlattenSeq([i \in 1..Len(rows) |->
    Screen(rows, [q EXCEPT !.offset = (i - 1) * ScreenSize])])

(* A snapshot is whole: no instrument is in it twice, where its source names *)
(* a version it has exactly the instruments of that version, whatever has    *)
(* happened upstream between two pages, and its screens show every selected  *)
(* instrument once.                                                          *)
SnapshotsAreWhole ==
    \A m \in Markets : snapshots[m] # None => LET rows == snapshots[m].rows IN rows # None =>
        /\ IsInjective(rows)
        /\ snapshots[m].source.id # None =>
               \E s \in Sources : s.market = m /\ s.id = snapshots[m].source.id /\ s.rows = rows
        /\ \A q \in Queries : /\ IsInjective(Screens(rows, q))
                             /\ Range(Screens(rows, q)) = Selected(rows, q)
=============================================================================
