---------------------------- MODULE DesktopProofs ----------------------------
(* The exit of the desktop host, for any number of web views, holds until a  *)
(* deadline of the exit passes: a start and the shutdown have the session's  *)
(* lock while they work, so what a start has opened belongs to the start, to *)
(* the session it has installed, or to the shutdown that took it, one of     *)
(* them at a time.  The second half is about the snapshots of the screens,   *)
(* whatever the listings, the sizes and the number of readers: a load has    *)
(* every page of its listing once when no request of it is in flight.        *)
EXTENDS Desktop, SequenceTheorems, FiniteSetTheorems, WellFoundedInduction, TLAPS

Phases == {"idle", "looked", "asking", "using", "quitting"} \cup Starting

Closings == {"research", "resources", "forwarder", "engine", "storage"}

Over == {"done", "leaving", "over"}

Parts == [storage : {"none", "opening", "ready", "closed", "abandoned"},
          engine : {"none", "running", "stopping", "ended"},
          forwarder : {"none", "waiting", "sleeping", "ended"},
          resources : {"none", "waiting", "ended"}]

Ended(p) ==
    /\ p.engine \in {"none", "ended"}
    /\ p.forwarder \in {"none", "ended"} /\ p.resources \in {"none", "ended"}

Unowned(p) == Ended(p) /\ p.storage \in {"none", "closed", "abandoned"}

SessionTypes ==
    /\ calls \in [Callers -> Phases]
    /\ lock \in Seq(Callers \cup {Exit}) /\ installed \in BOOLEAN
    /\ parts \in Parts
    /\ closing \in {"none", "notifying", "locking"} \cup Closings \cup Over
    /\ app \in [pending : BOOLEAN, exiting : BOOLEAN, finished : BOOLEAN, exited : BOOLEAN]

\* A start, and a shutdown that has a session, hold the lock.
LockHeld ==
    /\ \A c \in Callers : calls[c] \in Starting => Has(c)
    /\ closing \in Closings => Has(Exit)

\* The exit is told to the starts before it takes the session, so no start
\* gets further than its look at it once the session is taken.
ExitSeen ==
    /\ closing # "none" => app.exiting
    /\ app.finished => closing \in Over
    /\ closing \in Closings \cup Over =>
          ~installed /\ \A c \in Callers : calls[c] \notin Starting \ {"enabled"}
    /\ installed => \A c \in Callers : calls[c] \notin Starting

\* What runs belongs to a session, or to the shutdown that waits for it.
Owned ==
    /\ installed \/ closing \in {"research", "resources", "forwarder", "engine"}
          \/ parts.engine \in {"none", "ended"}
    /\ installed \/ closing \in {"research", "resources", "forwarder"}
          \/ parts.forwarder \in {"none", "ended"}
    /\ installed \/ closing \in {"research", "resources"}
          \/ parts.resources \in {"none", "ended"}
    /\ \/ installed \/ closing \in Closings
       \/ \E c \in Callers : calls[c] \in {"opening", "loading", "failing"}
       \/ parts.storage \in {"none", "closed", "abandoned"}

Timely == SessionTypes /\ LockHeld /\ ExitSeen /\ Owned

SessionInv == late \/ Timely

-----------------------------------------------------------------------------
\* The lock: who asks for it does not overtake, who returns was alone.
LEMMA QueueFacts ==
  ASSUME NEW S, NEW q \in Seq(S), NEW x \in S
  PROVE  /\ Append(q, x) \in Seq(S) /\ Append(q, x) # <<>>
         /\ q # <<>> => Head(Append(q, x)) = Head(q) /\ Tail(q) \in Seq(S)
<1> QED
  BY AppendProperties, HeadTailAppend, HeadTailProperties

LEMMA AsksKeeps ==
  ASSUME Timely, NEW c \in Callers, NEW p \in {"asking", "using", "quitting"}, Asks(c, p),
         calls[c] \in {"idle", "looked"}
  PROVE  Timely'
<1>1. /\ calls' = [calls EXCEPT ![c] = p] /\ calls[c] \in {"idle", "looked"} /\ lock' = Append(lock, c)
      /\ UNCHANGED <<installed, parts, closing, app>>
  BY DEF Asks
<1>2. \A d \in Callers : calls'[d] = IF d = c THEN p ELSE calls[d]
  BY <1>1 DEF Timely, SessionTypes
<1>3. p \notin Starting /\ p \in Phases
  BY DEF Starting, Phases
<1>4. /\ lock' \in Seq(Callers \cup {Exit}) /\ lock' # <<>>
      /\ lock # <<>> => Head(lock') = Head(lock)
  BY <1>1, QueueFacts DEF Timely, SessionTypes
<1>5. SessionTypes'
  BY <1>1, <1>2, <1>3, <1>4 DEF Timely, SessionTypes
<1>6. LockHeld'
  BY <1>1, <1>2, <1>3, <1>4 DEF Timely, LockHeld, Has
<1>7. ExitSeen'
  BY <1>1, <1>2, <1>3 DEF Timely, ExitSeen
<1>8. Owned'
  <2>1. \A d \in Callers : calls[d] \in {"opening", "loading", "failing"} => calls'[d] = calls[d]
    BY <1>1, <1>2
  <2> QED
    BY <1>1, <2>1 DEF Timely, Owned
<1> QED
  BY <1>5, <1>6, <1>7, <1>8 DEF Timely

LEMMA LooksKeeps ==
  ASSUME Timely, NEW c \in Callers, Looks(c)
  PROVE  Timely'
<1>1. /\ calls' = [calls EXCEPT ![c] = "looked"] /\ calls[c] = "idle"
      /\ UNCHANGED <<lock, installed, parts, closing, app>>
  BY DEF Looks, Goes
<1>2. \A d \in Callers : calls'[d] = IF d = c THEN "looked" ELSE calls[d]
  BY <1>1 DEF Timely, SessionTypes
<1>3. SessionTypes'
  BY <1>1 DEF Timely, SessionTypes, Phases
<1>4. LockHeld' /\ ExitSeen'
  BY <1>1, <1>2 DEF Timely, LockHeld, ExitSeen, Has, Starting
<1>5. Owned'
  <2>1. \A d \in Callers : calls[d] \in {"opening", "loading", "failing"} => calls'[d] = calls[d]
    BY <1>1, <1>2
  <2> QED
    BY <1>1, <2>1 DEF Timely, Owned
<1> QED
  BY <1>3, <1>4, <1>5 DEF Timely

LEMMA HolderAlone ==
  ASSUME Timely, NEW c \in Callers, Has(c)
  PROVE  /\ \A d \in Callers \ {c} : calls[d] \notin Starting
         /\ closing \notin Closings
<1> QED
  BY SessionAssumption DEF Timely, LockHeld, Has, Exit

LEMMA ReturnKeeps ==
  ASSUME Timely, NEW c \in Callers, Has(c), Return(c), UNCHANGED closing
  PROVE  /\ calls' \in [Callers -> Phases] /\ lock' \in Seq(Callers \cup {Exit})
         /\ \A d \in Callers : calls'[d] \notin Starting
         /\ LockHeld' /\ closing \notin Closings
<1>1. \A d \in Callers : calls'[d] = IF d = c THEN "idle" ELSE calls[d]
  BY DEF Return, Timely, SessionTypes
<1>2. calls' \in [Callers -> Phases]
  BY DEF Return, Timely, SessionTypes, Phases
<1>3. lock' \in Seq(Callers \cup {Exit})
  BY QueueFacts DEF Return, Timely, SessionTypes, Has
<1>4. \A d \in Callers : calls'[d] \notin Starting
  BY <1>1, HolderAlone DEF Starting
<1> QED
  BY <1>2, <1>3, <1>4, HolderAlone DEF LockHeld

LEMMA GoesKeeps ==
  ASSUME Timely, NEW c \in Callers, Has(c), NEW p \in Starting, Goes(c, p), UNCHANGED closing
  PROVE  /\ calls' \in [Callers -> Phases] /\ lock' \in Seq(Callers \cup {Exit})
         /\ calls'[c] = p /\ \A d \in Callers \ {c} : calls'[d] \notin Starting
         /\ LockHeld' /\ closing \notin Closings
<1>1. \A d \in Callers : calls'[d] = IF d = c THEN p ELSE calls[d]
  BY DEF Goes, Timely, SessionTypes
<1>2. calls' \in [Callers -> Phases] /\ UNCHANGED lock
  BY DEF Goes, Timely, SessionTypes, Phases
<1>3. \A d \in Callers \ {c} : calls'[d] \notin Starting
  BY <1>1, HolderAlone
<1> QED
  BY <1>1, <1>2, <1>3, HolderAlone DEF Timely, SessionTypes, LockHeld, Has

\* Nothing is left of a start that returns when its storage has ended.
LEMMA ReturnsOwned ==
  ASSUME Timely, NEW c \in Callers, Has(c), Return(c), UNCHANGED <<closing, app>>,
         parts' \in Parts, installed' \in BOOLEAN, installed' => closing \notin Closings \cup Over,
         ~installed' => Unowned(parts')
  PROVE  Timely'
<1>1. SessionTypes'
  BY ReturnKeeps DEF Timely, SessionTypes
<1>2. ExitSeen'
  BY ReturnKeeps DEF Timely, ExitSeen
<1>3. Owned'
  BY DEF Owned, Unowned, Ended
<1> QED
  BY <1>1, <1>2, <1>3, ReturnKeeps DEF Timely

LEMMA GoesOwned ==
  ASSUME Timely, NEW c \in Callers, Has(c), NEW p \in Starting, Goes(c, p),
         UNCHANGED <<installed, closing, app>>, ~installed,
         p # "enabled" => closing \notin Over,
         parts' \in Parts, Ended(parts'),
         p \in {"opening", "loading", "failing"} \/ Unowned(parts')
  PROVE  Timely'
<1>1. SessionTypes'
  BY GoesKeeps DEF Timely, SessionTypes
<1>2. ExitSeen'
  <2>1. closing \in Closings \cup Over =>
          \A d \in Callers : calls'[d] \notin Starting \ {"enabled"}
    BY GoesKeeps
  <2> QED
    BY <2>1 DEF Timely, ExitSeen
<1>3. Owned'
  BY GoesKeeps DEF Owned, Unowned, Ended
<1> QED
  BY <1>1, <1>2, <1>3, GoesKeeps DEF Timely

\* What a holder that has opened nothing finds.
LEMMA HolderFinds ==
  ASSUME Timely, NEW c \in Callers, Has(c)
  PROVE  /\ parts \in Parts /\ installed \in BOOLEAN
         /\ installed => closing \notin Closings \cup Over /\ calls[c] \notin Starting
         /\ ~installed => Ended(parts)
         /\ ~installed /\ calls[c] \notin {"opening", "loading", "failing"} => Unowned(parts)
         /\ calls[c] \in Starting \ {"enabled"} => closing \notin Over
<1>1. parts \in Parts /\ installed \in BOOLEAN
  BY DEF Timely, SessionTypes
<1>2. /\ installed => closing \notin Closings \cup Over /\ calls[c] \notin Starting
      /\ calls[c] \in Starting \ {"enabled"} => closing \notin Over
  BY DEF Timely, ExitSeen
<1>3. ~installed => Ended(parts)
  BY HolderAlone DEF Timely, Owned, Ended, Closings
<1>4. ~installed /\ calls[c] \notin {"opening", "loading", "failing"} =>
        parts.storage \in {"none", "closed", "abandoned"}
  BY HolderAlone DEF Timely, Owned, Starting
<1> QED
  BY <1>1, <1>2, <1>3, <1>4 DEF Unowned

-----------------------------------------------------------------------------
\* The steps of a command and of a start.
LEMMA CommandKeeps ==
  ASSUME Timely, NEW c \in Callers, Use(c) \/ Quit(c) \/ Enter(c)
  PROVE  Timely'
<1>1. Has(c) /\ calls[c] \in {"using", "quitting", "asking"} /\ UNCHANGED <<installed, closing, app>>
  BY DEF Use, Quit, Enter
<1>2. /\ parts \in Parts /\ installed \in BOOLEAN
      /\ installed => closing \notin Closings \cup Over
      /\ ~installed => Ended(parts) /\ Unowned(parts)
  BY <1>1, HolderFinds
<1>3. ASSUME Return(c), UNCHANGED parts PROVE Timely'
  BY <1>1, <1>2, <1>3, ReturnsOwned
<1>4. CASE Quit(c)
  <2>1. parts' \in Parts
    <3>1. Stopped(parts.engine) \in {"none", "running", "stopping", "ended"}
      BY <1>2 DEF Stopped, Parts
    <3> QED
      BY <1>2, <1>4, <3>1 DEF Quit, Parts
  <2>2. Return(c) /\ (~installed' => Unowned(parts'))
    BY <1>1, <1>2, <1>4 DEF Quit
  <2> QED
    BY <1>1, <1>2, <2>1, <2>2, ReturnsOwned
<1>5. CASE Enter(c)
  <2>1. CASE installed
    BY <1>3, <1>5, <2>1 DEF Enter
  <2>2. CASE ~installed
    <3>1. Goes(c, "enabled") /\ "enabled" \in Starting /\ UNCHANGED parts
      BY <1>5, <2>2 DEF Enter, Starting
    <3> QED
      BY <1>1, <1>2, <2>2, <3>1, GoesOwned
  <2> QED
    BY <2>1, <2>2
<1> QED
  BY <1>3, <1>4, <1>5 DEF Use

LEMMA StartKeeps ==
  ASSUME Timely, NEW c \in Callers,
         Check(c) \/ Name(c) \/ Open(c) \/ Install(c) \/ LoadFails(c) \/ StartFails(c) \/ Canceled(c)
  PROVE  Timely'
<1>1. calls[c] \in Starting /\ UNCHANGED <<closing, app>>
  BY DEF Check, Name, Open, Install, LoadFails, StartFails, Canceled, Starting
<1>2. Has(c)
  BY <1>1 DEF Timely, LockHeld
<1>3. /\ parts \in Parts /\ installed \in BOOLEAN /\ ~installed /\ Ended(parts)
      /\ calls[c] \notin {"opening", "loading", "failing"} => Unowned(parts)
      /\ calls[c] # "enabled" => closing \notin Over
      /\ closing \notin Closings
  BY <1>1, <1>2, HolderFinds, HolderAlone
<1> DEFINE opening == [Nothing EXCEPT !.storage = "opening"]
<1>4. opening \in Parts /\ Ended(opening) /\ Nothing \in Parts /\ Unowned(Nothing)
  BY DEF Nothing, Parts, Ended, Unowned
<1>5. ASSUME Return(c), UNCHANGED installed, parts' \in Parts, Unowned(parts')
      PROVE  Timely'
  BY <1>1, <1>2, <1>3, <1>5, ReturnsOwned
<1>6. ASSUME NEW p \in Starting \ {"enabled"}, Goes(c, p), UNCHANGED installed, closing \notin Over,
             parts' \in Parts, Ended(parts'),
             p \in {"opening", "loading", "failing"} \/ Unowned(parts')
      PROVE  Timely'
  BY <1>1, <1>2, <1>3, <1>6, GoesOwned
<1> HIDE DEF opening
<1>7. "naming" \in Starting \ {"enabled"} /\ "opening" \in Starting \ {"enabled"}
      /\ "loading" \in Starting \ {"enabled"} /\ "failing" \in Starting \ {"enabled"}
  BY DEF Starting
<1>8. CASE Check(c)
  <2>1. CASE Return(c) /\ UNCHANGED <<parts, installed>>
    BY <1>3, <1>5, <1>8, <2>1 DEF Check
  <2>2. CASE ~app.exiting /\ Goes(c, "naming") /\ UNCHANGED <<parts, installed>>
    <3>1. closing \notin Over /\ Unowned(parts)
      BY <1>3, <1>8, <2>2 DEF Check, Timely, ExitSeen, Over
    <3> QED
      BY <1>3, <1>6, <1>7, <2>2, <3>1
  <2>3. CASE ~app.exiting /\ Goes(c, "opening") /\ parts' = opening /\ UNCHANGED installed
    <3>1. closing \notin Over
      BY <2>3 DEF Timely, ExitSeen, Over
    <3> QED
      BY <1>4, <1>6, <1>7, <2>3, <3>1
  <2> QED
    BY <1>8, <2>1, <2>2, <2>3 DEF Check, Configured, opening
<1>9. CASE Name(c)
  <2>1. calls[c] = "naming" /\ UNCHANGED installed
    BY <1>9 DEF Name
  <2>2. CASE Return(c) /\ UNCHANGED parts
    BY <1>3, <1>5, <2>1, <2>2
  <2>3. CASE Goes(c, "opening") /\ parts' = opening
    BY <1>3, <1>4, <1>6, <1>7, <2>1, <2>3
  <2> QED
    BY <1>9, <2>2, <2>3 DEF Name, opening
<1>10. CASE Open(c)
  <2>1. calls[c] = "opening" /\ UNCHANGED installed
    BY <1>10 DEF Open
  <2>2. CASE Return(c) /\ parts' = Nothing
    BY <1>4, <1>5, <2>1, <2>2
  <2>3. CASE Goes(c, "loading") /\ parts' = [parts EXCEPT !.storage = "ready"]
    <3>1. parts' \in Parts /\ Ended(parts')
      BY <1>3, <2>3 DEF Parts, Ended
    <3> QED
      BY <1>3, <1>6, <1>7, <2>1, <2>3, <3>1
  <2> QED
    BY <1>10, <2>2, <2>3 DEF Open
<1>11. CASE Install(c)
  <2>1. calls[c] = "loading" /\ Return(c) /\ installed' = TRUE
    BY <1>11 DEF Install
  <2>2. parts' \in Parts
    BY <1>3, <1>11 DEF Install, Parts
  <2> QED
    BY <1>1, <1>2, <1>3, <2>1, <2>2, ReturnsOwned
<1>12. CASE LoadFails(c)
  <2>1. calls[c] = "loading" /\ Goes(c, "failing") /\ UNCHANGED <<installed, parts>>
    BY <1>12 DEF LoadFails
  <2> QED
    BY <1>3, <1>6, <1>7, <2>1
<1>13. CASE StartFails(c)
  <2>1. Return(c) /\ UNCHANGED installed /\ parts' = [parts EXCEPT !.storage = "closed"]
    BY <1>13 DEF StartFails
  <2>2. parts' \in Parts /\ Unowned(parts')
    BY <1>3, <2>1 DEF Parts, Unowned, Ended
  <2> QED
    BY <1>5, <2>1, <2>2
<1>14. CASE Canceled(c)
  <2>1. /\ Return(c) /\ UNCHANGED installed
        /\ parts' = IF calls[c] = "naming" THEN parts ELSE [parts EXCEPT !.storage = "abandoned"]
    BY <1>14 DEF Canceled
  <2>2. parts' \in Parts /\ Unowned(parts')
    BY <1>3, <2>1 DEF Parts, Unowned, Ended
  <2> QED
    BY <1>5, <2>1, <2>2
<1> QED
  BY <1>8, <1>9, <1>10, <1>11, <1>12, <1>13, <1>14

-----------------------------------------------------------------------------
\* The engine, the forwarder and the host.
LEMMA PartsKeep ==
  ASSUME Timely, UNCHANGED <<calls, lock, installed, closing>>, parts' \in Parts,
         app' \in [pending : BOOLEAN, exiting : BOOLEAN, finished : BOOLEAN, exited : BOOLEAN],
         app'.exiting = app.exiting, app'.finished = app.finished,
         parts.engine \in {"none", "ended"} => parts'.engine \in {"none", "ended"},
         parts.forwarder \in {"none", "ended"} => parts'.forwarder \in {"none", "ended"},
         parts'.resources = parts.resources, parts'.storage = parts.storage
  PROVE  Timely'
<1>1. SessionTypes'
  BY DEF Timely, SessionTypes
<1>2. LockHeld' /\ ExitSeen'
  BY DEF Timely, LockHeld, ExitSeen, Has
<1>3. Owned'
  BY DEF Timely, Owned
<1> QED
  BY <1>1, <1>2, <1>3 DEF Timely

LEMMA RunningKeeps ==
  ASSUME Timely, Publish \/ EngineEnds \/ Wake \/ Forward \/ CloseWindow
  PROVE  Timely'
<1> USE DEF Timely, SessionTypes, Parts
<1>1. CASE Publish
  BY <1>1, PartsKeep DEF Publish
<1>2. CASE EngineEnds
  BY <1>2, PartsKeep DEF EngineEnds
<1>3. CASE Wake
  BY <1>3, PartsKeep DEF Wake
<1>4. CASE Forward
  <2>1. UNCHANGED <<calls, lock, installed, closing>> /\ parts.forwarder = "sleeping"
    BY <1>4 DEF Forward
  <2>2. parts' \in Parts /\ \A f \in {"engine", "resources", "storage"} : parts'[f] = parts[f]
    BY <1>4 DEF Forward
  <2>3. /\ app' \in [pending : BOOLEAN, exiting : BOOLEAN, finished : BOOLEAN, exited : BOOLEAN]
        /\ app'.exiting = app.exiting /\ app'.finished = app.finished
    BY <1>4 DEF Forward
  <2> QED
    BY <2>1, <2>2, <2>3, PartsKeep
<1>5. CASE CloseWindow
  BY <1>5, PartsKeep DEF CloseWindow
<1> QED
  BY <1>1, <1>2, <1>3, <1>4, <1>5

\* The exit, as far as it tells the host.
LEMMA ExitKeeps ==
  ASSUME Timely, ExitRequested \/ Notify \/ Finish
  PROVE  Timely'
<1>1. UNCHANGED <<calls, installed, parts>> /\ app' \in [pending : BOOLEAN, exiting : BOOLEAN,
                                                   finished : BOOLEAN, exited : BOOLEAN]
  BY DEF ExitRequested, Notify, Finish, Timely, SessionTypes
<1>2. /\ closing' # "none" => app'.exiting
      /\ app'.finished => closing' \in Over
      /\ closing' \in Closings <=> closing \in Closings
      /\ closing' \in Over <=> closing \in Over
      /\ closing' \in {"none", "notifying", "locking"} \cup Closings \cup Over
  <2>1. CASE ExitRequested
    BY <2>1 DEF ExitRequested, Timely, SessionTypes, ExitSeen, Over, Closings
  <2>2. CASE Notify
    BY <2>2 DEF Notify, Timely, SessionTypes, ExitSeen, Over, Closings
  <2>3. CASE Finish
    BY <2>3 DEF Finish, Timely, SessionTypes, ExitSeen, Over, Closings
  <2> QED
    BY <2>1, <2>2, <2>3
<1>3. \/ UNCHANGED lock
      \/ /\ lock' = Append(lock, Exit) /\ lock' \in Seq(Callers \cup {Exit}) /\ lock' # <<>>
         /\ lock # <<>> => Head(lock') = Head(lock)
  <2>1. CASE Notify
    BY <2>1, QueueFacts DEF Notify, Timely, SessionTypes
  <2>2. CASE ExitRequested \/ Finish
    BY <2>2 DEF ExitRequested, Finish
  <2> QED
    BY <2>1, <2>2
<1>4. SessionTypes'
  BY <1>1, <1>2, <1>3 DEF Timely, SessionTypes
<1>5. LockHeld'
  BY <1>1, <1>2, <1>3 DEF Timely, LockHeld, Has
<1>6. ExitSeen'
  BY <1>1, <1>2 DEF Timely, ExitSeen
<1>7. Owned'
  BY <1>1, <1>2 DEF Timely, Owned, Closings, ExitRequested, Notify, Finish
<1> QED
  BY <1>4, <1>5, <1>6, <1>7 DEF Timely

\* The shutdown has the lock: no start is under way.
LEMMA TakeSessionKeeps ==
  ASSUME Timely, TakeSession
  PROVE  Timely'
<1>1. /\ closing = "locking" /\ Has(Exit) /\ installed' = FALSE /\ UNCHANGED <<calls, app>>
      /\ IF installed
         THEN /\ closing' = "research" /\ UNCHANGED lock
              /\ parts' = [parts EXCEPT !.engine = Stopped(@)]
         ELSE closing' = "done" /\ lock' = Tail(lock) /\ UNCHANGED parts
  BY DEF TakeSession
<1>2. \A c \in Callers : calls[c] \notin Starting
  BY <1>1, SessionAssumption DEF Timely, LockHeld, Has, Exit
<1>3. parts' \in Parts
  <2>1. Stopped(parts.engine) \in {"none", "running", "stopping", "ended"}
    BY DEF Stopped, Timely, SessionTypes, Parts
  <2> QED
    BY <1>1, <2>1 DEF Timely, SessionTypes, Parts
<1>4. lock' \in Seq(Callers \cup {Exit})
  BY <1>1, HeadTailProperties DEF Timely, SessionTypes, Has
<1>5. SessionTypes'
  BY <1>1, <1>3, <1>4 DEF Timely, SessionTypes, Closings, Over
<1>6. LockHeld'
  BY <1>1, <1>2 DEF LockHeld, Has, Closings
<1>7. ExitSeen'
  BY <1>1, <1>2 DEF Timely, ExitSeen, Closings, Over
<1>8. Owned'
  <2>1. CASE installed
    BY <1>1, <2>1 DEF Owned, Closings
  <2>2. CASE ~installed
    BY <1>1, <1>2, <2>2 DEF Timely, Owned, Closings, Starting
  <2> QED
    BY <2>1, <2>2
<1> QED
  BY <1>5, <1>6, <1>7, <1>8 DEF Timely

\* One part after the other ends, the storage last.
LEMMA CloseKeeps ==
  ASSUME Timely, CloseStep \/ CloseStorage
  PROVE  Timely'
<1>1. /\ closing \in Closings /\ closing' \in Closings \cup {"done"}
      /\ UNCHANGED <<calls, installed, app>>
      /\ IF closing' = "done" THEN lock' = Tail(lock) ELSE UNCHANGED lock
  BY DEF CloseStep, CloseStorage, Closings
<1>2. \A c \in Callers : calls[c] \notin Starting
  BY <1>1, SessionAssumption DEF Timely, LockHeld, Has, Exit
<1>3. ~installed /\ Has(Exit)
  BY <1>1 DEF Timely, ExitSeen, LockHeld
<1>4. parts' \in Parts
  BY DEF CloseStep, CloseStorage, Timely, SessionTypes, Parts
<1>5. lock' \in Seq(Callers \cup {Exit})
  BY <1>1, <1>3, HeadTailProperties DEF Timely, SessionTypes, Has
<1>6. SessionTypes'
  BY <1>1, <1>4, <1>5 DEF Timely, SessionTypes, Over
<1>7. LockHeld'
  BY <1>1, <1>2, <1>3 DEF LockHeld, Has, Closings
<1>8. ExitSeen'
  BY <1>1, <1>2, <1>3 DEF Timely, ExitSeen, Closings, Over
<1>9. Owned'
  <2>1. CASE CloseStep
    BY <1>1, <1>3, <2>1 DEF CloseStep, Timely, SessionTypes, Parts, Owned, Closings
  <2>2. CASE CloseStorage
    BY <1>1, <1>3, <2>2 DEF CloseStorage, Timely, SessionTypes, Parts, Owned, Closings
  <2> QED
    BY <2>1, <2>2
<1> QED
  BY <1>6, <1>7, <1>8, <1>9 DEF Timely

-----------------------------------------------------------------------------
(* The theorems.                                                             *)

LEMMA SessionStepKeeps ==
  ASSUME SessionInv, SessionNext
  PROVE  SessionInv'
<1>1. late => late'
  BY DEF SessionNext, Looks, AskChecked, AskUnchecked, Asks, Closes, Deadline, CallerStep, SlowStep, Use, Quit,
         Enter, Check, Canceled, Name, Open, Install, LoadFails, StartFails, EngineStep,
         EngineEnds, Publish, ForwarderStep, Wake, Forward, ShutdownStep, Notify, TakeSession,
         CloseStep, CloseStorage, Finish, CloseWindow, ExitRequested, EngineTooLate, GiveUp
<1>2. ASSUME Timely PROVE SessionInv'
  <2>1. ASSUME NEW c \in Callers, Looks(c) \/ AskChecked(c) \/ AskUnchecked(c)
        PROVE  Timely'
    BY <1>2, <2>1, AsksKeeps, LooksKeeps DEF AskChecked, AskUnchecked
  <2>2. ASSUME NEW c \in Callers, CallerStep(c) \/ SlowStep(c)
        PROVE  Timely'
    BY <1>2, <2>1, <2>2, CommandKeeps, StartKeeps DEF CallerStep, SlowStep
  <2>3. CASE EngineStep \/ ForwarderStep \/ CloseWindow
    BY <1>2, <2>3, RunningKeeps DEF EngineStep, ForwarderStep, SessionInv
  <2>4. CASE ShutdownStep \/ Closes \/ ExitRequested
    BY <1>2, <2>4, ExitKeeps, TakeSessionKeeps, CloseKeeps DEF ShutdownStep, Closes, SessionInv
  <2>5. CASE Deadline
    BY <2>5 DEF Deadline, EngineTooLate, GiveUp, SessionInv
  <2> QED
    BY <2>1, <2>2, <2>3, <2>4, <2>5 DEF SessionNext, SessionInv
<1> QED
  BY <1>1, <1>2 DEF SessionInv

(* The desktop's steps are the session's or leave it alone: who holds the    *)
(* lock, what has started and what the shutdown has waited for agree, until  *)
(* a deadline passes.                                                        *)
THEOREM SessionInvariant == Spec => []SessionInv
<1>1. Init => SessionInv
  <2> SUFFICES ASSUME Init PROVE Timely
    BY DEF SessionInv
  <2>1. SessionTypes
    <3>1. calls \in [Callers -> Phases] /\ lock \in Seq(Callers \cup {Exit})
      BY EmptySeq DEF Init, SessionInit, Phases
    <3>2. parts \in Parts
      BY DEF Init, SessionInit, Nothing, Parts
    <3> QED
      BY <3>1, <3>2 DEF Init, SessionInit, SessionTypes
  <2>2. LockHeld /\ ExitSeen
    BY DEF Init, SessionInit, LockHeld, ExitSeen, Starting, Closings, Over
  <2>3. Owned
    BY DEF Init, SessionInit, Owned, Nothing
  <2> QED
    BY <2>1, <2>2, <2>3 DEF Timely
<1>2. SessionInv /\ [Next]_desktopVars => SessionInv'
  <2> SUFFICES ASSUME SessionInv, [Next]_desktopVars PROVE SessionInv'
    OBVIOUS
  <2>1. CASE SessionStep
    BY <2>1, SessionStepKeeps DEF SessionStep
  <2>2. CASE UNCHANGED sessionVars
    BY <2>2 DEF sessionVars, SessionInv, Timely, SessionTypes, LockHeld, ExitSeen, Owned, Has
  <2> QED
    BY <2>1, <2>2 DEF Next, ScreenStep, desktopVars
<1>3. Spec => Init /\ [][Next]_desktopVars
  BY DEF Spec
<1> QED
  BY <1>1, <1>2, <1>3, PTL

(* When no deadline has passed and the host may exit, no session is left or  *)
(* starting, engine and forwarders have ended and the storage is closed.     *)
THEOREM NothingOutlives == Spec => []NothingOutlivesExit
<1>1. SessionInv => NothingOutlivesExit
  BY DEF SessionInv, Timely, SessionTypes, LockHeld, ExitSeen, Owned, NothingOutlivesExit,
         Closings, Over, Starting
<1> QED
  BY <1>1, SessionInvariant, PTL

-----------------------------------------------------------------------------
(* What FlattenSeq computes.                                                 *)

LEMMA UpTo ==
  ASSUME NEW n \in Nat, NEW G, 0 \in G, \A k \in 1..n : k - 1 \in G => k \in G
  PROVE  \A k \in 0..n : k \in G
<1> DEFINE Bad == {k \in 0..n : k \notin G}
           R == OpToRel(<, Nat)
<1> SUFFICES ASSUME Bad # {} PROVE FALSE
  OBVIOUS
<1>1. IsWellFoundedOn(R, Nat)
  BY NatLessThanWellFounded
<1>2. Bad \subseteq Nat
  OBVIOUS
<1>3. PICK m \in Bad : \A k \in Bad : <<k, m>> \notin R
  <2> HIDE DEF R, Bad
  <2> QED
    BY <1>1, <1>2, WFMin
<1>4. m \in 0..n /\ m # 0 /\ m \notin G
  OBVIOUS
<1>5. m \in 1..n /\ m - 1 \in 0..n /\ m - 1 < m
  BY <1>4
<1>6. \A k \in Bad : ~(k < m)
  <2> HIDE DEF Bad
  <2> QED
    BY <1>2, <1>3 DEF OpToRel
<1>7. m - 1 \in G
  BY <1>5, <1>6
<1> QED
  BY <1>4, <1>5, <1>7

\* The equation that defines the flattening of the first n sequences.
Flattens(seqs, n, h) ==
  h = [i \in 1..n |-> IF i = 1 THEN seqs[i] ELSE h[i - 1] \o seqs[i]]

LEMMA FlattenGrows ==
  ASSUME NEW seqs, NEW n \in Nat, NEW h, Flattens(seqs, n, h)
  PROVE  \E g : Flattens(seqs, n + 1, g)
<1> DEFINE g == [i \in 1..(n + 1) |->
                   IF i \in 1..n THEN h[i] ELSE IF n = 0 THEN seqs[1] ELSE h[n] \o seqs[n + 1]]
           F(i) == IF i = 1 THEN seqs[i] ELSE g[i - 1] \o seqs[i]
<1>1. \A i \in 1..n : h[i] = IF i = 1 THEN seqs[i] ELSE h[i - 1] \o seqs[i]
  BY DEF Flattens
<1>2. ASSUME NEW i \in 1..(n + 1)
      PROVE  g[i] = F(i)
  <2>1. CASE i \in 1..n
    <3>1. g[i] = h[i] /\ (i = 1 \/ (i - 1 \in 1..n /\ i - 1 \in 1..(n + 1)))
      BY <2>1
    <3>2. i # 1 => g[i - 1] = h[i - 1]
      BY <3>1
    <3> HIDE DEF g
    <3> QED
      BY <3>1, <3>2, <1>1, <2>1
  <2>2. CASE i \notin 1..n
    <3>1. i = n + 1
      BY <2>2
    <3>2. CASE n = 0
      BY <3>1, <3>2
    <3>3. CASE n # 0
      <4>1. i # 1 /\ i - 1 = n /\ n \in 1..n /\ n \in 1..(n + 1)
        BY <3>1, <3>3
      <4>2. g[i] = h[n] \o seqs[n + 1] /\ g[n] = h[n]
        BY <4>1, <2>2, <3>1, <3>3
      <4> HIDE DEF g
      <4> QED
        BY <4>1, <4>2, <3>1
    <3> QED
      BY <3>2, <3>3
  <2> QED
    BY <2>1, <2>2
<1>3. g = [i \in 1..(n + 1) |-> F(i)]
  <2>1. g = [i \in 1..(n + 1) |-> g[i]]
    OBVIOUS
  <2> HIDE DEF g
  <2> QED
    BY <1>2, <2>1
<1> HIDE DEF g
<1> QED
  BY <1>3 DEF Flattens

LEMMA FlattenExists ==
  ASSUME NEW seqs, NEW n \in Nat
  PROVE  \E h : Flattens(seqs, n, h)
<1> DEFINE G == {k \in Nat : \E h : Flattens(seqs, k, h)}
<1>1. 0 \in G
  <2>1. Flattens(seqs, 0, [i \in 1..0 |-> seqs])
    BY DEF Flattens
  <2> QED
    BY <2>1
<1>2. \A k \in 1..n : k - 1 \in G => k \in G
  <2> SUFFICES ASSUME NEW k \in 1..n, k - 1 \in G PROVE k \in G
    OBVIOUS
  <2>1. k - 1 \in Nat /\ (k - 1) + 1 = k
    OBVIOUS
  <2>2. PICK h : Flattens(seqs, k - 1, h)
    BY <2>1
  <2>3. \E g : Flattens(seqs, (k - 1) + 1, g)
    BY <2>1, <2>2, FlattenGrows
  <2> QED
    BY <2>1, <2>3
<1> HIDE DEF G
<1>3. n \in G
  <2>1. n \in 0..n
    OBVIOUS
  <2> QED
    BY <1>1, <1>2, <2>1, UpTo
<1> QED
  BY <1>3 DEF G

\* The flattening of the first n sequences, for each n.
Unfolds(seqs, n, acc) ==
  /\ \A k \in 2..n : acc[k] = acc[k - 1] \o seqs[k]
  /\ n > 0 => acc[1] = seqs[1] /\ acc[n] = FlattenSeq(seqs)

LEMMA FlattenUnfolds ==
  ASSUME NEW seqs, Len(seqs) \in Nat
  PROVE  \E acc : Unfolds(seqs, Len(seqs), acc)
<1> DEFINE n == Len(seqs)
           h == CHOOSE f : Flattens(seqs, n, f)
<1>1. Flattens(seqs, n, h)
  <2>1. \E f : Flattens(seqs, n, f)
    BY FlattenExists
  <2> QED
    BY Zenon, <2>1
<1>2. n # 0 => FlattenSeq(seqs) = h[n]
  BY Zenon DEF FlattenSeq, Flattens
<1>3. n \in Nat
  OBVIOUS
<1> HIDE DEF h, n
<1>4. \A i \in 1..n : h[i] = IF i = 1 THEN seqs[i] ELSE h[i - 1] \o seqs[i]
  BY <1>1, <1>3 DEF Flattens
<1>5. \A k \in 2..n : k \in 1..n /\ k # 1
  BY <1>3
<1>6. \A k \in 2..n : h[k] = h[k - 1] \o seqs[k]
  BY <1>4, <1>5
<1>7. n > 0 => n # 0 /\ h[1] = seqs[1]
  BY <1>3, <1>4
<1>8. Unfolds(seqs, n, h)
  BY <1>2, <1>6, <1>7 DEF Unfolds
<1> QED
  BY <1>8 DEF n

\* Adjacent slices of a sequence make up the sequence.
LEMMA FlattenSlices ==
  ASSUME NEW S, NEW R \in Seq(S), NEW n \in Nat, NEW c \in [0..n -> 0..Len(R)],
         c[0] = 0, c[n] = Len(R), \A k \in 1..n : c[k - 1] <= c[k],
         NEW pieces, Len(pieces) = n, n = 0 => pieces = <<>>,
         \A k \in 1..n : pieces[k] = SubSeq(R, c[k - 1] + 1, c[k])
  PROVE  FlattenSeq(pieces) = R
<1>0. Len(R) \in Nat
  OBVIOUS
<1>1. CASE n = 0
  <2>1. Len(R) = 0 /\ R = <<>>
    BY <1>1, EmptySeq
  <2> QED
    BY <1>1, <2>1, Zenon DEF FlattenSeq
<1>2. CASE n # 0
  <2>1. Len(pieces) \in Nat
    OBVIOUS
  <2>2. PICK acc : Unfolds(pieces, n, acc)
    <3>1. \E acc : Unfolds(pieces, Len(pieces), acc)
      BY <2>1, FlattenUnfolds
    <3> QED
      BY <3>1
  <2> DEFINE Got(k) == k # 0 => acc[k] = SubSeq(R, 1, c[k])
             G == {k \in Nat : Got(k)}
  <2>3. ASSUME NEW k \in 1..n, Got(k - 1) PROVE Got(k)
    <3> SUFFICES acc[k] = SubSeq(R, 1, c[k])
      OBVIOUS
    <3>0. k \in Nat /\ k \in 0..n /\ k - 1 \in 0..n
      OBVIOUS
    <3>1. c[k - 1] \in 0..Len(R) /\ c[k] \in 0..Len(R) /\ c[k - 1] <= c[k]
      BY <3>0
    <3>2. CASE k = 1
      <4>1. acc[1] = pieces[1]
        BY <2>2, <1>2 DEF Unfolds
      <4>2. pieces[1] = SubSeq(R, c[0] + 1, c[1]) /\ c[0] + 1 = 1
        <5>1. 1 \in 1..n /\ 1 - 1 = 0 /\ 0 + 1 = 1
          BY <1>2
        <5>2. pieces[1] = SubSeq(R, c[1 - 1] + 1, c[1])
          BY <5>1
        <5>3. c[1 - 1] = 0
          BY <5>1
        <5> QED
          BY <5>1, <5>2, <5>3
      <4> QED
        BY <4>1, <4>2, <3>2
    <3>3. CASE k # 1
      <4>1. acc[k - 1] = SubSeq(R, 1, c[k - 1])
        BY <3>0, <3>3, <2>3
      <4>2. acc[k] = acc[k - 1] \o pieces[k]
        <5>1. k \in 2..n
          BY <3>0, <3>3
        <5> QED
          BY <5>1, <2>2 DEF Unfolds
      <4>3. SubSeq(R, 1, c[k - 1]) \o SubSeq(R, c[k - 1] + 1, c[k]) = SubSeq(R, 1, c[k])
        <5>1. 1 \in 1..(Len(R) + 1) /\ c[k - 1] \in (1 - 1)..Len(R) /\ c[k] \in c[k - 1]..Len(R)
          BY <1>0, <3>1
        <5> QED
          BY <5>1, ConcatAdjacentSubSeq
      <4> QED
        BY <4>1, <4>2, <4>3
    <3> QED
      BY <3>2, <3>3
  <2>4. Got(0)
    OBVIOUS
  <2> HIDE DEF Got
  <2>5. n \in G
    <3>1. n \in 0..n
      OBVIOUS
    <3>2. \A k \in 1..n : k - 1 \in G => k \in G
      BY <2>3
    <3>3. 0 \in G
      BY <2>4
    <3> HIDE DEF G
    <3> QED
      BY <3>2, <3>3, <3>1, UpTo
  <2>6. acc[n] = SubSeq(R, 1, Len(R))
    BY <2>5, <1>2 DEF Got
  <2>7. acc[n] = FlattenSeq(pieces)
    BY <2>2, <1>2 DEF Unfolds
  <2> QED
    BY <2>6, <2>7, SubSeqFull
<1> QED
  BY <1>1, <1>2

\* The last of the sequences comes last.
LEMMA FlattenLast ==
  ASSUME NEW S, NEW n \in Nat, NEW seqs, Len(seqs) = n + 1, seqs[n + 1] \in Seq(S),
         NEW front, Len(front) = n, n = 0 => front = <<>>,
         \A k \in 1..n : front[k] = seqs[k]
  PROVE  FlattenSeq(seqs) = FlattenSeq(front) \o seqs[n + 1]
<1>1. PICK acc : Unfolds(seqs, n + 1, acc)
  <2>1. \E acc : Unfolds(seqs, Len(seqs), acc)
    BY FlattenUnfolds
  <2> QED
    BY <2>1
<1>2. PICK old : Unfolds(front, n, old)
  <2>1. \E old : Unfolds(front, Len(front), old)
    BY FlattenUnfolds
  <2> QED
    BY <2>1
<1>3. CASE n = 0
  <2>1. FlattenSeq(seqs) = seqs[1]
    BY <1>1, <1>3 DEF Unfolds
  <2>2. FlattenSeq(front) = <<>>
    BY <1>3, Zenon DEF FlattenSeq
  <2> QED
    BY <2>1, <2>2, <1>3, ConcatEmptySeq
<1>4. CASE n # 0
  <2> DEFINE Got(k) == k # 0 => acc[k] = old[k]
             G == {k \in Nat : Got(k)}
  <2>1. ASSUME NEW k \in 1..n, Got(k - 1) PROVE acc[k] = old[k]
    <3>1. CASE k = 1
      BY <3>1, <1>1, <1>2, <1>4 DEF Unfolds
    <3>2. CASE k # 1
      <4>1. k \in 2..n /\ k \in 2..(n + 1)
        BY <3>2
      <4>2. acc[k - 1] = old[k - 1] /\ front[k] = seqs[k]
        BY <3>2, <2>1
      <4> QED
        BY <4>1, <4>2, <1>1, <1>2 DEF Unfolds
    <3> QED
      BY <3>1, <3>2
  <2>2. Got(0)
    OBVIOUS
  <2> HIDE DEF Got
  <2>3. n \in G
    <3>1. n \in 0..n
      OBVIOUS
    <3>2. \A k \in 1..n : k - 1 \in G => k \in G
      BY <2>1 DEF Got
    <3>3. 0 \in G
      BY <2>2
    <3> HIDE DEF G
    <3> QED
      BY <3>1, <3>2, <3>3, UpTo
  <2>4. acc[n] = old[n] /\ old[n] = FlattenSeq(front)
    BY <2>3, <1>2, <1>4 DEF Got, Unfolds
  <2>5. acc[n + 1] = acc[n] \o seqs[n + 1] /\ acc[n + 1] = FlattenSeq(seqs)
    <3>1. n + 1 \in 2..(n + 1) /\ (n + 1) - 1 = n /\ n + 1 > 0
      BY <1>4
    <3>2. \A k \in 2..(n + 1) : acc[k] = acc[k - 1] \o seqs[k]
      BY <1>1 DEF Unfolds
    <3>3. acc[n + 1] = acc[(n + 1) - 1] \o seqs[n + 1]
      BY <3>1, <3>2
    <3> QED
      BY <3>1, <3>3, <1>1 DEF Unfolds
  <2> QED
    BY <2>4, <2>5
<1> QED
  BY <1>3, <1>4

-----------------------------------------------------------------------------
(* The order of a screen.                                                    *)

LEMMA RankedOrders ==
  ASSUME NEW d \in BOOLEAN
  PROVE  /\ \A a \in Instruments : ~Ranked(a, a, d)
         /\ \A a, b \in Instruments : a # b => Ranked(a, b, d) \/ Ranked(b, a, d)
         /\ \A a, b, c \in Instruments : Ranked(a, b, d) /\ Ranked(b, c, d) => Ranked(a, c, d)
<1> USE ScreenAssumption DEF Ranked
<1>1. \A a \in Instruments : a \in Nat /\ Volume[a] \in Nat \cup {None}
  OBVIOUS
<1>2. \A a \in Instruments : ~Ranked(a, a, d)
  BY <1>1
<1>3. \A a, b \in Instruments : a # b => Ranked(a, b, d) \/ Ranked(b, a, d)
  BY <1>1
<1>4. \A a, b, c \in Instruments : Ranked(a, b, d) /\ Ranked(b, c, d) => Ranked(a, c, d)
  BY <1>1
<1> QED
  BY <1>2, <1>3, <1>4

LEMMA FunctionIsSeq ==
  ASSUME NEW S, NEW n \in Nat, NEW f \in [1..n -> S]
  PROVE  f \in Seq(S) /\ Len(f) = n
<1>1. DOMAIN f = 1..n
  OBVIOUS
<1>2. Len(f) = n
  BY <1>1
<1> QED
  BY <1>2

LEMMA IntervalSize ==
  ASSUME NEW n \in Nat
  PROVE  IsFiniteSet(1..n) /\ Cardinality(1..n) = n
<1>1. 1 \in Int /\ n \in Int /\ (1 > n => n = 0) /\ n - 1 + 1 = n
  OBVIOUS
<1> QED
  BY <1>1, FS_Interval

\* The number of those ranked before a row is its position, one for each.
LEMMA Positions ==
  ASSUME NEW T, T \subseteq Instruments, IsFiniteSet(T), NEW d \in BOOLEAN,
         NEW order, order = Order(T, d)
  PROVE  /\ order \in Seq(Instruments) /\ Len(order) = Cardinality(T)
         /\ IsInjective(order) /\ Range(order) = T
<1> DEFINE B(r) == {s \in T : Ranked(s, r, d)}
           n == Cardinality(T)
           f == [r \in T |-> Cardinality(B(r)) + 1]
<1>1. n \in Nat
  BY FS_CardinalityType
<1>2. \A r \in T : IsFiniteSet(B(r)) /\ Cardinality(B(r)) \in Nat /\ Cardinality(B(r)) < n
  <2> SUFFICES ASSUME NEW r \in T
               PROVE  IsFiniteSet(B(r)) /\ Cardinality(B(r)) \in Nat /\ Cardinality(B(r)) < n
    OBVIOUS
  <2>1. B(r) \in SUBSET T /\ r \notin B(r)
    BY RankedOrders
  <2> HIDE DEF B
  <2>2. IsFiniteSet(B(r)) /\ Cardinality(B(r)) <= n /\ Cardinality(B(r)) # n
    BY <2>1, FS_Subset
  <2>3. Cardinality(B(r)) \in Nat
    BY <2>2, FS_CardinalityType
  <2> QED
    BY <1>1, <2>2, <2>3
<1>3. \A r, s \in T : Ranked(r, s, d) => Cardinality(B(r)) # Cardinality(B(s))
  <2> SUFFICES ASSUME NEW r \in T, NEW s \in T, Ranked(r, s, d)
               PROVE  Cardinality(B(r)) # Cardinality(B(s))
    OBVIOUS
  <2>1. B(r) \in SUBSET B(s) /\ r \in B(s) /\ r \notin B(r)
    BY RankedOrders
  <2>2. IsFiniteSet(B(s))
    BY <1>2
  <2> HIDE DEF B
  <2> QED
    BY <2>1, <2>2, FS_Subset
<1>4. f \in Injection(T, 1..n)
  <2>1. f \in [T -> 1..n]
    <3>1. \A r \in T : Cardinality(B(r)) + 1 \in 1..n
      <4> HIDE DEF B, n
      <4> QED
        BY <1>1, <1>2
    <3> HIDE DEF B, n
    <3> QED
      BY <3>1
  <2>2. \A r, s \in T : r # s => f[r] # f[s]
    <3> SUFFICES ASSUME NEW r \in T, NEW s \in T, r # s PROVE f[r] # f[s]
      OBVIOUS
    <3>1. Ranked(r, s, d) \/ Ranked(s, r, d)
      BY RankedOrders
    <3>2. Cardinality(B(r)) # Cardinality(B(s))
      BY <3>1, <1>3
    <3>3. Cardinality(B(r)) \in Nat /\ Cardinality(B(s)) \in Nat
      BY <1>2
    <3>4. f[r] = Cardinality(B(r)) + 1 /\ f[s] = Cardinality(B(s)) + 1
      OBVIOUS
    <3> HIDE DEF f, B
    <3> QED
      BY <3>2, <3>3, <3>4
  <2> HIDE DEF f
  <2> QED
    BY <2>1, <2>2 DEF Injection, IsInjective
<1>5. IsFiniteSet(1..n) /\ Cardinality(1..n) = n
  <2> HIDE DEF n
  <2> QED
    BY <1>1, IntervalSize
<1>6. f \in Surjection(T, 1..n)
  <2> HIDE DEF f
  <2> QED
    BY <1>4, <1>5, FS_Injection
<1>7. \A i \in 1..n : \E r \in T : Cardinality(B(r)) = i - 1
  <2> SUFFICES ASSUME NEW i \in 1..n PROVE \E r \in T : Cardinality(B(r)) = i - 1
    OBVIOUS
  <2>1. PICK r \in T : f[r] = i
    <3> HIDE DEF f
    <3> QED
      BY <1>6 DEF Surjection
  <2>2. Cardinality(B(r)) + 1 = i /\ Cardinality(B(r)) \in Nat
    BY <2>1, <1>2
  <2>3. Cardinality(B(r)) = i - 1
    <3> HIDE DEF B
    <3> QED
      BY <2>2
  <2> QED
    BY <2>3
<1>8. \A i \in 1..n : order[i] \in T /\ Cardinality(B(order[i])) = i - 1
  BY <1>7 DEF Order
<1>9. order \in Seq(Instruments) /\ DOMAIN order = 1..n
  <2>2. \A i \in 1..n : order[i] \in Instruments
    BY <1>8
  <2>1. DOMAIN order = 1..n /\ order = [i \in 1..n |-> order[i]]
    <3> DEFINE e(i) == CHOOSE r \in T : Cardinality({s \in T : Ranked(s, r, d)}) = i - 1
    <3>1. order = [i \in 1..n |-> e(i)]
      BY Zenon DEF Order
    <3> HIDE DEF e, n
    <3> QED
      BY <3>1
  <2> HIDE DEF n, B
  <2>3. order \in [1..n -> Instruments]
    BY <2>1, <2>2
  <2> QED
    BY <1>1, <2>1, <2>3, FunctionIsSeq
<1>10. Len(order) = n
  BY <1>1, <1>9
<1>11. \A a, b \in DOMAIN order : order[a] = order[b] => a = b
  <2> SUFFICES ASSUME NEW a \in 1..n, NEW b \in 1..n, order[a] = order[b] PROVE a = b
    BY <1>9
  <2>1. a - 1 = b - 1
    BY <1>8
  <2> QED
    BY <2>1, <1>1
<1>12. \A r \in T : \E i \in DOMAIN order : order[i] = r
  <2> SUFFICES ASSUME NEW r \in T PROVE \E i \in 1..n : order[i] = r
    BY <1>9
  <2>1. f[r] = Cardinality(B(r)) + 1 /\ f[r] \in 1..n /\ Cardinality(B(r)) \in Nat
    <3>1. f[r] = Cardinality(B(r)) + 1
      OBVIOUS
    <3>2. Cardinality(B(r)) \in Nat /\ Cardinality(B(r)) < n
      BY <1>2
    <3> HIDE DEF f, B, n
    <3> QED
      BY <1>1, <3>1, <3>2
  <2>2. order[f[r]] \in T /\ Cardinality(B(order[f[r]])) = Cardinality(B(r))
    <3>1. order[f[r]] \in T /\ Cardinality(B(order[f[r]])) = f[r] - 1
      BY <1>8, <2>1
    <3> HIDE DEF f, B
    <3> QED
      BY <2>1, <3>1
  <2>3. order[f[r]] = r
    <3> HIDE DEF f, B
    <3> QED
      BY <2>2, <1>3, RankedOrders
  <2> QED
    BY <2>1, <2>3
<1> HIDE DEF n
<1>13. Range(order) = T
  BY <1>8, <1>9, <1>12 DEF Range
<1> QED
  BY <1>9, <1>10, <1>11, <1>13 DEF n, IsInjective

LEMMA SmallerOf ==
  ASSUME NEW a \in Int, NEW b \in Int
  PROVE  Min({a, b}) = IF a <= b THEN a ELSE b
<1>1. \A x \in {a, b} : (\A y \in {a, b} : x <= y) <=> x = (IF a <= b THEN a ELSE b)
  OBVIOUS
<1>2. (IF a <= b THEN a ELSE b) \in {a, b}
  OBVIOUS
<1> QED
  BY <1>1, <1>2 DEF Min

LEMMA Multiples ==
  ASSUME NEW a \in Nat, NEW p \in Nat \ {0}
  PROVE  /\ a * p \in Nat /\ a <= a * p /\ (a + 1) * p = a * p + p
         /\ a # 0 => (a - 1) * p \in Nat /\ a * p = (a - 1) * p + p
<1> QED
  OBVIOUS

\* Multiples are as far apart as what they are multiples of.
LEMMA Apart ==
  ASSUME NEW a \in Nat, NEW b \in Nat, NEW p \in Nat \ {0}
  PROVE  /\ a * p \in Nat /\ b * p \in Nat
         /\ a < b => a * p + p <= b * p
         /\ a <= b => a * p <= b * p
         /\ a * p = b * p => a = b
<1>1. a * p \in Nat /\ b * p \in Nat
  BY Multiples
<1>2. \A c, d \in Nat : c < d => c * p + p <= d * p
  <2> SUFFICES ASSUME NEW c \in Nat, NEW d \in Nat, c < d PROVE c * p + p <= d * p
    OBVIOUS
  <2>1. d - c - 1 \in Nat /\ d = c + (d - c - 1) + 1
    OBVIOUS
  <2>2. (d - c - 1) * p \in Nat /\ c * p \in Nat
    BY <2>1, Multiples
  <2>3. (c + (d - c - 1) + 1) * p = c * p + (d - c - 1) * p + p
    <3> DEFINE e == d - c - 1
    <3>1. e \in Nat
      BY <2>1
    <3> HIDE DEF e
    <3>2. (c + e + 1) * p = c * p + e * p + p
      BY <3>1
    <3> QED
      BY <3>2 DEF e
  <2> QED
    BY <2>1, <2>2, <2>3
<1>3. a < b => a * p + p <= b * p
  BY <1>2
<1>4. b < a => b * p + p <= a * p
  BY <1>2
<1> QED
  BY <1>1, <1>3, <1>4

LEMMA OrderSound ==
  ASSUME NEW rows \in Seq(Instruments), NEW q \in Queries,
         NEW order, order = Order(Selected(rows, q), q.descending)
  PROVE  /\ order \in Seq(Instruments) /\ IsInjective(order)
         /\ Range(order) = Selected(rows, q) /\ Len(order) <= Len(rows)
<1> DEFINE T == Selected(rows, q)
<1>1. IsFiniteSet(Range(rows)) /\ Cardinality(Range(rows)) <= Len(rows)
  <2>1. Len(rows) \in Nat /\ DOMAIN rows = 1..Len(rows)
    OBVIOUS
  <2>2. IsFiniteSet(1..Len(rows)) /\ Cardinality(1..Len(rows)) = Len(rows)
    BY <2>1, IntervalSize
  <2>3. rows \in Surjection(DOMAIN rows, Range(rows))
    <3>1. rows = [i \in DOMAIN rows |-> rows[i]]
      BY <2>1
    <3> QED
      BY <3>1 DEF Surjection, Range
  <2> QED
    BY <2>1, <2>2, <2>3, FS_Surjection
<1>2. T \in SUBSET Range(rows)
  BY DEF Selected
<1>3. T \subseteq Instruments /\ IsFiniteSet(T) /\ Cardinality(T) <= Len(rows)
  <2>1. Range(rows) \subseteq Instruments
    BY RangeOfSeq
  <2>2. IsFiniteSet(T) /\ Cardinality(T) <= Cardinality(Range(rows))
    <3> HIDE DEF T
    <3> QED
      BY <1>1, <1>2, FS_Subset
  <2>3. Cardinality(T) \in Nat /\ Cardinality(Range(rows)) \in Nat /\ Len(rows) \in Nat
    BY <1>1, <2>2, FS_CardinalityType
  <2> HIDE DEF T
  <2> QED
    BY <1>1, <1>2, <2>1, <2>2, <2>3
<1>4. q.descending \in BOOLEAN
  BY ScreenAssumption
<1> QED
  BY <1>3, <1>4, Positions DEF T

\* The screens of a query, one after the other, are the rows in their order.
LEMMA ScreensInOrder ==
  ASSUME NEW rows \in Seq(Instruments), NEW q \in Queries
  PROVE  Screens(rows, q) = Order(Selected(rows, q), q.descending)
<1> DEFINE order == Order(Selected(rows, q), q.descending)
           n == Len(rows)
           l == Len(order)
           c == [i \in 0..n |-> Min({i * ScreenSize, l})]
           E(i) == Screen(rows, [q EXCEPT !.offset = (i - 1) * ScreenSize])
           pieces == [i \in 1..n |-> E(i)]
<1>1. order \in Seq(Instruments) /\ l <= n /\ l \in Nat /\ n \in Nat
  <2>1. order = Order(Selected(rows, q), q.descending)
    OBVIOUS
  <2> HIDE DEF order
  <2> QED
    BY <2>1, OrderSound
<1>2. ScreenSize \in Nat \ {0}
  BY ScreenAssumption
<1>3. ASSUME NEW i \in Nat
      PROVE  /\ i * ScreenSize \in Nat
             /\ Min({i * ScreenSize, l}) = IF i * ScreenSize <= l THEN i * ScreenSize ELSE l
  <2> HIDE DEF l
  <2>1. i * ScreenSize \in Nat
    BY <1>2, Multiples
  <2> QED
    BY <1>1, <2>1, SmallerOf
<1>4. \A i \in 0..n : i \in Nat /\ c[i] = IF i * ScreenSize <= l THEN i * ScreenSize ELSE l
  <2> HIDE DEF l, n
  <2> QED
    BY <1>1, <1>3
<1>5. c \in [0..n -> 0..l]
  <2>1. \A i \in 0..n : Min({i * ScreenSize, l}) \in 0..l
    <3> HIDE DEF l, n
    <3> QED
      BY <1>1, <1>3
  <2> HIDE DEF l, n
  <2> QED
    BY <2>1
<1>6. c[0] = 0
  <2> HIDE DEF l, n, c
  <2>1. 0 \in 0..n /\ 0 * ScreenSize = 0
    BY <1>1, <1>2
  <2> QED
    BY <1>1, <1>4, <2>1
<1>7. c[n] = l
  <2> HIDE DEF l, n, c
  <2>1. n \in 0..n /\ n <= n * ScreenSize /\ n * ScreenSize \in Nat
    BY <1>1, <1>2, Multiples
  <2> QED
    BY <1>1, <1>4, <2>1
<1>8. ASSUME NEW i \in 1..n
      PROVE  c[i - 1] <= c[i] /\ E(i) = SubSeq(order, c[i - 1] + 1, c[i])
  <2>1. i \in 0..n /\ i - 1 \in 0..n /\ i \in Nat /\ i # 0 /\ i - 1 \in Nat
    <3> HIDE DEF n
    <3> QED
      BY <1>1
  <2>2. (i - 1) * ScreenSize \in Nat /\ i * ScreenSize = (i - 1) * ScreenSize + ScreenSize
    BY <1>2, <2>1, Multiples
  <2>3. c[i - 1] <= c[i] /\ c[i - 1] \in Nat
        /\ Min({c[i - 1] + ScreenSize, l}) = c[i]
    <3>1. /\ c[i - 1] = IF (i - 1) * ScreenSize <= l THEN (i - 1) * ScreenSize ELSE l
          /\ c[i] = IF i * ScreenSize <= l THEN i * ScreenSize ELSE l
      <4> HIDE DEF l, n, c
      <4> QED
        BY <1>4, <2>1
    <3> HIDE DEF l, n, c
    <3>2. c[i - 1] \in Nat /\ c[i - 1] <= c[i]
      BY <1>1, <1>2, <2>2, <3>1
    <3>3. Min({c[i - 1] + ScreenSize, l})
            = IF c[i - 1] + ScreenSize <= l THEN c[i - 1] + ScreenSize ELSE l
      BY <1>1, <1>2, <3>2, SmallerOf
    <3> QED
      BY <1>1, <1>2, <2>2, <3>1, <3>2, <3>3
  <2> DEFINE p == [q EXCEPT !.offset = (i - 1) * ScreenSize]
  <2>4. p.min = q.min /\ p.descending = q.descending /\ p.offset = (i - 1) * ScreenSize
    BY ScreenAssumption
  <2>5. Order(Selected(rows, p), p.descending) = order
    <3>1. Selected(rows, p) = Selected(rows, q)
      <4> HIDE DEF p
      <4> QED
        BY <2>4, Zenon DEF Selected
    <3> HIDE DEF p
    <3> QED
      BY <2>4, <3>1
  <2> DEFINE ranked == Order(Selected(rows, p), p.descending)
  <2>6. Screen(rows, p) = LET start == Min({p.offset, Len(ranked)})
                          IN SubSeq(ranked, start + 1, Min({start + ScreenSize, Len(ranked)}))
    <3> HIDE DEF p
    <3> QED
      BY Zenon DEF Screen
  <2>7. Min({p.offset, l}) = c[i - 1]
    <3> HIDE DEF l, n, p
    <3> QED
      BY <2>1, <2>4
  <2>8. E(i) = SubSeq(order, c[i - 1] + 1, c[i])
    <3>1. E(i) = Screen(rows, p)
      OBVIOUS
    <3> HIDE DEF E, p, c, order
    <3> QED
      BY <2>3, <2>5, <2>6, <2>7, <3>1
  <2> QED
    BY <2>3, <2>8
<1>9. Screens(rows, q) = FlattenSeq(pieces)
  BY Zenon DEF Screens
<1>10. Len(pieces) = n /\ (n = 0 => pieces = <<>>) /\ \A i \in 1..n : pieces[i] = E(i)
  <2> HIDE DEF E, n
  <2> QED
    BY <1>1
<1>11. FlattenSeq(pieces) = order
  <2>1. \A i \in 1..n : pieces[i] = SubSeq(order, c[i - 1] + 1, c[i])
    BY <1>8, <1>10
  <2>2. \A i \in 1..n : c[i - 1] <= c[i]
    BY <1>8
  <2> HIDE DEF E, n, pieces, c, order
  <2> QED
    BY <1>1, <1>5, <1>6, <1>7, <1>10, <2>1, <2>2, FlattenSlices
<1> QED
  BY <1>9, <1>11

\* Every screen of a snapshot that repeats nothing.
LEMMA ScreensSound ==
  ASSUME NEW rows \in Seq(Instruments), NEW q \in Queries
  PROVE  IsInjective(Screens(rows, q)) /\ Range(Screens(rows, q)) = Selected(rows, q)
<1> QED
  BY ScreensInOrder, OrderSound

-----------------------------------------------------------------------------
(* The pages.                                                                *)

Provenance == [feed : {s.feed : s \in Sources}, id : {s.id : s \in Sources},
               rest : {s.rest : s \in Sources}]

AnyPage == [total : Nat, source : Provenance,
            offset : Nat, quotes : Seq(Instruments)]

\* A page of a source, or that page without its first row.
PageOf(s, p) ==
    /\ p.total = Len(s.rows) /\ p.source.feed = s.feed /\ p.source.id = s.id
    /\ \/ p.quotes = Listed(s, p.offset)
       \/ Listed(s, p.offset) # <<>> /\ p.quotes = Tail(Listed(s, p.offset))

LEMMA ListedFacts ==
  ASSUME NEW s \in Sources, NEW o \in Nat
  PROVE  /\ Listed(s, o) \in Seq(Instruments)
         /\ o <= Len(s.rows) => Len(Listed(s, o)) = Min({PageSize, Len(s.rows) - o})
         /\ Len(s.rows) \in Nat
<1> DEFINE l == Len(s.rows)
           last == Min({o + PageSize, l})
<1>1. s.rows \in Seq(Instruments) /\ PageSize \in Nat \ {0} /\ l \in Nat
  BY ScreenAssumption
<1>2. last = IF o + PageSize <= l THEN o + PageSize ELSE l
  <2> HIDE DEF l
  <2> QED
    BY <1>1, SmallerOf
<1>3. Min({PageSize, l - o}) = IF PageSize <= l - o THEN PageSize ELSE l - o
  <2> HIDE DEF l
  <2> QED
    BY <1>1, SmallerOf
<1>4. \A i \in (o + 1)..last : s.rows[i] \in Instruments
  <2> SUFFICES ASSUME NEW i \in (o + 1)..last PROVE s.rows[i] \in Instruments
    OBVIOUS
  <2>1. i \in 1..l
    <3> HIDE DEF l, last
    <3> QED
      BY <1>1, <1>2
  <2> QED
    BY <1>1, <2>1
<1>5. Listed(s, o) = SubSeq(s.rows, o + 1, last)
  BY Zenon DEF Listed
<1>6. last \in Int /\ o + 1 \in Int
  <2> HIDE DEF l, last
  <2> QED
    BY <1>1, <1>2
<1>7. /\ SubSeq(s.rows, o + 1, last) \in Seq(Instruments)
      /\ Len(SubSeq(s.rows, o + 1, last)) = IF o + 1 <= last THEN last - (o + 1) + 1 ELSE 0
  <2> HIDE DEF l, last
  <2> QED
    BY <1>4, <1>6, SubSeqProperties
<1> HIDE DEF l, last
<1>8. o <= l => Len(Listed(s, o)) = Min({PageSize, l - o})
  BY <1>1, <1>2, <1>3, <1>5, <1>6, <1>7
<1> QED
  BY <1>1, <1>5, <1>7, <1>8 DEF l

LEMMA PageFacts ==
  ASSUME NEW m, NEW o \in Nat, NEW p \in Pages(m, o)
  PROVE  p \in AnyPage /\ p.offset = o /\ \E s \in Sources : s.market = m /\ PageOf(s, p)
<1>1. PICK s \in Sources : /\ s.market = m
                           /\ \/ p = Page(s, o, Listed(s, o))
                              \/ /\ Listed(s, o) # <<>>
                                 /\ p = [Page(s, o, Listed(s, o)) EXCEPT !.quotes = Tail(@)]
  <2>1. PICK w \in {Page(t, o, Listed(t, o)) : t \in {u \in Sources : u.market = m}} :
          p = w \/ (w.quotes # <<>> /\ p = [w EXCEPT !.quotes = Tail(@)])
    BY DEF Pages
  <2>2. PICK s \in Sources : s.market = m /\ w = Page(s, o, Listed(s, o))
    BY <2>1
  <2>3. w.quotes = Listed(s, o)
    BY <2>2 DEF Page
  <2> QED
    BY <2>1, <2>2, <2>3
<1>2. Listed(s, o) \in Seq(Instruments) /\ Len(s.rows) \in Nat
  BY ListedFacts
<1>3. Listed(s, o) # <<>> => Tail(Listed(s, o)) \in Seq(Instruments)
  BY <1>2, HeadTailProperties
<1>4. /\ p.total = Len(s.rows) /\ p.offset = o
      /\ p.source = [feed |-> s.feed, id |-> s.id, rest |-> s.rest]
      /\ \/ p.quotes = Listed(s, o)
         \/ Listed(s, o) # <<>> /\ p.quotes = Tail(Listed(s, o))
  BY <1>1 DEF Page
<1>5. p \in AnyPage
  <2> DEFINE source == [feed |-> s.feed, id |-> s.id, rest |-> s.rest]
  <2>1. source \in Provenance
    BY DEF Provenance
  <2>2. PICK quotes \in Seq(Instruments) :
          p = [total |-> Len(s.rows), source |-> source, offset |-> o, quotes |-> quotes]
    BY <1>1, <1>2, <1>3 DEF Page
  <2> HIDE DEF source
  <2> QED
    BY <1>2, <2>1, <2>2 DEF AnyPage
<1>6. PageOf(s, p)
  BY <1>4 DEF PageOf
<1> QED
  BY <1>1, <1>4, <1>5, <1>6

-----------------------------------------------------------------------------
(* The pages put together.                                                   *)

LEMMA FlattenTyped ==
  ASSUME NEW S, NEW n \in Nat, NEW pieces, Len(pieces) = n, n = 0 => pieces = <<>>,
         \A k \in 1..n : pieces[k] \in Seq(S)
  PROVE  FlattenSeq(pieces) \in Seq(S)
<1>1. CASE n = 0
  <2>1. FlattenSeq(pieces) = <<>>
    BY <1>1, Zenon DEF FlattenSeq
  <2> QED
    BY <2>1, EmptySeq
<1>2. CASE n # 0
  <2>1. PICK acc : Unfolds(pieces, n, acc)
    <3>1. \E acc : Unfolds(pieces, Len(pieces), acc)
      BY FlattenUnfolds
    <3> QED
      BY <3>1
  <2> DEFINE G == {k \in Nat : k # 0 => acc[k] \in Seq(S)}
  <2>2. ASSUME NEW k \in 1..n, k # 1 => acc[k - 1] \in Seq(S) PROVE acc[k] \in Seq(S)
    <3>1. CASE k = 1
      BY <3>1, <2>1, <1>2 DEF Unfolds
    <3>2. CASE k # 1
      <4>1. k \in 2..n /\ acc[k - 1] \in Seq(S) /\ pieces[k] \in Seq(S)
        BY <3>2, <2>2
      <4>2. acc[k] = acc[k - 1] \o pieces[k]
        BY <4>1, <2>1 DEF Unfolds
      <4>3. acc[k - 1] \o pieces[k] \in Seq(S)
        BY <4>1, ConcatProperties
      <4> QED
        BY <4>2, <4>3
    <3> QED
      BY <3>1, <3>2
  <2>3. 0 \in G /\ \A k \in 1..n : k - 1 \in G => k \in G
    BY <2>2
  <2>4. n \in G
    <3>1. n \in 0..n
      OBVIOUS
    <3> HIDE DEF G
    <3> QED
      BY <2>3, <3>1, UpTo
  <2>5. acc[n] \in Seq(S)
    BY <2>4, <1>2
  <2> QED
    BY <2>1, <2>5, <1>2 DEF Unfolds
<1> QED
  BY <1>1, <1>2

\* One page at each of the first offsets.
Laid(P, n) ==
    /\ IsFiniteSet(P) /\ Cardinality(P) = n
    /\ \A k \in 1..n : \E p \in P : p.offset = (k - 1) * PageSize
    /\ \A p, q \in P : p.offset = q.offset => p = q
    /\ \A p \in P : p.quotes \in Seq(Instruments) /\ \E k \in 1..n : p.offset = (k - 1) * PageSize

\* The quotes of the pages, in their order.
Quoted(P, n, pieces) ==
    /\ Len(pieces) = n /\ (n = 0 => pieces = <<>>) /\ Assembled(P) = FlattenSeq(pieces)
    /\ \A k \in 1..n : pieces[k] \in Seq(Instruments)
    /\ \A k \in 1..n : \E p \in P : p.offset = (k - 1) * PageSize /\ pieces[k] = p.quotes

LEMMA AssembledParts ==
  ASSUME NEW P, NEW n \in Nat, Laid(P, n)
  PROVE  \E pieces : Quoted(P, n, pieces)
<1> DEFINE E(k) == (CHOOSE p \in P : p.offset = (k - 1) * PageSize).quotes
           pieces == [k \in 1..n |-> E(k)]
<1>1. Assembled(P) = FlattenSeq(pieces)
  <2>1. Cardinality(P) = n
    BY DEF Laid
  <2> QED
    BY <2>1, Zenon DEF Assembled
<1>2. \A k \in 1..n : \E p \in P : p.offset = (k - 1) * PageSize /\ E(k) = p.quotes
  <2> SUFFICES ASSUME NEW k \in 1..n
               PROVE  \E p \in P : p.offset = (k - 1) * PageSize /\ E(k) = p.quotes
    OBVIOUS
  <2>1. \E p \in P : p.offset = (k - 1) * PageSize
    BY DEF Laid
  <2> QED
    BY <2>1, Zenon
<1> HIDE DEF E
<1>3. Len(pieces) = n /\ (n = 0 => pieces = <<>>) /\ \A k \in 1..n : pieces[k] = E(k)
  OBVIOUS
<1> HIDE DEF pieces
<1>4. \A k \in 1..n : \E p \in P : p.offset = (k - 1) * PageSize /\ pieces[k] = p.quotes
  BY <1>2, <1>3, Zenon
<1>5. \A k \in 1..n : pieces[k] \in Seq(Instruments)
  <2>1. \A p \in P : p.quotes \in Seq(Instruments)
    BY DEF Laid
  <2> QED
    BY <1>4, <2>1, Zenon
<1>6. Quoted(P, n, pieces)
  BY <1>1, <1>3, <1>4, <1>5, Zenon DEF Quoted
<1> QED
  BY <1>6

LEMMA AssembledTyped ==
  ASSUME NEW P, NEW n \in Nat, Laid(P, n)
  PROVE  Assembled(P) \in Seq(Instruments)
<1>1. PICK pieces : Quoted(P, n, pieces)
  BY AssembledParts
<1> QED
  BY <1>1, FlattenTyped DEF Quoted

\* The last page comes last.
LEMMA AssembledLast ==
  ASSUME NEW P, NEW n \in Nat, Laid(P, n + 1), NEW last \in P, last.offset = n * PageSize,
         NEW front, front = {p \in P : p.offset < last.offset}
  PROVE  Assembled(P) = Assembled(front) \o last.quotes
<1>1. PageSize \in Nat \ {0}
  BY ScreenAssumption
<1>2. \A k \in 1..n : (k - 1) * PageSize \in Nat /\ (k - 1) * PageSize < n * PageSize
  <2> SUFFICES ASSUME NEW k \in 1..n
               PROVE  (k - 1) * PageSize \in Nat /\ (k - 1) * PageSize < n * PageSize
    OBVIOUS
  <2>1. k - 1 \in Nat /\ k - 1 < n
    OBVIOUS
  <2>2. /\ (k - 1) * PageSize \in Nat /\ n * PageSize \in Nat
        /\ (k - 1) * PageSize + PageSize <= n * PageSize
    BY <1>1, <2>1, Apart
  <2> QED
    BY <1>1, <2>2
<1>3. /\ IsFiniteSet(P) /\ Cardinality(P) = n + 1
      /\ \A k \in 1..(n + 1) : \E p \in P : p.offset = (k - 1) * PageSize
      /\ \A p, q \in P : p.offset = q.offset => p = q
      /\ \A p \in P : /\ p.quotes \in Seq(Instruments)
                      /\ \E k \in 1..(n + 1) : p.offset = (k - 1) * PageSize
  BY DEF Laid
<1>4. ASSUME NEW p \in P
      PROVE  \/ p = last /\ p \notin front
             \/ p \in front /\ \E k \in 1..n : p.offset = (k - 1) * PageSize
  <2>1. PICK k \in 1..(n + 1) : p.offset = (k - 1) * PageSize
    BY <1>3
  <2>2. CASE k = n + 1
    <3>1. p.offset = n * PageSize /\ n * PageSize \in Int
      BY <1>1, <2>1, <2>2
    <3>2. p = last
      BY <1>3, <3>1
    <3> QED
      BY <3>1, <3>2
  <2>3. CASE k \in 1..n
    BY <1>2, <2>1, <2>3
  <2> QED
    BY <2>2, <2>3
<1>5. front = P \ {last}
  <2>1. front \subseteq P
    OBVIOUS
  <2>2. last \notin front
    <3>1. last.offset \in Int
      BY <1>1
    <3> QED
      BY <3>1
  <2> QED
    BY <1>4, <2>1, <2>2
<1>6. Laid(front, n)
  <2>1. IsFiniteSet(front) /\ Cardinality(front) = n
    <3>1. IsFiniteSet(P \ {last}) /\ Cardinality(P \ {last}) = Cardinality(P) - 1
      BY <1>3, FS_RemoveElement
    <3>2. Cardinality(P \ {last}) = n
      BY <1>3, <3>1
    <3> QED
      BY <1>5, <3>1, <3>2, Zenon
  <2>2. ASSUME NEW k \in 1..n PROVE \E p \in front : p.offset = (k - 1) * PageSize
    <3>1. PICK p \in P : p.offset = (k - 1) * PageSize
      BY <1>3
    <3> QED
      BY <3>1, <1>2
  <2>3. \A p \in front : p \in P /\ \E k \in 1..n : p.offset = (k - 1) * PageSize
    BY <1>4
  <2> QED
    BY <1>3, <2>1, <2>2, <2>3 DEF Laid
<1>7. PICK old : Quoted(front, n, old)
  BY <1>6, AssembledParts
<1>8. PICK pieces : Quoted(P, n + 1, pieces)
  BY AssembledParts
<1>9. \A k \in 1..n : old[k] = pieces[k]
  <2> SUFFICES ASSUME NEW k \in 1..n PROVE old[k] = pieces[k]
    OBVIOUS
  <2>1. PICK p \in front : p.offset = (k - 1) * PageSize /\ old[k] = p.quotes
    BY <1>7 DEF Quoted
  <2>2. k \in 1..(n + 1) /\ p \in P
    BY <1>5
  <2>3. PICK q \in P : q.offset = (k - 1) * PageSize /\ pieces[k] = q.quotes
    BY <1>8, <2>2 DEF Quoted
  <2> QED
    BY <1>3, <2>1, <2>2, <2>3
<1>10. pieces[n + 1] = last.quotes /\ pieces[n + 1] \in Seq(Instruments)
  <2>1. n + 1 \in 1..(n + 1) /\ (n + 1) - 1 = n
    OBVIOUS
  <2>2. PICK q \in P : q.offset = ((n + 1) - 1) * PageSize /\ pieces[n + 1] = q.quotes
    BY <1>8, <2>1 DEF Quoted
  <2>3. q = last
    BY <1>3, <2>1, <2>2
  <2> QED
    BY <1>3, <2>2, <2>3
<1>11. FlattenSeq(pieces) = FlattenSeq(old) \o pieces[n + 1]
  <2>1. Len(pieces) = n + 1 /\ Len(old) = n /\ (n = 0 => old = <<>>)
    BY <1>7, <1>8 DEF Quoted
  <2> QED
    BY <1>9, <1>10, <2>1, FlattenLast
<1> QED
  BY <1>7, <1>8, <1>10, <1>11 DEF Quoted

-----------------------------------------------------------------------------
(* A load.                                                                   *)

\* The pages a load has, all of its source and at offsets of their own.
Fetched(m, l) ==
    /\ l = [total |-> l.total, source |-> l.source, pages |-> l.pages, flying |-> l.flying]
    /\ l.total \in Nat \ {0} /\ l.pages \in Seq(AnyPage) /\ l.pages # <<>>
    /\ l.pages[1].offset = 0
    /\ \A i \in 1..Len(l.pages) :
          /\ l.pages[i].source = l.source /\ l.pages[i].offset < l.total
          /\ \E k \in Nat : l.pages[i].offset = k * PageSize
          /\ \E s \in Sources : s.market = m /\ PageOf(s, l.pages[i])
    /\ \A i, j \in 1..Len(l.pages) : l.pages[i].offset = l.pages[j].offset => i = j
    /\ l.flying = Launched(l.total, Len(l.pages)) \ {q.offset : q \in Range(l.pages)}

\* With no request in flight there is a page at every offset: the requests
\* that may be in flight are more than the pages answered.
LEMMA EveryOffset ==
  ASSUME NEW m, NEW l, Fetched(m, l), l.flying = {}, NEW k \in Nat, k * PageSize < l.total
  PROVE  \E i \in 1..Len(l.pages) : l.pages[i].offset = k * PageSize
<1> DEFINE n == Len(l.pages)
           At(j) == \E i \in 1..n : l.pages[i].offset = j * PageSize
<1>1. /\ n \in Nat \ {0} /\ PageSize \in Nat \ {0} /\ Concurrency \in Nat \ {0}
      /\ l.total \in Nat \ {0} /\ DOMAIN l.pages = 1..n
  BY ScreenAssumption, EmptySeq DEF Fetched
<1>2. ASSUME NEW j \in Nat, j * PageSize < l.total, j < n + Concurrency
      PROVE  At(j)
  <2>1. CASE j = 0
    <3>1. j * PageSize = 0
      BY <1>1, <2>1
    <3> QED
      BY <1>1, <3>1 DEF Fetched
  <2>2. CASE j # 0
    <3>1. j * PageSize \in Nat /\ j <= j * PageSize
      BY <1>1, Multiples
    <3>2. j \in 1..l.total
      <4> HIDE DEF n
      <4> QED
        BY <1>1, <1>2, <2>2, <3>1
    <3>3. j * PageSize < (n + Concurrency) * PageSize
      <4> HIDE DEF n
      <4>1. n + Concurrency \in Nat
        BY <1>1
      <4>2. /\ (n + Concurrency) * PageSize \in Nat
            /\ j * PageSize + PageSize <= (n + Concurrency) * PageSize
        BY <1>1, <1>2, <4>1, Apart
      <4> QED
        BY <1>1, <3>1, <4>2
    <3>4. j * PageSize \in Launched(l.total, n)
      <4> HIDE DEF n
      <4> QED
        BY <1>2, <3>2, <3>3 DEF Launched
    <3>5. j * PageSize \in {q.offset : q \in Range(l.pages)}
      BY <3>4 DEF Fetched
    <3>6. PICK i \in DOMAIN l.pages : l.pages[i].offset = j * PageSize
      BY <3>5 DEF Range
    <3> QED
      BY <1>1, <3>6
  <2> QED
    BY <2>1, <2>2
<1> HIDE DEF n
<1>3. CASE k < n + Concurrency
  BY <1>2, <1>3 DEF n
<1>4. CASE ~(k < n + Concurrency)
  <2>1. ASSUME NEW j \in 0..n PROVE At(j)
    <3>1. j \in Nat /\ j <= k /\ j < n + Concurrency
      BY <1>1, <1>4
    <3>2. j * PageSize \in Nat /\ k * PageSize \in Nat /\ j * PageSize <= k * PageSize
      BY <1>1, <3>1, Apart
    <3>3. j * PageSize < l.total
      BY <1>1, <3>2
    <3> QED
      BY <1>2, <3>1, <3>3
  <2> DEFINE f == [j \in 0..n |-> CHOOSE i \in 1..n : l.pages[i].offset = j * PageSize]
  <2>2. \A j \in 0..n : f[j] \in 1..n /\ l.pages[f[j]].offset = j * PageSize
    BY <2>1
  <2>3. f \in [0..n -> 1..n]
    <3>1. f = [j \in 0..n |-> f[j]]
      OBVIOUS
    <3> HIDE DEF f
    <3> QED
      BY <2>2, <3>1
  <2> HIDE DEF f
  <2>4. \A i, j \in 0..n : f[i] = f[j] => i = j
    <3> SUFFICES ASSUME NEW i \in 0..n, NEW j \in 0..n, f[i] = f[j] PROVE i = j
      OBVIOUS
    <3>1. i * PageSize = j * PageSize
      BY <2>2
    <3>2. i \in Nat /\ j \in Nat
      BY <1>1
    <3> QED
      BY <1>1, <3>1, <3>2, Apart
  <2>5. f \in Injection(0..n, 1..n)
    <3>1. \A i, j \in DOMAIN f : f[i] = f[j] => i = j
      BY <2>3, <2>4
    <3> QED
      BY <2>3, <3>1 DEF Injection, IsInjective
  <2>6. IsFiniteSet(1..n) /\ Cardinality(1..n) = n
    BY <1>1, IntervalSize
  <2>7. Cardinality(0..n) = n + 1
    <3>1. 0 \in Int /\ n \in Int /\ ~(0 > n) /\ n - 0 + 1 = n + 1
      BY <1>1
    <3> QED
      BY <3>1, FS_Interval
  <2>8. Cardinality(0..n) <= Cardinality(1..n)
    BY <2>5, <2>6, FS_Injection
  <2> QED
    BY <1>1, <2>6, <2>7, <2>8
<1> QED
  BY <1>3, <1>4

\* The number of pages.
LEMMA PagesOf ==
  ASSUME NEW total \in Nat \ {0}
  PROVE  \E n \in Nat : n * PageSize < total /\ total <= (n + 1) * PageSize
<1>1. PageSize \in Nat \ {0}
  BY ScreenAssumption
<1> SUFFICES ASSUME \A n \in Nat : n * PageSize < total => (n + 1) * PageSize < total
             PROVE  FALSE
  <2>1. \A n \in Nat : (n + 1) * PageSize \in Nat
    BY <1>1, Multiples
  <2> QED
    BY <2>1
<1> DEFINE G == {n \in Nat : n * PageSize < total}
<1>2. 0 \in G
  BY <1>1
<1>3. \A k \in 1..total : k - 1 \in G => k \in G
  <2> SUFFICES ASSUME NEW k \in 1..total, k - 1 \in G PROVE k \in G
    OBVIOUS
  <2>1. k - 1 \in Nat /\ (k - 1) + 1 = k /\ k \in Nat /\ (k - 1) * PageSize < total
    OBVIOUS
  <2>2. ((k - 1) + 1) * PageSize < total
    BY <2>1
  <2> QED
    BY <2>1, <2>2
<1>4. total \in G
  <2>1. total \in 0..total
    OBVIOUS
  <2> HIDE DEF G
  <2> QED
    BY <1>2, <1>3, <2>1, UpTo
<1>5. total <= total * PageSize /\ total * PageSize \in Nat
  BY <1>1, Multiples
<1> QED
  BY <1>4, <1>5

\* So the pages of a load with nothing in flight are those of its listing.
LEMMA AllLaid ==
  ASSUME NEW m, NEW l, Fetched(m, l), l.flying = {}
  PROVE  \E n \in Nat : /\ n * PageSize < l.total /\ l.total <= (n + 1) * PageSize
                        /\ Laid(Range(l.pages), n + 1)
<1>1. /\ PageSize \in Nat \ {0} /\ l.total \in Nat \ {0} /\ DOMAIN l.pages = 1..Len(l.pages)
      /\ Len(l.pages) \in Nat
  BY ScreenAssumption DEF Fetched
<1>2. PICK n \in Nat : n * PageSize < l.total /\ l.total <= (n + 1) * PageSize
  BY <1>1, PagesOf
<1> DEFINE P == Range(l.pages)
<1>3. \A p \in P : /\ p \in AnyPage /\ p.offset < l.total
                   /\ \E k \in Nat : p.offset = k * PageSize
  <2> SUFFICES ASSUME NEW i \in DOMAIN l.pages
               PROVE  /\ l.pages[i] \in AnyPage /\ l.pages[i].offset < l.total
                      /\ \E k \in Nat : l.pages[i].offset = k * PageSize
    BY DEF Range
  <2>1. i \in 1..Len(l.pages) /\ l.pages \in Seq(AnyPage)
    BY <1>1 DEF Fetched
  <2>2. l.pages[i] \in AnyPage
    BY <2>1, ElementOfSeq
  <2> QED
    BY <2>1, <2>2 DEF Fetched
<1>4. \A p, q \in P : p.offset = q.offset => p = q
  <2> SUFFICES ASSUME NEW p \in P, NEW q \in P, p.offset = q.offset PROVE p = q
    OBVIOUS
  <2>1. PICK i \in DOMAIN l.pages : p = l.pages[i]
    BY DEF Range
  <2>2. PICK j \in DOMAIN l.pages : q = l.pages[j]
    BY DEF Range
  <2> QED
    BY <1>1, <2>1, <2>2 DEF Fetched
<1>5. ASSUME NEW k \in 1..(n + 1) PROVE \E p \in P : p.offset = (k - 1) * PageSize
  <2>1. k - 1 \in Nat /\ k - 1 <= n
    OBVIOUS
  <2>2. /\ (k - 1) * PageSize \in Nat /\ n * PageSize \in Nat
        /\ (k - 1) * PageSize <= n * PageSize
    BY <1>1, <2>1, Apart
  <2>3. (k - 1) * PageSize < l.total
    BY <1>1, <1>2, <2>2
  <2>4. PICK i \in 1..Len(l.pages) : l.pages[i].offset = (k - 1) * PageSize
    BY <2>1, <2>3, EveryOffset
  <2>5. l.pages[i] \in P
    BY <1>1 DEF Range
  <2> QED
    BY <2>4, <2>5
<1>6. ASSUME NEW p \in P PROVE \E k \in 1..(n + 1) : p.offset = (k - 1) * PageSize
  <2>1. PICK j \in Nat : p.offset = j * PageSize
    BY <1>3
  <2>2. j <= n
    <3> SUFFICES ASSUME j >= n + 1 PROVE FALSE
      OBVIOUS
    <3>1. n + 1 \in Nat /\ n + 1 <= j
      OBVIOUS
    <3>2. /\ j * PageSize \in Nat /\ (n + 1) * PageSize \in Nat
          /\ (n + 1) * PageSize <= j * PageSize
      BY <1>1, <3>1, Apart
    <3>3. j * PageSize < l.total
      BY <1>3, <2>1
    <3> HIDE DEF P
    <3> QED
      BY <1>1, <1>2, <3>2, <3>3
  <2>3. j + 1 \in 1..(n + 1) /\ (j + 1) - 1 = j
    BY <2>2
  <2> QED
    BY <2>1, <2>3
<1> HIDE DEF P
<1>7. IsFiniteSet(P) /\ Cardinality(P) = n + 1
  <2> DEFINE f == [k \in 1..(n + 1) |-> CHOOSE p \in P : p.offset = (k - 1) * PageSize]
  <2>1. \A k \in 1..(n + 1) : f[k] \in P /\ f[k].offset = (k - 1) * PageSize
    BY <1>5
  <2>2. f \in [1..(n + 1) -> P]
    <3>1. f = [k \in 1..(n + 1) |-> f[k]]
      OBVIOUS
    <3> HIDE DEF f
    <3> QED
      BY <2>1, <3>1
  <2> HIDE DEF f
  <2>3. ASSUME NEW p \in P PROVE \E k \in 1..(n + 1) : f[k] = p
    <3>1. PICK k \in 1..(n + 1) : p.offset = (k - 1) * PageSize
      BY <1>6
    <3>2. f[k] \in P /\ f[k].offset = p.offset
      BY <2>1, <3>1
    <3>3. f[k] = p
      BY <1>4, <3>2
    <3> QED
      BY <3>3
  <2>4. \A i, j \in 1..(n + 1) : f[i] = f[j] => i = j
    <3> SUFFICES ASSUME NEW i \in 1..(n + 1), NEW j \in 1..(n + 1), f[i] = f[j] PROVE i = j
      OBVIOUS
    <3>1. (i - 1) * PageSize = (j - 1) * PageSize
      BY <2>1
    <3>2. i - 1 \in Nat /\ j - 1 \in Nat
      OBVIOUS
    <3>3. i - 1 = j - 1
      BY <1>1, <3>1, <3>2, Apart
    <3> QED
      BY <3>3
  <2>5. f \in Surjection(1..(n + 1), P)
    BY <2>2, <2>3 DEF Surjection
  <2>6. f \in Injection(1..(n + 1), P)
    <3>1. \A i, j \in DOMAIN f : f[i] = f[j] => i = j
      BY <2>2, <2>4
    <3> QED
      BY <2>2, <3>1 DEF Injection, IsInjective
  <2>7. IsFiniteSet(1..(n + 1)) /\ Cardinality(1..(n + 1)) = n + 1
    <3>1. n + 1 \in Nat
      OBVIOUS
    <3> QED
      BY <3>1, IntervalSize
  <2> QED
    BY <2>5, <2>6, <2>7, FS_Surjection
<1>8. \A p \in P : p.quotes \in Seq(Instruments)
  BY <1>3 DEF AnyPage
<1>9. Laid(P, n + 1)
  BY <1>4, <1>5, <1>6, <1>7, <1>8 DEF Laid
<1> QED
  BY <1>2, <1>9 DEF P

\* What is cached for a market.
Sound(m, rows, source) ==
    rows # None =>
        /\ rows \in Seq(Instruments) /\ IsInjective(rows)
        /\ source.id # None => \E s \in Sources : s.market = m /\ s.id = source.id /\ s.rows = rows

\* A page that is full is a slice of its source, and no row of it is lost.
LEMMA FullPage ==
  ASSUME NEW s \in Sources, NEW p, PageOf(s, p), p.offset \in Nat, p.offset <= p.total,
         Len(p.quotes) = Min({PageSize, p.total - p.offset})
  PROVE  p.quotes = SubSeq(s.rows, p.offset + 1, Min({p.offset + PageSize, Len(s.rows)}))
<1>1. /\ Listed(s, p.offset) \in Seq(Instruments)
      /\ Len(Listed(s, p.offset)) = Min({PageSize, Len(s.rows) - p.offset})
      /\ p.total = Len(s.rows)
  BY ListedFacts DEF PageOf
<1>2. p.quotes = Listed(s, p.offset)
  <2> SUFFICES ASSUME Listed(s, p.offset) # <<>>, p.quotes = Tail(Listed(s, p.offset))
               PROVE  FALSE
    BY DEF PageOf
  <2>1. Len(p.quotes) = Len(Listed(s, p.offset)) - 1 /\ Len(Listed(s, p.offset)) \in Nat
    BY <1>1, HeadTailProperties, LenProperties
  <2> QED
    BY <1>1, <2>1
<1> QED
  BY <1>2 DEF Listed

\* What Complete caches.
LEMMA CompleteSound ==
  ASSUME NEW m, NEW l, Fetched(m, l), l.flying = {}, Accepted(m, Range(l.pages), l.total)
  PROVE  Sound(m, Assembled(Range(l.pages)), l.source)
<1> DEFINE P == Range(l.pages)
           rows == Assembled(P)
<1>1. /\ PageSize \in Nat \ {0} /\ l.total \in Nat \ {0} /\ DOMAIN l.pages = 1..Len(l.pages)
      /\ Len(l.pages) \in Nat
  BY ScreenAssumption DEF Fetched
<1>2. PICK n \in Nat : /\ n * PageSize < l.total /\ l.total <= (n + 1) * PageSize
                       /\ Laid(P, n + 1)
  BY AllLaid
<1>3. \A p \in P : Appends(Assembled({q \in P : q.offset < p.offset}), p, l.total)
  BY DEF Accepted
<1>4. \A p \in P : /\ p.source = l.source /\ p.offset \in Nat
                   /\ \E s \in Sources : s.market = m /\ PageOf(s, p)
  <2> SUFFICES ASSUME NEW i \in DOMAIN l.pages
               PROVE  /\ l.pages[i].source = l.source /\ l.pages[i].offset \in Nat
                      /\ \E s \in Sources : s.market = m /\ PageOf(s, l.pages[i])
    BY DEF Range
  <2>1. i \in 1..Len(l.pages) /\ l.pages \in Seq(AnyPage)
    BY <1>1 DEF Fetched
  <2>2. l.pages[i] \in AnyPage
    BY <2>1, ElementOfSeq
  <2>3. l.pages[i].offset \in Nat
    BY <2>2 DEF AnyPage
  <2> QED
    BY <2>1, <2>3 DEF Fetched
<1> HIDE DEF P
<1>5. rows \in Seq(Instruments)
  <2>1. n + 1 \in Nat
    OBVIOUS
  <2> QED
    BY <1>2, <2>1, AssembledTyped
<1>6. IsInjective(rows)
  <2>1. n + 1 \in 1..(n + 1) /\ (n + 1) - 1 = n
    OBVIOUS
  <2>2. PICK last \in P : last.offset = ((n + 1) - 1) * PageSize
    BY <1>2, <2>1 DEF Laid
  <2>3. last.offset = n * PageSize
    BY <2>1, <2>2
  <2> DEFINE front == {q \in P : q.offset < last.offset}
  <2>4. IsInjective(Assembled(front) \o last.quotes)
    BY <1>3 DEF Appends
  <2>5. rows = Assembled(front) \o last.quotes
    <3>1. front = {q \in P : q.offset < last.offset}
      OBVIOUS
    <3> HIDE DEF front
    <3> QED
      BY <1>2, <2>3, <3>1, AssembledLast
  <2> HIDE DEF front, rows
  <2> QED
    BY <2>4, <2>5
<1>7. ASSUME l.source.id # None
      PROVE  \E s \in Sources : s.market = m /\ s.id = l.source.id /\ s.rows = rows
  <2>1. PICK first \in P : TRUE
    <3>1. 1 \in 1..(n + 1)
      OBVIOUS
    <3> QED
      BY <1>2, <3>1 DEF Laid
  <2>2. PICK v \in Sources : v.market = m /\ PageOf(v, first)
    BY <1>4
  <2>3. v.id = l.source.id /\ v.feed = l.source.feed /\ l.total = Len(v.rows)
        /\ v.rows \in Seq(Instruments)
    <3>1. first.source = l.source /\ first.total = l.total
      BY <1>3, <1>4 DEF Appends
    <3> QED
      BY <2>2, <3>1, ScreenAssumption DEF PageOf
  <2>4. \A p \in P : p.quotes = SubSeq(v.rows, p.offset + 1, Min({p.offset + PageSize, l.total}))
    <3> SUFFICES ASSUME NEW p \in P
                 PROVE  p.quotes = SubSeq(v.rows, p.offset + 1, Min({p.offset + PageSize, l.total}))
      OBVIOUS
    <3>1. PICK s \in Sources : s.market = m /\ PageOf(s, p)
      BY <1>4
    <3>2. s.id = v.id /\ s.feed = v.feed
      BY <1>4, <2>3, <3>1 DEF PageOf
    <3>3. s.rows = v.rows
      BY <1>7, <2>2, <2>3, <3>1, <3>2, ScreenAssumption
    <3>4. /\ p.offset <= l.total /\ p.total = l.total
          /\ Len(p.quotes) = Min({PageSize, l.total - p.offset})
      BY <1>3 DEF Appends
    <3> QED
      BY <1>4, <2>3, <3>1, <3>3, <3>4, FullPage
  <2>5. PICK pieces : Quoted(P, n + 1, pieces)
    <3>1. n + 1 \in Nat
      OBVIOUS
    <3> QED
      BY <1>2, <3>1, AssembledParts
  <2> DEFINE c == [k \in 0..(n + 1) |-> IF k * PageSize <= l.total THEN k * PageSize ELSE l.total]
  <2>6. \A k \in 0..(n + 1) : k \in Nat /\ k * PageSize \in Nat
    BY <1>1, Multiples
  <2>7. c \in [0..(n + 1) -> 0..Len(v.rows)] /\ c[0] = 0 /\ c[n + 1] = Len(v.rows)
    <3>1. c \in [0..(n + 1) -> 0..l.total]
      BY <1>1, <2>6
    <3>2. c[0] = 0
      <4>1. 0 \in 0..(n + 1) /\ 0 * PageSize = 0
        BY <1>1
      <4> QED
        BY <1>1, <4>1
    <3>3. c[n + 1] = l.total
      <4>1. n + 1 \in 0..(n + 1)
        OBVIOUS
      <4> QED
        BY <1>1, <1>2, <2>6, <4>1
    <3> QED
      BY <2>3, <3>1, <3>2, <3>3
  <2>8. ASSUME NEW k \in 1..(n + 1)
        PROVE  c[k - 1] <= c[k] /\ pieces[k] = SubSeq(v.rows, c[k - 1] + 1, c[k])
    <3>1. /\ k \in 0..(n + 1) /\ k - 1 \in 0..(n + 1) /\ k \in Nat /\ k # 0
          /\ k - 1 \in Nat /\ k - 1 <= n
      OBVIOUS
    <3>2. /\ (k - 1) * PageSize \in Nat /\ n * PageSize \in Nat
          /\ k * PageSize = (k - 1) * PageSize + PageSize
          /\ (k - 1) * PageSize <= n * PageSize
      BY <1>1, <3>1, Apart, Multiples
    <3>3. (k - 1) * PageSize < l.total
      BY <1>1, <1>2, <3>2
    <3>4. /\ c[k - 1] = (k - 1) * PageSize
          /\ c[k] = IF k * PageSize <= l.total THEN k * PageSize ELSE l.total
      BY <1>1, <3>1, <3>2, <3>3
    <3> HIDE DEF c
    <3>5. c[k] = Min({(k - 1) * PageSize + PageSize, l.total})
      <4> DEFINE a == (k - 1) * PageSize + PageSize
      <4>1. a \in Int /\ a = k * PageSize /\ l.total \in Int
        BY <1>1, <3>2
      <4> HIDE DEF a
      <4>2. Min({a, l.total}) = IF a <= l.total THEN a ELSE l.total
        BY <4>1, SmallerOf
      <4>3. c[k] = Min({a, l.total})
        BY <3>4, <4>1, <4>2
      <4> QED
        BY <4>3 DEF a
    <3>6. PICK p \in P : p.offset = (k - 1) * PageSize /\ pieces[k] = p.quotes
      BY <2>5 DEF Quoted
    <3>7. pieces[k] = SubSeq(v.rows, c[k - 1] + 1, c[k])
      BY <2>4, <3>4, <3>5, <3>6
    <3>8. c[k - 1] <= c[k]
      BY <1>1, <3>2, <3>3, <3>4
    <3> QED
      BY <3>7, <3>8
  <2> HIDE DEF c
  <2>9. FlattenSeq(pieces) = v.rows
    <3>1. n + 1 \in Nat /\ Len(pieces) = n + 1 /\ (n + 1 = 0 => pieces = <<>>)
      BY <2>5 DEF Quoted
    <3>2. /\ \A k \in 1..(n + 1) : c[k - 1] <= c[k]
          /\ \A k \in 1..(n + 1) : pieces[k] = SubSeq(v.rows, c[k - 1] + 1, c[k])
      BY <2>8
    <3> DEFINE size == n + 1
               listing == v.rows
    <3>3. /\ size \in Nat /\ Len(pieces) = size /\ (size = 0 => pieces = <<>>)
          /\ listing \in Seq(Instruments)
          /\ c \in [0..size -> 0..Len(listing)] /\ c[0] = 0 /\ c[size] = Len(listing)
      BY <2>3, <2>7, <3>1
    <3>4. /\ \A k \in 1..size : c[k - 1] <= c[k]
          /\ \A k \in 1..size : pieces[k] = SubSeq(listing, c[k - 1] + 1, c[k])
      BY <3>2
    <3> HIDE DEF size, listing
    <3>5. FlattenSeq(pieces) = listing
      BY <3>3, <3>4, FlattenSlices
    <3> QED
      BY <3>5 DEF listing
  <2>10. rows = v.rows
    BY <2>5, <2>9 DEF Quoted
  <2> HIDE DEF rows
  <2> QED
    BY <2>2, <2>3, <2>10
<1> HIDE DEF rows
<1> QED
  BY <1>5, <1>6, <1>7 DEF Sound, rows, P

-----------------------------------------------------------------------------
(* The invariant of the screens.                                             *)

AnySnapshot == {None} \cup
    [rows : Seq(Instruments) \cup {None},
     source : {None} \cup Provenance]

ScreenTypes ==
    /\ queue \in Seq(Readers)
    /\ reads \in [Readers -> [phase : {"idle", "locking", "loading"}, of : Queries \cup {None}]]
    /\ snapshots \in [Markets -> AnySnapshot]

\* Who is not idle is in the queue, once.
Queued ==
    /\ IsInjective(queue)
    /\ \A i \in DOMAIN queue : reads[queue[i]].phase # "idle"
    /\ \A c \in Readers : reads[c].phase # "idle" =>
          reads[c].of \in Queries /\ \E i \in DOMAIN queue : queue[i] = c

\* Who loads has the mutex, and the load is of the market it asks for.
Loads ==
    /\ \A c \in Readers : Loading(c) =>
          Holder(c) /\ (load = NoLoad \/ Fetched(reads[c].of.market, load))
    /\ (\A c \in Readers : ~Loading(c)) => load = NoLoad

Cached ==
    \A m \in Markets : snapshots[m] # None => Sound(m, snapshots[m].rows, snapshots[m].source)

ScreenInv == ScreenTypes /\ Queued /\ Loads /\ Cached

\* A queue without its i-th member.
Leaves(q, i, r) ==
    Len(r) = Len(q) - 1 /\ \A j \in 1..Len(r) : r[j] = IF j < i THEN q[j] ELSE q[j + 1]

LEMMA TailLeaves ==
  ASSUME NEW S, NEW q \in Seq(S), q # <<>>
  PROVE  Tail(q) \in Seq(S) /\ Leaves(q, 1, Tail(q)) /\ 1 \in DOMAIN q /\ q[1] = Head(q)
<1>1. /\ Tail(q) \in Seq(S) /\ Len(Tail(q)) = Len(q) - 1
      /\ \A i \in 1..Len(Tail(q)) : Tail(q)[i] = q[i + 1]
  BY HeadTailProperties
<1>2. Len(q) \in Nat \ {0} /\ DOMAIN q = 1..Len(q)
  BY EmptySeq, LenProperties
<1>3. Head(q) = q[1]
  BY <1>2
<1> QED
  BY <1>1, <1>2, <1>3 DEF Leaves

LEMMA RemoveLeaves ==
  ASSUME NEW S, NEW q \in Seq(S), NEW i \in DOMAIN q
  PROVE  RemoveAt(q, i) \in Seq(S) /\ Leaves(q, i, RemoveAt(q, i))
<1> DEFINE n == Len(q)
           a == SubSeq(q, 1, i - 1)
           b == SubSeq(q, i + 1, n)
<1>1. n \in Nat /\ i \in 1..n /\ \A j \in 1..n : q[j] \in S
  BY LenProperties, ElementOfSeq
<1>2. a \in Seq(S) /\ Len(a) = i - 1 /\ \A j \in 1..(i - 1) : a[j] = q[j]
  <2>1. \A j \in 1..(i - 1) : q[j] \in S
    BY <1>1
  <2>2. 1 \in Int /\ i - 1 \in Int
    BY <1>1
  <2>3. /\ a \in Seq(S) /\ Len(a) = IF 1 <= i - 1 THEN (i - 1) - 1 + 1 ELSE 0
        /\ \A j \in 1..((i - 1) - 1 + 1) : a[j] = q[1 + j - 1]
    <3> HIDE DEF n
    <3> QED
      BY <2>1, <2>2, SubSeqProperties
  <2> HIDE DEF n, a
  <2> QED
    BY <1>1, <2>3
<1>3. b \in Seq(S) /\ Len(b) = n - i /\ \A j \in 1..(n - i) : b[j] = q[i + j]
  <2>1. \A j \in (i + 1)..n : q[j] \in S
    BY <1>1
  <2>2. i + 1 \in Int /\ n \in Int
    BY <1>1
  <2>3. /\ b \in Seq(S) /\ Len(b) = IF i + 1 <= n THEN n - (i + 1) + 1 ELSE 0
        /\ \A j \in 1..(n - (i + 1) + 1) : b[j] = q[i + 1 + j - 1]
    <3> HIDE DEF n
    <3> QED
      BY <2>1, <2>2, SubSeqProperties
  <2> HIDE DEF n, b
  <2> QED
    BY <1>1, <2>3
<1>4. RemoveAt(q, i) = a \o b
  BY DEF RemoveAt
<1> HIDE DEF a, b, n
<1>5. /\ a \o b \in Seq(S) /\ Len(a \o b) = Len(a) + Len(b)
      /\ \A j \in 1..(Len(a) + Len(b)) : (a \o b)[j] = IF j <= Len(a) THEN a[j] ELSE b[j - Len(a)]
  BY <1>2, <1>3, ConcatProperties
<1>6. Len(a \o b) = n - 1
  BY <1>1, <1>2, <1>3, <1>5
<1>7. \A j \in 1..(n - 1) : (a \o b)[j] = IF j < i THEN q[j] ELSE q[j + 1]
  <2> SUFFICES ASSUME NEW j \in 1..(n - 1)
               PROVE  (a \o b)[j] = IF j < i THEN q[j] ELSE q[j + 1]
    OBVIOUS
  <2>1. (a \o b)[j] = IF j <= i - 1 THEN a[j] ELSE b[j - (i - 1)]
    <3>1. Len(a) = i - 1 /\ Len(a) + Len(b) = n - 1
      BY <1>1, <1>2, <1>3
    <3>2. (a \o b)[j] = IF j <= Len(a) THEN a[j] ELSE b[j - Len(a)]
      BY <1>5, <3>1
    <3> QED
      BY <3>1, <3>2
  <2>2. CASE j < i
    BY <1>1, <1>2, <2>1, <2>2
  <2>3. CASE ~(j < i)
    <3> DEFINE k == j - (i - 1)
    <3>1. k \in 1..(n - i) /\ i + k = j + 1 /\ ~(j <= i - 1)
      BY <1>1, <2>3
    <3>2. (a \o b)[j] = b[k]
      BY <2>1, <3>1
    <3> HIDE DEF k
    <3>3. b[k] = q[i + k]
      BY <1>3, <3>1
    <3> QED
      BY <2>3, <3>1, <3>2, <3>3
  <2> QED
    BY <2>2, <2>3
<1> QED
  BY <1>4, <1>5, <1>6, <1>7 DEF Leaves, n

\* Those who stay are in the queue as before, and he who left is not.
LEMMA LeavesKeeps ==
  ASSUME NEW S, NEW q \in Seq(S), IsInjective(q), NEW i \in DOMAIN q, NEW r \in Seq(S),
         Leaves(q, i, r)
  PROVE  /\ IsInjective(r)
         /\ \A j \in DOMAIN r : r[j] # q[i] /\ \E k \in DOMAIN q : q[k] = r[j]
         /\ \A k \in DOMAIN q : q[k] # q[i] => \E j \in DOMAIN r : r[j] = q[k]
         /\ i # 1 => r # <<>> /\ Head(r) = Head(q)
<1>1. /\ Len(q) \in Nat /\ DOMAIN q = 1..Len(q) /\ DOMAIN r = 1..Len(r) /\ i \in 1..Len(q)
      /\ Len(r) = Len(q) - 1 /\ \A j \in 1..Len(r) : r[j] = IF j < i THEN q[j] ELSE q[j + 1]
  BY DEF Leaves
<1>2. \A a, b \in 1..Len(q) : q[a] = q[b] => a = b
  BY <1>1 DEF IsInjective
<1> DEFINE was(j) == IF j < i THEN j ELSE j + 1
<1>3. \A j \in 1..Len(r) : was(j) \in 1..Len(q) /\ was(j) # i /\ r[j] = q[was(j)]
  BY <1>1
<1>4. \A a, b \in DOMAIN r : r[a] = r[b] => a = b
  <2> SUFFICES ASSUME NEW a \in 1..Len(r), NEW b \in 1..Len(r), r[a] = r[b] PROVE a = b
    BY <1>1
  <2>1. was(a) = was(b)
    <3> HIDE DEF was
    <3> QED
      BY <1>2, <1>3
  <2> QED
    BY <1>1, <2>1
<1>5. \A j \in DOMAIN r : r[j] # q[i] /\ \E k \in DOMAIN q : q[k] = r[j]
  <2> HIDE DEF was
  <2> QED
    BY <1>1, <1>2, <1>3
<1>6. \A k \in DOMAIN q : q[k] # q[i] => \E j \in DOMAIN r : r[j] = q[k]
  <2> SUFFICES ASSUME NEW k \in 1..Len(q), k # i PROVE \E j \in 1..Len(r) : r[j] = q[k]
    BY <1>1
  <2>1. CASE k < i
    <3>1. k \in 1..Len(r) /\ r[k] = q[k]
      BY <1>1, <2>1
    <3> QED
      BY <3>1
  <2>2. CASE ~(k < i)
    <3>1. k - 1 \in 1..Len(r) /\ r[k - 1] = q[(k - 1) + 1] /\ (k - 1) + 1 = k
      BY <1>1, <2>2
    <3> QED
      BY <3>1
  <2> QED
    BY <2>1, <2>2
<1>7. i # 1 => r # <<>> /\ Head(r) = Head(q)
  <2> SUFFICES ASSUME i # 1 PROVE r # <<>> /\ Head(r) = Head(q)
    OBVIOUS
  <2>1. 1 \in 1..Len(r) /\ r[1] = q[1]
    BY <1>1
  <2>2. r # <<>> /\ Head(r) = r[1] /\ Head(q) = q[1]
    BY <1>1, <2>1
  <2> QED
    BY <2>1, <2>2
<1> QED
  BY <1>4, <1>5, <1>6, <1>7 DEF IsInjective

Reading == [phase : {"idle", "locking", "loading"}, of : Queries \cup {None}]

LEMMA LeftKeeps ==
  ASSUME ScreenInv, NEW c \in Readers, NEW i \in DOMAIN queue, queue[i] = c,
         queue' \in Seq(Readers), Leaves(queue, i, queue'), reads' = [reads EXCEPT ![c] = Quiet]
  PROVE  /\ reads' \in [Readers -> Reading] /\ Queued'
         /\ \A d \in Readers : reads'[d] = IF d = c THEN Quiet ELSE reads[d]
         /\ i # 1 => queue' # <<>> /\ Head(queue') = Head(queue)
<1>1. /\ queue \in Seq(Readers) /\ IsInjective(queue)
      /\ reads \in [Readers -> Reading]
  BY DEF ScreenInv, ScreenTypes, Queued, Reading
<1>2. /\ IsInjective(queue')
      /\ \A j \in DOMAIN queue' : queue'[j] # c /\ \E k \in DOMAIN queue : queue[k] = queue'[j]
      /\ \A k \in DOMAIN queue : queue[k] # c => \E j \in DOMAIN queue' : queue'[j] = queue[k]
      /\ i # 1 => queue' # <<>> /\ Head(queue') = Head(queue)
  BY <1>1, LeavesKeeps
<1>3. Quiet \in Reading /\ Quiet.phase = "idle"
  BY DEF Reading, Quiet
<1>4. /\ reads' \in [Readers -> Reading]
      /\ \A d \in Readers : reads'[d] = IF d = c THEN Quiet ELSE reads[d]
  BY <1>1, <1>3
<1>5. \A j \in DOMAIN queue' : queue'[j] \in Readers
  <2>1. DOMAIN queue' = 1..Len(queue')
    OBVIOUS
  <2> QED
    BY <2>1, ElementOfSeq
<1>6. \A j \in DOMAIN queue' : reads'[queue'[j]].phase # "idle"
  <2> SUFFICES ASSUME NEW j \in DOMAIN queue' PROVE reads'[queue'[j]].phase # "idle"
    OBVIOUS
  <2>1. PICK k \in DOMAIN queue : queue[k] = queue'[j]
    BY <1>2
  <2>2. reads[queue[k]].phase # "idle"
    BY DEF ScreenInv, Queued
  <2>3. reads'[queue'[j]] = reads[queue'[j]]
    BY <1>2, <1>4, <1>5
  <2> QED
    BY <2>1, <2>2, <2>3
<1>7. ASSUME NEW d \in Readers, reads'[d].phase # "idle"
      PROVE  reads'[d].of \in Queries /\ \E j \in DOMAIN queue' : queue'[j] = d
  <2>1. d # c /\ reads'[d] = reads[d]
    BY <1>3, <1>4, <1>7
  <2>2. reads[d].of \in Queries /\ \E k \in DOMAIN queue : queue[k] = d
    BY <1>7, <2>1 DEF ScreenInv, Queued
  <2> QED
    BY <1>2, <2>1, <2>2
<1> QED
  BY <1>2, <1>4, <1>6, <1>7 DEF Queued

LEMMA OneLoads ==
  ASSUME ScreenInv, NEW c \in Readers, Holder(c)
  PROVE  /\ queue # <<>> /\ 1 \in DOMAIN queue /\ queue[1] = c
         /\ \A d \in Readers \ {c} : ~Loading(d)
<1>1. queue \in Seq(Readers) /\ queue # <<>> /\ Head(queue) = c
  BY DEF ScreenInv, ScreenTypes, Holder
<1>2. \A d \in Readers \ {c} : ~Loading(d)
  BY <1>1 DEF ScreenInv, Loads, Holder
<1> QED
  BY <1>1, <1>2, TailLeaves

LEMMA AnswerKeeps ==
  ASSUME ScreenInv, NEW c \in Readers, Holder(c), Answer(c), load' = NoLoad,
         snapshots' \in [Markets -> AnySnapshot], Cached'
  PROVE  ScreenInv'
<1>1. /\ queue \in Seq(Readers) /\ queue # <<>> /\ 1 \in DOMAIN queue /\ queue[1] = c
      /\ \A d \in Readers \ {c} : ~Loading(d)
  BY OneLoads DEF ScreenInv, ScreenTypes
<1>2. queue' \in Seq(Readers) /\ Leaves(queue, 1, queue')
  BY <1>1, TailLeaves DEF Answer
<1>3. /\ reads' \in [Readers -> Reading] /\ Queued'
      /\ \A d \in Readers : reads'[d] = IF d = c THEN Quiet ELSE reads[d]
  BY <1>1, <1>2, LeftKeeps DEF Answer
<1>4. \A d \in Readers : ~Loading(d)'
  BY <1>1, <1>3 DEF Loading, Quiet
<1> QED
  BY <1>2, <1>3, <1>4 DEF ScreenInv, ScreenTypes, Loads, Reading

\* What a load ends with.
LEMMA CacheKeeps ==
  ASSUME ScreenInv, NEW c \in Readers, Loading(c), NEW rows, NEW source, Cache(c, rows, source),
         [rows |-> rows, source |-> source] \in AnySnapshot, Sound(reads[c].of.market, rows, source)
  PROVE  ScreenInv'
<1>1. Holder(c) /\ snapshots \in [Markets -> AnySnapshot] /\ reads[c].of \in Queries
  BY DEF ScreenInv, ScreenTypes, Loads, Queued, Loading
<1> DEFINE m == reads[c].of.market
           s == [rows |-> rows, source |-> source]
<1>2. m \in Markets
  BY <1>1, ScreenAssumption
<1>3. s.rows = rows /\ s.source = source
  OBVIOUS
<1> HIDE DEF m, s
<1>4. snapshots' = [snapshots EXCEPT ![m] = s] /\ Answer(c) /\ load' = NoLoad
  BY DEF Cache, m, s
<1>5. /\ snapshots' \in [Markets -> AnySnapshot]
      /\ \A k \in Markets : snapshots'[k] = IF k = m THEN s ELSE snapshots[k]
  <2>1. s \in AnySnapshot
    BY DEF s
  <2> QED
    BY <1>1, <1>4, <2>1
<1>6. Cached'
  <2> SUFFICES ASSUME NEW k \in Markets, snapshots'[k] # None
               PROVE  Sound(k, snapshots'[k].rows, snapshots'[k].source)
    BY DEF Cached
  <2>1. CASE k = m
    <3>1. Sound(m, rows, source)
      BY DEF m
    <3> QED
      BY <1>3, <1>5, <2>1, <3>1
  <2>2. CASE k # m
    BY <1>5, <2>2 DEF ScreenInv, Cached
  <2> QED
    BY <2>1, <2>2
<1> QED
  BY <1>1, <1>4, <1>5, <1>6, AnswerKeeps

LEMMA UnavailableKeeps ==
  ASSUME ScreenInv, NEW c \in Readers, Loading(c), Unavailable(c)
  PROVE  ScreenInv'
<1>1. Cache(c, None, None) /\ [rows |-> None, source |-> None] \in AnySnapshot
      /\ Sound(reads[c].of.market, None, None)
  BY DEF Unavailable, AnySnapshot, Sound
<1> QED
  BY <1>1, CacheKeeps

LEMMA ReadKeeps ==
  ASSUME ScreenInv, NEW c \in Readers, NEW q \in Queries, Read(c, q)
  PROVE  ScreenInv'
<1>1. /\ queue \in Seq(Readers) /\ reads \in [Readers -> Reading] /\ reads[c].phase = "idle"
      /\ reads' = [reads EXCEPT ![c] = [phase |-> "locking", of |-> q]]
      /\ queue' = Append(queue, c) /\ UNCHANGED <<snapshots, load>>
  BY DEF ScreenInv, ScreenTypes, Read, Reading
<1> DEFINE a == [phase |-> "locking", of |-> q]
<1>2. a \in Reading /\ a.phase = "locking" /\ a.of = q
  BY DEF Reading
<1> HIDE DEF a
<1>3. /\ reads' \in [Readers -> Reading]
      /\ \A d \in Readers : reads'[d] = IF d = c THEN a ELSE reads[d]
  BY <1>1, <1>2 DEF a
<1>4. /\ queue' \in Seq(Readers) /\ Len(queue') = Len(queue) + 1
      /\ \A j \in 1..Len(queue) : queue'[j] = queue[j]
      /\ queue'[Len(queue) + 1] = c
      /\ Len(queue) \in Nat /\ DOMAIN queue = 1..Len(queue) /\ DOMAIN queue' = 1..Len(queue')
  BY <1>1, AppendProperties, LenProperties
<1>5. \A j \in DOMAIN queue : queue[j] # c /\ queue[j] \in Readers /\ reads[queue[j]].phase # "idle"
  BY <1>1, <1>4, ElementOfSeq DEF ScreenInv, Queued
<1>6. IsInjective(queue')
  <2>1. \A i, j \in DOMAIN queue' : queue'[i] = queue'[j] => i = j
    <3>1. \A i, j \in 1..Len(queue) : queue[i] = queue[j] => i = j
      BY <1>4 DEF ScreenInv, Queued, IsInjective
    <3>2. \A j \in DOMAIN queue' : j \in 1..Len(queue) \/ j = Len(queue) + 1
      BY <1>4
    <3> QED
      BY <1>4, <1>5, <3>1, <3>2
  <2> QED
    BY <2>1 DEF IsInjective
<1>7. \A j \in DOMAIN queue' : reads'[queue'[j]].phase # "idle"
  <2> SUFFICES ASSUME NEW j \in DOMAIN queue' PROVE reads'[queue'[j]].phase # "idle"
    OBVIOUS
  <2>1. CASE j \in 1..Len(queue)
    <3>1. queue'[j] = queue[j] /\ reads'[queue[j]] = reads[queue[j]]
      BY <1>3, <1>4, <1>5, <2>1
    <3> QED
      BY <1>4, <1>5, <2>1, <3>1
  <2>2. CASE j = Len(queue) + 1
    BY <1>2, <1>3, <1>4, <2>2
  <2> QED
    BY <1>4, <2>1, <2>2
<1>8. ASSUME NEW d \in Readers, reads'[d].phase # "idle"
      PROVE  reads'[d].of \in Queries /\ \E j \in DOMAIN queue' : queue'[j] = d
  <2>1. CASE d = c
    <3>1. Len(queue) + 1 \in DOMAIN queue'
      BY <1>4
    <3> QED
      BY <1>2, <1>3, <1>4, <2>1, <3>1
  <2>2. CASE d # c
    <3>1. reads'[d] = reads[d]
      BY <1>3, <2>2
    <3>2. reads[d].of \in Queries /\ \E k \in DOMAIN queue : queue[k] = d
      BY <1>8, <3>1 DEF ScreenInv, Queued
    <3>3. PICK k \in 1..Len(queue) : queue[k] = d
      BY <1>4, <3>2
    <3>4. k \in DOMAIN queue' /\ queue'[k] = d
      BY <1>4, <3>3
    <3> QED
      BY <3>1, <3>2, <3>4
  <2> QED
    BY <2>1, <2>2
<1>9. Queued'
  BY <1>6, <1>7, <1>8 DEF Queued
<1>10. Loads'
  <2>1. \A d \in Readers : Loading(d)' => Loading(d) /\ reads'[d] = reads[d]
    BY <1>2, <1>3 DEF Loading
  <2>2. \A d \in Readers : Loading(d) => Loading(d)'
    BY <1>1, <1>3 DEF Loading
  <2>3. queue # <<>> => queue' # <<>> /\ Head(queue') = Head(queue)
    BY <1>1, HeadTailAppend, AppendProperties
  <2>4. load' = load
    BY <1>1
  <2> QED
    BY <2>1, <2>2, <2>3, <2>4 DEF ScreenInv, Loads, Holder
<1>11. Cached'
  BY <1>1 DEF ScreenInv, Cached
<1> QED
  BY <1>1, <1>3, <1>4, <1>9, <1>10, <1>11 DEF ScreenInv, ScreenTypes, Reading

LEMMA LookKeeps ==
  ASSUME ScreenInv, NEW c \in Readers, Look(c)
  PROVE  ScreenInv'
<1>1. /\ reads[c].phase = "locking" /\ Holder(c) /\ UNCHANGED <<snapshots, load>>
      /\ \A d \in Readers : ~Loading(d)
  BY OneLoads DEF Look, Loading
<1>2. load = NoLoad /\ NoLoad.pages = <<>>
  BY <1>1 DEF ScreenInv, Loads, NoLoad
<1>3. snapshots' \in [Markets -> AnySnapshot] /\ Cached'
  BY <1>1 DEF ScreenInv, ScreenTypes, Cached
<1>4. CASE Answer(c)
  BY <1>1, <1>2, <1>3, <1>4, AnswerKeeps
<1>5. CASE reads' = [reads EXCEPT ![c].phase = "loading"] /\ UNCHANGED queue
  <2>1. reads \in [Readers -> Reading]
    BY DEF ScreenInv, ScreenTypes, Reading
  <2>2. /\ reads' \in [Readers -> Reading]
        /\ \A d \in Readers \ {c} : reads'[d] = reads[d]
        /\ reads'[c].phase = "loading" /\ reads'[c].of = reads[c].of
    BY <1>5, <2>1 DEF Reading
  <2>3. \A d \in Readers : reads'[d].of = reads[d].of
                           /\ (reads'[d].phase = "idle" <=> reads[d].phase = "idle")
    BY <1>1, <2>2
  <2>4. \A j \in DOMAIN queue : queue[j] \in Readers
    <3>1. queue \in Seq(Readers)
      BY DEF ScreenInv, ScreenTypes
    <3> QED
      BY <3>1, ElementOfSeq, LenProperties
  <2>5. Queued'
    BY <1>5, <2>3, <2>4 DEF ScreenInv, Queued
  <2>6. Loads'
    <3>1. \A d \in Readers : Loading(d)' <=> d = c
      BY <1>1, <2>2 DEF Loading
    <3> QED
      BY <1>1, <1>2, <1>5, <3>1 DEF Loads, Holder
  <2> QED
    BY <1>3, <1>5, <2>2, <2>5, <2>6 DEF ScreenInv, ScreenTypes, Reading
<1> QED
  BY <1>4, <1>5 DEF Look

\* A load goes on: nobody else loads.
LEMMA LoadKeeps ==
  ASSUME ScreenInv, NEW c \in Readers, Loading(c), UNCHANGED <<queue, reads, snapshots>>,
         load' = NoLoad \/ Fetched(reads[c].of.market, load')
  PROVE  ScreenInv'
<1>1. Holder(c)
  BY DEF ScreenInv, Loads
<1>2. \A d \in Readers \ {c} : ~Loading(d)
  BY <1>1, OneLoads
<1>3. \A d \in Readers : Loading(d)' <=> d = c
  BY <1>2 DEF Loading
<1>4. Loads'
  BY <1>1, <1>3 DEF Loads, Holder
<1> QED
  BY <1>4 DEF ScreenInv, ScreenTypes, Queued, Cached

LEMMA FirstPageKeeps ==
  ASSUME ScreenInv, NEW c \in Readers, FirstPage(c)
  PROVE  ScreenInv'
<1> DEFINE m == reads[c].of.market
<1>1. Loading(c)
  BY DEF FirstPage
<1>2. PICK p \in Pages(m, 0) :
         \/ Unavailable(c)
         \/ /\ p.total # 0
            /\ load' = [total |-> p.total, source |-> p.source, pages |-> <<p>>,
                        flying |-> Launched(p.total, 1)]
            /\ UNCHANGED <<queue, reads, snapshots>>
  BY DEF FirstPage
<1>3. /\ p \in AnyPage /\ p.offset = 0 /\ \E s \in Sources : s.market = m /\ PageOf(s, p)
  <2> HIDE DEF m
  <2> QED
    BY PageFacts
<1>4. CASE Unavailable(c)
  BY <1>1, <1>4, UnavailableKeeps
<1>5. CASE /\ p.total # 0
           /\ load' = [total |-> p.total, source |-> p.source, pages |-> <<p>>,
                       flying |-> Launched(p.total, 1)]
           /\ UNCHANGED <<queue, reads, snapshots>>
  <2> DEFINE l == load'
  <2>1. /\ l.total = p.total /\ l.source = p.source /\ l.pages = <<p>>
        /\ l.flying = Launched(p.total, 1)
        /\ l = [total |-> l.total, source |-> l.source, pages |-> l.pages, flying |-> l.flying]
    BY <1>5
  <2>2. p.total \in Nat \ {0} /\ PageSize \in Nat \ {0}
    BY <1>3, <1>5, ScreenAssumption DEF AnyPage
  <2> HIDE DEF l, m
  <2>3. Len(l.pages) = 1 /\ l.pages[1] = p /\ l.pages \in Seq(AnyPage) /\ l.pages # <<>>
    BY <1>3, <2>1
  <2>4. Range(l.pages) = {p}
    <3>1. DOMAIN l.pages = {1}
      BY <2>1
    <3> QED
      BY <2>3, <3>1 DEF Range
  <2>5. 0 \notin Launched(p.total, 1)
    <3>1. \A k \in 1..p.total : k * PageSize # 0
      BY <2>2, Multiples
    <3> QED
      BY <3>1 DEF Launched
  <2>6. {q.offset : q \in Range(l.pages)} = {0}
    BY <1>3, <2>4
  <2>7. l.flying = Launched(l.total, Len(l.pages)) \ {q.offset : q \in Range(l.pages)}
    BY <2>1, <2>3, <2>5, <2>6
  <2>8. 0 = 0 * PageSize /\ 0 \in Nat
    BY <2>2
  <2>9. \A i \in 1..Len(l.pages) : i = 1
    BY <2>3
  <2>10. Fetched(m, l)
    BY <1>3, <2>1, <2>2, <2>3, <2>7, <2>8, <2>9 DEF Fetched
  <2> QED
    BY <1>1, <1>5, <2>10, LoadKeeps DEF l, m
<1> QED
  BY <1>2, <1>4, <1>5

LEMMA NextPageKeeps ==
  ASSUME ScreenInv, NEW c \in Readers, NextPage(c)
  PROVE  ScreenInv'
<1> DEFINE m == reads[c].of.market
<1>1. Loading(c)
  BY DEF NextPage
<1>2. PICK o \in load.flying : \E p \in Pages(m, o) :
         \/ Unavailable(c)
         \/ /\ p.source = load.source
            /\ load' = [load EXCEPT !.pages = Append(load.pages, p),
                  !.flying = Launched(load.total, Len(Append(load.pages, p)))
                               \ {q.offset : q \in Range(Append(load.pages, p))}]
            /\ UNCHANGED <<queue, reads, snapshots>>
  BY DEF NextPage, SameSource
<1>3. PICK p \in Pages(m, o) :
         \/ Unavailable(c)
         \/ /\ p.source = load.source
            /\ load' = [load EXCEPT !.pages = Append(load.pages, p),
                  !.flying = Launched(load.total, Len(Append(load.pages, p)))
                               \ {q.offset : q \in Range(Append(load.pages, p))}]
            /\ UNCHANGED <<queue, reads, snapshots>>
  BY <1>2
<1>4. Fetched(m, load)
  <2>1. load # NoLoad
    BY DEF NoLoad
  <2> QED
    BY <1>1, <2>1 DEF ScreenInv, Loads
<1>5. CASE Unavailable(c)
  BY <1>1, <1>5, UnavailableKeeps
<1> DEFINE n == Len(load.pages)
           pages == Append(load.pages, p)
           flying == Launched(load.total, Len(pages)) \ {q.offset : q \in Range(pages)}
<1>6. CASE /\ p.source = load.source
           /\ load' = [load EXCEPT !.pages = pages, !.flying = flying]
           /\ UNCHANGED <<queue, reads, snapshots>>
  <2>1. /\ load.total \in Nat \ {0} /\ load.pages \in Seq(AnyPage) /\ n \in Nat \ {0}
        /\ DOMAIN load.pages = 1..n /\ PageSize \in Nat \ {0}
    BY <1>4, ScreenAssumption, EmptySeq, LenProperties DEF Fetched
  <2>2. /\ o \in Launched(load.total, n) /\ o \notin {q.offset : q \in Range(load.pages)}
    BY <1>4 DEF Fetched
  <2>3. PICK k \in 1..load.total : o = k * PageSize /\ o < load.total
    BY <2>2 DEF Launched
  <2>4. k \in Nat /\ o \in Nat
    BY <2>1, <2>3, Multiples
  <2>5. p \in AnyPage /\ p.offset = o /\ \E s \in Sources : s.market = m /\ PageOf(s, p)
    <3> HIDE DEF m
    <3> QED
      BY <2>4, PageFacts
  <2>6. \A i \in 1..n : load.pages[i].offset # o
    BY <2>1, <2>2 DEF Range
  <2>7. /\ load'.total = load.total /\ load'.source = load.source
        /\ load'.pages = pages /\ load'.flying = flying
        /\ load' = [total |-> load'.total, source |-> load'.source,
                    pages |-> load'.pages, flying |-> load'.flying]
    <3> HIDE DEF pages, flying
    <3>1. load = [total |-> load.total, source |-> load.source,
                  pages |-> load.pages, flying |-> load.flying]
      BY <1>4 DEF Fetched
    <3>2. load' = [total |-> load.total, source |-> load.source,
                   pages |-> pages, flying |-> flying]
      BY <1>6, <3>1
    <3> QED
      BY <3>2
  <2> DEFINE l == load'
  <2>8. /\ pages \in Seq(AnyPage) /\ pages # <<>> /\ Len(pages) = n + 1
        /\ \A i \in 1..n : pages[i] = load.pages[i]
        /\ pages[n + 1] = p
    BY <2>1, <2>5, AppendProperties
  <2>9. \A i \in 1..(n + 1) : i \in 1..n \/ i = n + 1
    <3> HIDE DEF n
    <3> QED
      BY <2>1
  <2> HIDE DEF l, n
  <2>10. \A i, j \in 1..Len(pages) : pages[i].offset = pages[j].offset => i = j
    <3> HIDE DEF pages
    <3>1. \A i, j \in 1..n : load.pages[i].offset = load.pages[j].offset => i = j
      BY <1>4 DEF Fetched, n
    <3> QED
      BY <2>5, <2>6, <2>8, <2>9, <3>1
  <2>11. pages[1].offset = 0
    <3> HIDE DEF pages
    <3>1. 1 \in 1..n /\ load.pages[1].offset = 0
      BY <1>4, <2>1 DEF Fetched, n
    <3> QED
      BY <2>8, <3>1
  <2>12. \A i \in 1..Len(pages) :
            /\ pages[i].source = load.source /\ pages[i].offset < load.total
            /\ \E j \in Nat : pages[i].offset = j * PageSize
            /\ \E s \in Sources : s.market = m /\ PageOf(s, pages[i])
    <3> HIDE DEF pages, m
    <3> SUFFICES ASSUME NEW i \in 1..(n + 1)
                 PROVE  /\ pages[i].source = load.source /\ pages[i].offset < load.total
                        /\ \E j \in Nat : pages[i].offset = j * PageSize
                        /\ \E s \in Sources : s.market = m /\ PageOf(s, pages[i])
      BY <2>8
    <3>1. CASE i \in 1..n
      BY <1>4, <2>8, <3>1 DEF Fetched, n
    <3>2. CASE i = n + 1
      BY <1>6, <2>3, <2>4, <2>5, <2>8, <3>2
    <3> QED
      BY <2>9, <3>1, <3>2
  <2>13. Fetched(m, l)
    <3>1. l.total = load.total /\ l.source = load.source /\ l.pages = pages
          /\ l.flying = Launched(l.total, Len(l.pages)) \ {q.offset : q \in Range(l.pages)}
          /\ l = [total |-> l.total, source |-> l.source, pages |-> l.pages, flying |-> l.flying]
      BY <2>7 DEF l
    <3> HIDE DEF pages, flying, m
    <3> QED
      BY <2>1, <2>8, <2>10, <2>11, <2>12, <3>1 DEF Fetched
  <2> QED
    BY <1>1, <1>6, <2>13, LoadKeeps DEF l
<1> QED
  BY <1>3, <1>5, <1>6

LEMMA CompleteKeeps ==
  ASSUME ScreenInv, NEW c \in Readers, Complete(c)
  PROVE  ScreenInv'
<1> DEFINE m == reads[c].of.market
           rows == Assembled(Range(load.pages))
<1>1. Loading(c) /\ load.pages # <<>> /\ load.flying = {}
  BY DEF Complete
<1>2. Fetched(m, load)
  <2>1. load # NoLoad
    BY <1>1 DEF NoLoad
  <2> QED
    BY <1>1, <2>1 DEF ScreenInv, Loads
<1>3. CASE Unavailable(c)
  BY <1>1, <1>3, UnavailableKeeps
<1>4. CASE Accepted(m, Range(load.pages), load.total) /\ Cache(c, rows, load.source)
  <2>1. Sound(m, rows, load.source)
    BY <1>1, <1>2, <1>4, CompleteSound
  <2>2. rows \in Seq(Instruments)
    <3>1. PICK n \in Nat : Laid(Range(load.pages), n + 1)
      BY <1>1, <1>2, AllLaid
    <3>2. n + 1 \in Nat
      OBVIOUS
    <3> QED
      BY <3>1, <3>2, AssembledTyped
  <2>3. load.source \in Provenance
    <3>1. load.pages \in Seq(AnyPage) /\ 1 \in 1..Len(load.pages)
      BY <1>2, EmptySeq DEF Fetched
    <3>2. load.pages[1] \in AnyPage /\ load.pages[1].source = load.source
      BY <1>2, <3>1, ElementOfSeq DEF Fetched
    <3> QED
      BY <3>2 DEF AnyPage
  <2> HIDE DEF rows
  <2>4. [rows |-> rows, source |-> load.source] \in AnySnapshot
    BY <2>2, <2>3 DEF AnySnapshot
  <2> QED
    BY <1>1, <1>4, <2>1, <2>4, CacheKeeps
<1> QED
  BY <1>3, <1>4 DEF Complete

LEMMA DroppedKeeps ==
  ASSUME ScreenInv, NEW c \in Readers, Dropped(c)
  PROVE  ScreenInv'
<1> DEFINE i == CHOOSE j \in DOMAIN queue : queue[j] = c
<1>1. /\ reads[c].phase # "idle" /\ reads' = [reads EXCEPT ![c] = Quiet]
      /\ queue' = RemoveAt(queue, i) /\ load' = (IF Loading(c) THEN NoLoad ELSE load)
      /\ UNCHANGED snapshots
  BY DEF Dropped
<1>2. i \in DOMAIN queue /\ queue[i] = c
  <2>1. \E j \in DOMAIN queue : queue[j] = c
    BY <1>1 DEF ScreenInv, Queued
  <2> QED
    BY <2>1
<1> HIDE DEF i
<1>3. queue \in Seq(Readers) /\ queue' \in Seq(Readers) /\ Leaves(queue, i, queue')
  BY <1>1, <1>2, RemoveLeaves DEF ScreenInv, ScreenTypes
<1>4. /\ reads' \in [Readers -> Reading] /\ Queued'
      /\ \A d \in Readers : reads'[d] = IF d = c THEN Quiet ELSE reads[d]
      /\ i # 1 => queue' # <<>> /\ Head(queue') = Head(queue)
  BY <1>1, <1>2, <1>3, LeftKeeps
<1>5. \A d \in Readers : Loading(d)' => d # c /\ Loading(d) /\ reads'[d] = reads[d]
  BY <1>4 DEF Loading, Quiet
<1>6. Loads'
  <2>1. CASE Loading(c)
    <3>1. \A d \in Readers : ~Loading(d)'
      BY <1>5, <2>1, OneLoads DEF ScreenInv, Loads
    <3> QED
      BY <1>1, <2>1, <3>1 DEF Loads
  <2>2. CASE ~Loading(c)
    <3>1. \A d \in Readers : Loading(d)' <=> Loading(d)
      BY <1>4, <1>5, <2>2 DEF Loading
    <3>2. ASSUME NEW d \in Readers, Loading(d)'
          PROVE  Holder(d)' /\ (load' = NoLoad \/ Fetched(reads'[d].of.market, load'))
      <4>1. d # c /\ Loading(d) /\ reads'[d] = reads[d]
        BY <1>5, <3>2
      <4>2. Holder(d) /\ (load = NoLoad \/ Fetched(reads[d].of.market, load))
        BY <4>1 DEF ScreenInv, Loads
      <4>3. i # 1
        BY <1>2, <4>1, <4>2, OneLoads
      <4>4. Holder(d)'
        BY <1>4, <4>2, <4>3 DEF Holder
      <4> QED
        BY <1>1, <2>2, <4>1, <4>2, <4>4
    <3>3. (\A d \in Readers : ~Loading(d)') => load' = NoLoad
      BY <1>1, <2>2, <3>1 DEF ScreenInv, Loads
    <3> QED
      BY <3>2, <3>3 DEF Loads
  <2> QED
    BY <2>1, <2>2
<1>7. Cached' /\ snapshots' \in [Markets -> AnySnapshot]
  BY <1>1 DEF ScreenInv, ScreenTypes, Cached
<1> QED
  BY <1>3, <1>4, <1>6, <1>7 DEF ScreenInv, ScreenTypes, Reading

LEMMA DueKeeps ==
  ASSUME ScreenInv, NEW m \in Markets, Due(m)
  PROVE  ScreenInv'
<1>1. snapshots' = [snapshots EXCEPT ![m] = None] /\ UNCHANGED <<queue, reads, load>>
      /\ snapshots \in [Markets -> AnySnapshot]
  BY DEF Due, ScreenInv, ScreenTypes
<1>2. /\ snapshots' \in [Markets -> AnySnapshot]
      /\ \A k \in Markets : snapshots'[k] = IF k = m THEN None ELSE snapshots[k]
  BY <1>1 DEF AnySnapshot
<1>3. Cached'
  BY <1>2 DEF ScreenInv, Cached
<1> QED
  BY <1>1, <1>2, <1>3 DEF ScreenInv, ScreenTypes, Queued, Loads, Loading, Holder

LEMMA RefusedKeeps ==
  ASSUME ScreenInv, NEW c \in Readers, Refused(c)
  PROVE  ScreenInv'
<1>1. Holder(c) /\ Answer(c) /\ load' = NoLoad /\ UNCHANGED snapshots
  BY DEF Refused, ScreenInv, Loads
<1>2. snapshots' \in [Markets -> AnySnapshot] /\ Cached'
  BY <1>1 DEF ScreenInv, ScreenTypes, Cached
<1> QED
  BY <1>1, <1>2, AnswerKeeps

LEMMA ScreenNextKeeps ==
  ASSUME ScreenInv, ScreenNext
  PROVE  ScreenInv'
<1> QED
  BY ReadKeeps, LookKeeps, FirstPageKeeps, NextPageKeeps, CompleteKeeps, UnavailableKeeps,
     RefusedKeeps, DroppedKeeps, DueKeeps DEF ScreenNext, Fails

LEMMA ScreenStarts ==
  ASSUME ScreenInit
  PROVE  ScreenInv
<1> USE DEF ScreenInit
<1>1. queue = <<>> /\ queue \in Seq(Readers) /\ DOMAIN queue = {}
  BY EmptySeq
<1>2. reads \in [Readers -> Reading] /\ \A c \in Readers : reads[c].phase = "idle"
  BY DEF Reading, Quiet
<1>3. snapshots \in [Markets -> AnySnapshot] /\ \A m \in Markets : snapshots[m] = None
  BY DEF AnySnapshot
<1>4. Queued
  BY <1>1, <1>2 DEF Queued, IsInjective
<1>5. Loads
  BY <1>2 DEF Loads, Loading
<1> QED
  BY <1>1, <1>2, <1>3, <1>4, <1>5 DEF ScreenInv, ScreenTypes, Cached, Reading

LEMMA WholeFromInv ==
  ASSUME ScreenInv
  PROVE  SnapshotsAreWhole
<1> SUFFICES ASSUME NEW m \in Markets, snapshots[m] # None,
                    NEW rows, rows = snapshots[m].rows, rows # None
             PROVE  /\ IsInjective(rows)
                    /\ snapshots[m].source.id # None =>
                          \E s \in Sources : s.market = m /\ s.id = snapshots[m].source.id
                                             /\ s.rows = rows
                    /\ \A q \in Queries : /\ IsInjective(Screens(rows, q))
                                          /\ Range(Screens(rows, q)) = Selected(rows, q)
  BY DEF SnapshotsAreWhole
<1>1. Sound(m, rows, snapshots[m].source)
  BY DEF ScreenInv, Cached
<1>2. rows \in Seq(Instruments)
  BY <1>1 DEF Sound
<1> QED
  BY <1>1, <1>2, ScreensSound DEF Sound

(* The desktop's steps are a screen's, leave the screens alone or end them   *)
(* with their provider: the holder of the mutex is the only one that loads,  *)
(* and the pages it has are of one source, at offsets of their own.          *)
THEOREM ScreensInvariant == Spec => []ScreenInv
<1>1. Init => ScreenInv
  BY ScreenStarts DEF Init
<1>2. ScreenInv /\ [Next]_desktopVars => ScreenInv'
  <2> SUFFICES ASSUME ScreenInv, [Next]_desktopVars PROVE ScreenInv'
    OBVIOUS
  <2>1. CASE UNCHANGED screenVars
    BY <2>1 DEF screenVars, ScreenInv, ScreenTypes, Queued, Loads, Loading, Holder, Cached
  <2>2. CASE ScreensStop
    <3>1. ScreenInit'
      BY <2>2 DEF ScreensStop, ScreenInit
    <3>2. ScreenInit' => ScreenInv'
      BY ScreenStarts, PTL
    <3> QED
      BY <3>1, <3>2
  <2>3. CASE ScreenNext
    BY <2>3, ScreenNextKeeps
  <2> QED
    BY <2>1, <2>2, <2>3 DEF Next, SessionStep, ScreenStep, desktopVars
<1>3. Spec => Init /\ [][Next]_desktopVars
  BY DEF Spec
<1> QED
  BY <1>1, <1>2, <1>3, PTL

(* No instrument is in a snapshot twice, a snapshot of a named version has   *)
(* exactly its instruments, and the screens show every selected one once.    *)
THEOREM SnapshotsWhole == Spec => []SnapshotsAreWhole
<1> QED
  BY WholeFromInv, ScreensInvariant, PTL
=============================================================================
