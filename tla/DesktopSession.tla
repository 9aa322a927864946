--------------------------- MODULE DesktopSession ---------------------------
(* The session of the desktop host (frontend/src-tauri/src/terminal.rs and   *)
(* lib.rs): web views ask for it to start, commands use it, and an exit of   *)
(* the application cancels a start or closes it in order.  All of them meet  *)
(* at one tokio mutex, which is fair; a start keeps it while it asks the     *)
(* server who the user is, opens the database and loads the workspace, and   *)
(* the exit while the session closes.                                        *)
EXTENDS Sequences

CONSTANTS
    Callers     \* commands of the web views under way at the same time

(* The shutdown is a task of its own.                                        *)
ASSUME SessionAssumption == "exit" \notin Callers

VARIABLES
    calls,      \* per caller: where its command is
    woken,      \* the callers that cancel_startup has notified
    lock,       \* who holds the session's mutex, at the head, and who waits
    installed,  \* the mutex holds a session
    parts,      \* [storage, engine, forwarder, resources]: what runs
    news,       \* the engine has published a snapshot nobody has looked at
    closing,    \* where the exit is
    app,        \* [pending, exiting, finished, exited]: the host
    late        \* a deadline of the exit has passed

sessionVars == <<calls, woken, lock, installed, parts, news, closing, app, late>>

Exit == "exit"

Nothing == [storage |-> "none", engine |-> "none", forwarder |-> "none", resources |-> "none"]

SessionInit ==
    /\ calls = [c \in Callers |-> "idle"] /\ woken = {}
    /\ lock = <<>> /\ installed = FALSE
    /\ parts = Nothing /\ news = FALSE
    /\ closing = "none" /\ late = FALSE
    /\ app = [pending |-> FALSE, exiting |-> FALSE, finished |-> FALSE, exited |-> FALSE]

Has(p) == lock # <<>> /\ Head(lock) = p

(* The start of a caller that holds the lock, and is notified of an exit.    *)
Starting == {"enabled", "naming", "opening", "loading", "failing"}

(* The command that has the lock returns, and its future lets go of it.      *)
Return(c) ==
    /\ calls' = [calls EXCEPT ![c] = "idle"]
    /\ woken' = woken \ {c}
    /\ lock' = Tail(lock)

Goes(c, phase) ==
    /\ calls' = [calls EXCEPT ![c] = phase]
    /\ UNCHANGED <<woken, lock>>

-----------------------------------------------------------------------------
(* Commands: each asks for the lock, and most look at exiting before, on one *)
(* of several threads: the exit may come between the look and the queue.     *)
Looks(c) ==
    /\ ~app.exiting /\ calls[c] = "idle"
    /\ Goes(c, "looked")
    /\ UNCHANGED <<installed, parts, news, closing, app, late>>

Asks(c, phase) ==
    /\ calls' = [calls EXCEPT ![c] = phase]
    /\ lock' = Append(lock, c)
    /\ UNCHANGED <<woken, installed, parts, news, closing, app, late>>

(* terminal_start, one of the actions, which may be quit, or another.        *)
AskChecked(c) ==
    /\ calls[c] = "looked"
    /\ \E phase \in {"asking", "quitting", "using"} : Asks(c, phase)

(* The connection, what was published, unsubscribing, watchlists.            *)
AskUnchecked(c) == calls[c] = "idle" /\ Asks(c, "using")

(* A handle is cloned, or an action put in the engine's queue.               *)
Use(c) ==
    /\ calls[c] = "using" /\ Has(c)
    /\ Return(c)
    /\ UNCHANGED <<installed, parts, news, closing, app, late>>

Stopped(engine) == IF engine = "running" THEN "stopping" ELSE engine

Quit(c) ==
    /\ calls[c] = "quitting" /\ Has(c)
    /\ Return(c)
    /\ parts' = IF installed THEN [parts EXCEPT !.engine = Stopped(@)] ELSE parts
    /\ UNCHANGED <<installed, news, closing, app, late>>

-----------------------------------------------------------------------------
(* terminal_start.                                                           *)

(* The lock: a session that exists is answered, otherwise cancel_startup is  *)
(* listened to.                                                              *)
Enter(c) ==
    /\ calls[c] = "asking" /\ Has(c)
    /\ IF installed THEN Return(c) ELSE Goes(c, "enabled")
    /\ UNCHANGED <<installed, parts, news, closing, app, late>>

Configured(c) ==
    \/ Return(c) /\ UNCHANGED parts
    \/ Goes(c, "naming") /\ UNCHANGED parts
    \/ Goes(c, "opening") /\ parts' = [Nothing EXCEPT !.storage = "opening"]

(* (mutant) The look at exiting before the queue is the only one.            *)
CheckNoMore(c) ==
    /\ calls[c] = "enabled"
    /\ Configured(c)
    /\ UNCHANGED <<installed, news, closing, app, late>>

(* exiting again, then the configuration, which may be refused: mock data    *)
(* needs no name.                                                            *)
Check(c) ==
    /\ calls[c] = "enabled"
    /\ \/ app.exiting /\ Return(c) /\ UNCHANGED parts
       \/ ~app.exiting /\ Configured(c)
    /\ UNCHANGED <<installed, news, closing, app, late>>

(* namespace: the server says whether it requires a user, and who that is.   *)
Name(c) ==
    /\ calls[c] = "naming"
    /\ \/ Return(c) /\ UNCHANGED parts
       \/ Goes(c, "opening") /\ parts' = [Nothing EXCEPT !.storage = "opening"]
    /\ UNCHANGED <<installed, news, closing, app, late>>

(* StorageWorker::start: the thread opens the database, or ends.             *)
Open(c) ==
    /\ calls[c] = "opening"
    /\ \/ Return(c) /\ parts' = Nothing
       \/ Goes(c, "loading") /\ parts' = [parts EXCEPT !.storage = "ready"]
    /\ UNCHANGED <<installed, news, closing, app, late>>

(* The engine has loaded the workspace: the session is installed.            *)
Install(c) ==
    /\ calls[c] = "loading"
    /\ Return(c)
    /\ installed' = TRUE
    /\ parts' = [parts EXCEPT !.engine = "running", !.forwarder = "waiting", !.resources = "waiting"]
    /\ news' = FALSE
    /\ UNCHANGED <<closing, app, late>>

LoadFails(c) ==
    /\ calls[c] = "loading"
    /\ Goes(c, "failing")
    /\ UNCHANGED <<installed, parts, news, closing, app, late>>

(* The storage of a failed start is shut down before the error is answered.  *)
StartFails(c) ==
    /\ calls[c] = "failing"
    /\ Return(c)
    /\ parts' = [parts EXCEPT !.storage = "closed"]
    /\ UNCHANGED <<installed, news, closing, app, late>>

(* The start is dropped where it is: a thread that has no client left ends   *)
(* by itself.                                                                *)
Canceled(c) ==
    /\ c \in woken /\ calls[c] \in Starting \ {"enabled"}
    /\ Return(c)
    /\ parts' = IF calls[c] = "naming" THEN parts ELSE [parts EXCEPT !.storage = "abandoned"]
    /\ UNCHANGED <<installed, news, closing, app, late>>

-----------------------------------------------------------------------------
(* The engine and the forwarder of its snapshots.                            *)

Publish ==
    /\ parts.engine = "running" /\ ~news
    /\ news' = TRUE
    /\ UNCHANGED <<calls, woken, lock, installed, parts, closing, app, late>>

(* The last snapshot is the one that says quitting.                          *)
EngineEnds ==
    /\ parts.engine = "stopping"
    /\ parts' = [parts EXCEPT !.engine = "ended"]
    /\ news' = TRUE
    /\ UNCHANGED <<calls, woken, lock, installed, closing, app, late>>

(* latest.changed(), which sees what is new before it sees the end.          *)
Wake ==
    /\ parts.forwarder = "waiting" /\ (news \/ parts.engine = "ended")
    /\ parts' = [parts EXCEPT !.forwarder = IF news THEN "sleeping" ELSE "ended"]
    /\ news' = FALSE
    /\ UNCHANGED <<calls, woken, lock, installed, closing, app, late>>

(* After 16 ms whatever is the latest is sent; quitting ends the host.       *)
Forward ==
    /\ parts.forwarder = "sleeping"
    /\ \/ /\ parts.engine = "ended"
          /\ parts' = [parts EXCEPT !.forwarder = "ended"]
          /\ app' = [app EXCEPT !.pending = TRUE]
       \/ /\ parts.engine # "ended"
          /\ parts' = [parts EXCEPT !.forwarder = "waiting"]
          /\ UNCHANGED app
    /\ news' = FALSE
    /\ UNCHANGED <<calls, woken, lock, installed, closing, late>>

-----------------------------------------------------------------------------
(* The exit.                                                                 *)

CloseWindow ==
    /\ ~app.pending
    /\ app' = [app EXCEPT !.pending = TRUE]
    /\ UNCHANGED <<calls, woken, lock, installed, parts, news, closing, late>>

(* ExitRequested is prevented until the shutdown has finished; the first one *)
(* begins it.                                                                *)
ExitRequested ==
    /\ app.pending /\ ~app.exited
    /\ app' = [app EXCEPT !.pending = FALSE, !.exited = app.finished, !.exiting = TRUE]
    /\ closing' = IF app.exiting THEN closing ELSE "notifying"
    /\ UNCHANGED <<calls, woken, lock, installed, parts, news, late>>

(* notify_waiters, and the shutdown as a task.                               *)
Notify ==
    /\ closing = "notifying"
    /\ woken' = {c \in Callers : calls[c] \in Starting}
    /\ closing' = "locking"
    /\ lock' = Append(lock, Exit)
    /\ UNCHANGED <<calls, installed, parts, news, app, late>>

(* DesktopState::shutdown takes the session and keeps the lock.              *)
TakeSession ==
    /\ closing = "locking" /\ Has(Exit)
    /\ installed' = FALSE
    /\ \/ /\ installed
          /\ closing' = "research"
          /\ parts' = [parts EXCEPT !.engine = Stopped(@)]
          /\ UNCHANGED lock
       \/ /\ ~installed
          /\ closing' = "done"
          /\ lock' = Tail(lock)
          /\ UNCHANGED parts
    /\ UNCHANGED <<calls, woken, news, app, late>>

(* Session::shutdown, one part after the other.                              *)
CloseStep ==
    /\ \/ closing = "research" /\ closing' = "resources" /\ UNCHANGED parts
       \/ /\ closing = "resources" /\ closing' = "forwarder"
          /\ parts' = [parts EXCEPT !.resources = "ended"]
       \/ /\ closing = "forwarder" /\ closing' = "engine"
          /\ parts' = [parts EXCEPT !.forwarder = "ended"]
       \/ /\ closing = "engine" /\ closing' = "storage"
          /\ parts.engine = "ended"
          /\ UNCHANGED parts
    /\ UNCHANGED <<calls, woken, lock, installed, news, app, late>>

(* After five seconds the engine is aborted.                                 *)
EngineTooLate ==
    /\ closing = "engine" /\ parts.engine # "ended"
    /\ closing' = "storage" /\ late' = TRUE
    /\ parts' = [parts EXCEPT !.engine = "ended"]
    /\ UNCHANGED <<calls, woken, lock, installed, news, app>>

CloseStorage ==
    /\ closing = "storage" /\ closing' = "done"
    /\ parts' = [parts EXCEPT !.storage = "closed"]
    /\ lock' = Tail(lock)
    /\ UNCHANGED <<calls, woken, installed, news, app, late>>

(* Twelve seconds for all of it, five for the storage: the rest is dropped.  *)
GiveUp ==
    /\ closing \in {"locking", "research", "resources", "forwarder", "engine", "storage"}
    /\ closing' = "done" /\ late' = TRUE
    /\ lock' = SelectSeq(lock, LAMBDA p : p # Exit)
    /\ UNCHANGED <<calls, woken, installed, parts, news, app>>

(* (mutant) The host is told to exit before the shutdown counts as finished. *)
ExitThenFinish ==
    /\ \/ /\ closing = "done" /\ closing' = "leaving"
          /\ app' = [app EXCEPT !.pending = TRUE]
       \/ /\ closing = "leaving" /\ closing' = "over"
          /\ app' = [app EXCEPT !.finished = TRUE]
    /\ UNCHANGED <<calls, woken, lock, installed, parts, news, late>>

(* finished, then app.exit.                                                  *)
Finish ==
    /\ \/ /\ closing = "done" /\ closing' = "leaving"
          /\ app' = [app EXCEPT !.finished = TRUE]
       \/ /\ closing = "leaving" /\ closing' = "over"
          /\ app' = [app EXCEPT !.pending = TRUE]
    /\ UNCHANGED <<calls, woken, lock, installed, parts, news, late>>

-----------------------------------------------------------------------------
(* What runs without waiting for a server, a disk or a deadline.             *)
CallerStep(c) == AskChecked(c) \/ Use(c) \/ Quit(c) \/ Enter(c) \/ Check(c) \/ Canceled(c)

EngineStep == EngineEnds \/ Publish

ForwarderStep == Wake \/ Forward

ShutdownStep == Notify \/ TakeSession \/ Finish

(* What the shutdown waits for.                                              *)
Closes == CloseStep \/ CloseStorage

Deadline == EngineTooLate \/ GiveUp

SlowStep(c) == Name(c) \/ Open(c) \/ Install(c) \/ LoadFails(c) \/ StartFails(c)

(* With the host everything ends.                                            *)
SessionNext ==
    /\ ~app.exited
    /\ \/ \E c \in Callers : \/ Looks(c) \/ AskUnchecked(c)
                             \/ CallerStep(c) \/ SlowStep(c)
       \/ EngineStep \/ ForwarderStep \/ ShutdownStep \/ Closes
       \/ CloseWindow \/ ExitRequested \/ Deadline

-----------------------------------------------------------------------------
(* When no deadline has passed and the host is told that it may exit, no     *)
(* session is left or still starting: the engine and both forwarders have    *)
(* ended and the storage is closed, or was left to end by a cancelled start. *)
NothingOutlivesExit ==
    app.finished /\ ~late =>
        /\ ~installed
        /\ \A c \in Callers : calls[c] \notin Starting \ {"enabled"}
        /\ parts.engine \in {"none", "ended"}
        /\ parts.forwarder \in {"none", "ended"} /\ parts.resources \in {"none", "ended"}
        /\ parts.storage \in {"none", "closed", "abandoned"}
=============================================================================
