--------------------------- MODULE FinancialEngine ---------------------------
(* The financial engine (crates/mcp-server): one loop reads the requests of  *)
(* one client, and every accepted tool call is a task that runs its job in a *)
(* child process, under a permit and a deadline (supervisor.rs).  A child    *)
(* that registers a snapshot imports it into the store, and may be killed at *)
(* any step; `import` on the command line does the same beside the server.   *)
EXTENDS SnapshotStore, Naturals, Sequences

CONSTANTS
    Plans,          \* what may be asked: [calls, imports]
    MaxCalls,       \* the longest plan; calls are numbered
    MaxAdmitted,    \* 68
    MaxWorkers,     \* 4
    Buffered,       \* answers that wait for the writer: 64
    CommandLine     \* the process of `import`

Calls == 1..MaxCalls

ASSUME EngineAssumption ==
    /\ MaxCalls \in Nat /\ MaxWorkers \in Nat /\ None \notin Calls
    /\ Importers = Calls \cup {CommandLine}
    /\ \A p \in Plans :
          /\ p.imports \subseteq Snapshots
          /\ DOMAIN p.calls \subseteq Calls
          /\ \A e \in DOMAIN p.calls :
                p.calls[e].job.does = "register" => p.calls[e].job.of \in Snapshots

VARIABLES
    plan,           \* one of Plans: never changes
    server,         \* [phase, hello, broken, out, read]
    pending,        \* pending: the running call of a request id
    exec,           \* per call: [phase, cancelled]
    child           \* per call: [state, job, control]

engineVars == <<plan, server, pending, exec, child>>

vars == <<storeVars, engineVars>>

Id(e) == plan.calls[e].id

Job(e) == plan.calls[e].job

Ids == {plan.calls[e].id : e \in DOMAIN plan.calls}

(* The phases of execute: the task waits for a permit, writes the job, waits *)
(* for the reply, waits for the exit, kills and reaps; then it answers.      *)
Supervised == {"writing", "reading", "exiting"}

Holding == Supervised \cup {"reaping"}

InTask == Holding \cup {"queued", "answering"}

(* A token that is cancelled later than this changes nothing.                *)
Waits(e) == exec[e].phase \in Supervised \cup {"queued"}

Alive(e) == child[e].state \in {"boot", "computing", "written"}

Admitted == {e \in Calls : exec[e].phase \in InTask}

Permits == {e \in Calls : exec[e].phase \in Holding}

NoCall == [phase |-> "none", cancelled |-> FALSE]

NoChild == [state |-> "none", job |-> FALSE, control |-> "open"]

Init ==
    /\ StoreInit
    /\ plan \in Plans
    /\ server = [phase |-> "serving", hello |-> "new", broken |-> FALSE,
                 out |-> 0, read |-> 0]
    /\ pending = [i \in Ids |-> None]
    /\ exec = [e \in Calls |-> NoCall]
    /\ child = [e \in Calls |-> NoChild]

-----------------------------------------------------------------------------
(* The loop of serve.  send gives up after two seconds without room, or at   *)
(* once when the writer has stopped: the loop then ends.                     *)
Serving == server.phase = "serving"

Room == server.out < Buffered /\ ~server.broken

CancelAll ==
    [e \in Calls |-> [exec[e] EXCEPT !.cancelled = @ \/ Waits(e)]]

Replied(s) ==
    IF Room
    THEN server' = [s EXCEPT !.out = @ + 1] /\ UNCHANGED exec
    ELSE server' = [s EXCEPT !.phase = "draining"] /\ exec' = CancelAll

(* Frames that are too large or no request, ping, tools/list, unknown        *)
(* methods and tools, and whatever comes before the handshake: one answer.   *)
AnswerDirectly ==
    /\ Serving
    /\ Replied(server)
    /\ UNCHANGED <<plan, pending, child>>

Initialize ==
    /\ Serving /\ server.hello = "new"
    /\ Replied([server EXCEPT !.hello = "initialized"])
    /\ UNCHANGED <<plan, pending, child>>

NotifyInitialized ==
    /\ Serving /\ server.hello = "initialized"
    /\ server' = [server EXCEPT !.hello = "ready"]
    /\ UNCHANGED <<plan, pending, exec, child>>

(* (mutant) A duplicate identifier is not looked for.                        *)
CallDuplicates(e) ==
    /\ Serving /\ server.hello = "ready"
    /\ e = server.read + 1
    /\ IF Cardinality(Admitted) >= MaxAdmitted
       THEN Replied([server EXCEPT !.read = e]) /\ UNCHANGED pending
       ELSE /\ server' = [server EXCEPT !.read = e]
            /\ pending' = [pending EXCEPT ![Id(e)] = e]
            /\ exec' = [exec EXCEPT ![e].phase = "queued",
                                    ![e].cancelled = server.broken]
    /\ UNCHANGED <<plan, child>>

(* tools/call: the identifier of a call in flight and a full engine are      *)
(* answered at once.  The token is a child of the shutdown token.            *)
Call(e) ==
    /\ Serving /\ server.hello = "ready"
    /\ e = server.read + 1
    /\ IF pending[Id(e)] # None \/ Cardinality(Admitted) >= MaxAdmitted
       THEN Replied([server EXCEPT !.read = e]) /\ UNCHANGED pending
       ELSE /\ server' = [server EXCEPT !.read = e]
            /\ pending' = [pending EXCEPT ![Id(e)] = e]
            /\ exec' = [exec EXCEPT ![e].phase = "queued",
                                    ![e].cancelled = server.broken]
    /\ UNCHANGED <<plan, child>>

NotifyCancelled(i) ==
    /\ Serving /\ pending[i] # None /\ Waits(pending[i])
    /\ exec' = [exec EXCEPT ![pending[i]].cancelled = TRUE]
    /\ UNCHANGED <<plan, server, pending, child>>

(* A task has returned its key; one that panicked has none to return, and    *)
(* its identifier stays taken.                                               *)
Join(e) ==
    /\ server.phase \in {"serving", "draining"}
    /\ exec[e].phase \in {"ended", "panicked"}
    /\ exec' = [exec EXCEPT ![e].phase = "joined"]
    /\ pending' = [pending EXCEPT ![Id(e)] =
                      IF exec[e].phase = "ended" THEN None ELSE @]
    /\ UNCHANGED <<plan, server, child>>

(* End of input, an interrupt, or a writer that has stopped.                 *)
Stop ==
    /\ Serving
    /\ server' = [server EXCEPT !.phase = "draining"]
    /\ exec' = CancelAll
    /\ UNCHANGED <<plan, pending, child>>

ServeReturns ==
    /\ server.phase = "draining"
    /\ \A e \in Calls : exec[e].phase \in {"none", "joined"}
    /\ server' = [server EXCEPT !.phase = "ended"]
    /\ UNCHANGED <<plan, pending, exec, child>>

WriterSends ==
    /\ server.out > 0 /\ ~server.broken /\ server.phase \in {"serving", "draining"}
    /\ server' = [server EXCEPT !.out = @ - 1]
    /\ UNCHANGED <<plan, pending, exec, child>>

(* The client takes nothing for two seconds, or has gone.                    *)
WriterBreaks ==
    /\ server.out > 0 /\ ~server.broken /\ server.phase \in {"serving", "draining"}
    /\ server' = [server EXCEPT !.broken = TRUE, !.out = 0]
    /\ exec' = CancelAll
    /\ UNCHANGED <<plan, pending, child>>

-----------------------------------------------------------------------------
(* execute: one task.                                                        *)
InPhase(e, p) == exec[e].phase = p

(* What has a reply is not cancelled any more.                               *)
Moves(e, phase) ==
    exec' = [exec EXCEPT ![e].phase = phase,
                         ![e].cancelled = @ /\ phase \in Supervised]

(* The permit, prepare, and the child, without a pause between them.         *)
Launch(e) ==
    /\ InPhase(e, "queued") /\ Cardinality(Permits) < MaxWorkers
    /\ \/ /\ Job(e).does = "latest" => index[Job(e).of] # None
          /\ Moves(e, "writing")
          /\ child' = [child EXCEPT ![e].state = "boot"]
       \/ Moves(e, "answering") /\ UNCHANGED child
    /\ UNCHANGED <<plan, server, pending>>

WriteJob(e) ==
    /\ InPhase(e, "writing") /\ Alive(e)
    /\ Moves(e, "reading")
    /\ child' = [child EXCEPT ![e].job = TRUE]
    /\ UNCHANGED <<plan, server, pending>>

(* (mutant) The control pipe stays open until the child has ended.           *)
ReadReplyKeepsPipe(e) ==
    /\ InPhase(e, "reading") /\ child[e].state = "written"
    /\ Moves(e, "exiting")
    /\ UNCHANGED <<plan, server, pending, child>>

(* The control pipe is closed first: the child's reader of it has to end     *)
(* before the child can.                                                     *)
ReadReply(e) ==
    /\ InPhase(e, "reading") /\ child[e].state = "written"
    /\ Moves(e, "exiting")
    /\ child' = [child EXCEPT ![e].control = "closed"]
    /\ UNCHANGED <<plan, server, pending>>

SeeExit(e) ==
    /\ InPhase(e, "exiting") /\ child[e].state = "exited"
    /\ Moves(e, "reaping")
    /\ UNCHANGED <<plan, server, pending, child>>

SeeCrash(e) ==
    /\ exec[e].phase \in Supervised /\ child[e].state = "failed"
    /\ Moves(e, "reaping")
    /\ UNCHANGED <<plan, server, pending, child>>

(* select takes the token: the child gets the control message and a moment   *)
(* to end by itself.  In the middle of a job it is part of a broken frame.   *)
SeeCancel(e) ==
    /\ exec[e].cancelled
    /\ \/ InPhase(e, "queued") /\ Moves(e, "answering") /\ UNCHANGED child
       \/ /\ exec[e].phase \in Supervised
          /\ Moves(e, "reaping")
          /\ child' = [child EXCEPT ![e].control = IF @ = "open" THEN "sent" ELSE @]
    /\ UNCHANGED <<plan, server, pending>>

Deadline(e) ==
    /\ \/ InPhase(e, "queued") /\ Moves(e, "answering")
       \/ exec[e].phase \in Supervised /\ Moves(e, "reaping")
    /\ UNCHANGED <<plan, server, pending, child>>

(* (mutant) A child is left to itself once the reply is known.               *)
ReapLeaves(e) ==
    /\ InPhase(e, "reaping")
    /\ Moves(e, "answering")
    /\ UNCHANGED <<storeVars, plan, server, pending, child>>

(* What has not ended is killed; then the permit is free.                    *)
Reap(e) ==
    /\ InPhase(e, "reaping")
    /\ child' = [child EXCEPT ![e] = NoChild]
    /\ Killed({e})
    /\ Moves(e, "answering")
    /\ UNCHANGED <<plan, server, pending>>

(* The answer, if it finds room in time.                                     *)
Answer(e) ==
    /\ InPhase(e, "answering")
    /\ server' = [server EXCEPT !.out = IF Room THEN @ + 1 ELSE @]
    /\ Moves(e, "ended")
    /\ UNCHANGED <<plan, pending, child>>

(* The task panics: its child is killed as it is dropped, before its permit. *)
Panic(e) ==
    /\ exec[e].phase \in InTask
    /\ Moves(e, "panicked")
    /\ child' = [child EXCEPT ![e] = NoChild]
    /\ Killed({e})
    /\ UNCHANGED <<plan, server, pending>>

-----------------------------------------------------------------------------
(* worker: the child.                                                        *)
ReadJob(e) ==
    /\ child[e].state = "boot" /\ child[e].job
    /\ child' = [child EXCEPT ![e].state = "computing"]
    /\ IF Job(e).does = "register" THEN Begin(e, Job(e).of)
       ELSE UNCHANGED storeVars

(* No whole job comes: the child returns an error.                           *)
NoJob(e) ==
    /\ child[e].state = "boot" /\ ~child[e].job /\ child[e].control # "open"
    /\ child' = [child EXCEPT ![e].state = "failed"]
    /\ UNCHANGED storeVars

Imports(e) ==
    /\ child[e].state = "computing" /\ Job(e).does = "register"
    /\ ImportStep(e)
    /\ UNCHANGED child

(* compute returns, by itself or because the control pipe told it to, and    *)
(* the reply is written if somebody still reads it.                          *)
Compute(e) ==
    /\ child[e].state = "computing"
    /\ Job(e).does = "register" =>
          import[e].step \in {"stored", "failed"} /\ ~import[e].dirty
    /\ child' = [child EXCEPT ![e].state =
                    IF exec[e].phase \in Holding THEN "written" ELSE "failed"]
    /\ Killed({e})

(* The blocked read of stdin has ended.                                      *)
Exit(e) ==
    /\ child[e].state = "written" /\ child[e].control # "open"
    /\ child' = [child EXCEPT ![e].state = "exited"]
    /\ UNCHANGED storeVars

ChildStep(e) ==
    /\ ReadJob(e) \/ NoJob(e) \/ Imports(e) \/ Compute(e) \/ Exit(e)
    /\ UNCHANGED <<plan, server, pending, exec>>

(* The child panics or is killed from outside.                               *)
Crash(e) ==
    /\ Alive(e)
    /\ child' = [child EXCEPT ![e].state = "failed"]
    /\ Killed({e})
    /\ UNCHANGED <<plan, server, pending, exec>>

-----------------------------------------------------------------------------
(* The server is killed, or a read of stdin fails: some of the children are  *)
(* killed with it, the others find their control pipe closed.                *)
Gone(S) ==
    /\ server' = [server EXCEPT !.phase = "aborted", !.out = 0]
    /\ exec' = [e \in Calls |-> [phase |-> "joined", cancelled |-> FALSE]]
    /\ pending' = [i \in Ids |-> None]
    /\ child' = [e \in Calls |->
                    [child[e] EXCEPT !.control = "closed",
                                     !.state = IF e \in S THEN "failed" ELSE @]]

Abort ==
    /\ server.phase \in {"serving", "draining"}
    /\ \E S \in SUBSET {e \in Calls : Alive(e)} :
          /\ Gone(S)
          /\ Killed(S)
    /\ UNCHANGED plan

Outage ==
    /\ PowerLoss
    /\ Gone({e \in Calls : Alive(e)})
    /\ UNCHANGED plan

(* financial-engine import.                                                  *)
CommandLineImport ==
    /\ \/ \E s \in plan.imports : Begin(CommandLine, s)
       \/ ImportStep(CommandLine)
       \/ Killed({CommandLine})
    /\ UNCHANGED engineVars

LoopStep ==
    \/ AnswerDirectly \/ Initialize \/ NotifyInitialized \/ Stop \/ ServeReturns
    \/ WriterSends \/ WriterBreaks
    \/ \E e \in DOMAIN plan.calls : Call(e) \/ Join(e)
    \/ \E i \in Ids : NotifyCancelled(i)

Works(e) ==
    \/ /\ \/ Launch(e) \/ WriteJob(e) \/ ReadReply(e) \/ SeeExit(e)
          \/ SeeCrash(e) \/ SeeCancel(e) \/ Answer(e)
       /\ UNCHANGED storeVars
    \/ Reap(e)

Next ==
    \/ LoopStep /\ UNCHANGED storeVars
    \/ \E e \in DOMAIN plan.calls :
                        \/ Works(e) \/ ChildStep(e) \/ Crash(e) \/ Panic(e)
                        \/ Deadline(e) /\ UNCHANGED storeVars
    \/ Abort \/ Outage \/ CommandLineImport

(* Tasks and children go on: no deadline, interrupt or crash is needed.      *)
Fairness == \A e \in Calls : WF_vars(Works(e)) /\ WF_vars(ChildStep(e))

Spec == Init /\ [][Next]_vars /\ Fairness

-----------------------------------------------------------------------------
(* A child lives under its task's permit, so never more than MaxWorkers of   *)
(* them calculate, and none is left when serve returns.                      *)
ChildrenHeld ==
    server.phase # "aborted" =>
        /\ Cardinality({e \in Calls : Alive(e)}) <= MaxWorkers
        /\ \A e \in Calls : Alive(e) => exec[e].phase \in Holding

(* A request identifier names the one call that runs under it: a             *)
(* cancellation never reaches another call, and every running call can be    *)
(* cancelled.                                                                *)
InFlightIsPending ==
    \A e \in Calls : exec[e].phase \in InTask \cup {"ended"} => pending[Id(e)] = e

(* Every accepted call ends on its own: permits come free, a child that has  *)
(* answered exits and a child that died is noticed, though no deadline ever  *)
(* passes.                                                                   *)
CallsEnd == \A e \in Calls : exec[e].phase \in InTask ~> exec[e].phase \notin InTask
=============================================================================
