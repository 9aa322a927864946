------------------------------ MODULE Desktop -------------------------------
(* The desktop process: equity screens are commands that run in the session, *)
(* with the provider that its start has made.  They hold no lock of the host,*)
(* so an exit meets them anywhere, and the shutdown of the session drops them;*)
(* Quit stops the engine and leaves them alone.                              *)
EXTENDS DesktopSession, Screener

CONSTANTS
    MaxCommands     \* bound: commands and screens under way at once

desktopVars == <<sessionVars, screenVars>>

Init == SessionInit /\ ScreenInit

(* engine.stop, the first step of Session::shutdown.                         *)
SessionTaken == installed /\ ~installed'

(* resources.stop: the calls end, and the provider goes with the session.    *)
ScreensStop ==
    /\ queue' = <<>>
    /\ reads' = [c \in Readers |-> Quiet]
    /\ snapshots' = [m \in Markets |-> None]
    /\ load' = NoLoad

SessionStep == SessionNext /\ IF SessionTaken THEN ScreensStop ELSE UNCHANGED screenVars

ScreenStep ==
    /\ installed /\ ~app.exited
    /\ ScreenNext
    /\ UNCHANGED sessionVars

UnderWay == Cardinality({c \in Callers : calls[c] # "idle"})
            + Cardinality({c \in Readers : reads[c].phase # "idle"})

Next ==
    /\ SessionStep \/ ScreenStep
    /\ UnderWay' <= MaxCommands

(* What runs goes on; a server, a disk, a part that is waited for and a      *)
(* deadline may take for ever.                                               *)
Fairness ==
    /\ \A c \in Callers : WF_sessionVars(~app.exited /\ CallerStep(c))
    /\ WF_sessionVars(~app.exited /\ ForwarderStep)
    /\ WF_sessionVars(~app.exited /\ ExitRequested)
    /\ WF_sessionVars(~app.exited /\ ShutdownStep)

Spec == Init /\ [][Next]_desktopVars /\ Fairness

-----------------------------------------------------------------------------
(* The engine ends when it is told to, and so do the parts after it: a save  *)
(* that the engine awaits is answered.                                       *)
PartsEnd ==
    /\ WF_sessionVars(~app.exited /\ EngineEnds)
    /\ WF_sessionVars(~app.exited /\ Closes)

(* Five seconds pass, and twelve.                                            *)
DeadlinesPass ==
    /\ WF_sessionVars(~app.exited /\ EngineTooLate)
    /\ WF_sessionVars(~app.exited /\ GiveUp)

(* A closed window ends the host by its deadlines, though the engine's disk  *)
(* hangs for ever; and where it does not, Quit and a closed window end the   *)
(* host with no deadline passing: a start that hangs is cancelled, and the   *)
(* exit is never lost.  (Quit behind a save that hangs ends nothing.)        *)
ExitEnds ==
    /\ DeadlinesPass => (app.pending ~> app.exited)
    /\ PartsEnd => (app.pending \/ parts.engine = "stopping" ~> app.exited)
=============================================================================
