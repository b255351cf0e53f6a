------------------------------ MODULE BarbaControl ------------------------------
(***************************************************************************)
(* How BarbaTunnel.exe is started, commanded, restarted and stopped.       *)
(*   - A program (a process of BarbaTunnel.exe) opens the named command    *)
(*     event, refuses to run when the event was there already, and         *)
(*     otherwise runs its filter driver until it is told to stop.  A       *)
(*     thread of its own (the command monitor) waits for the event.        *)
(*   - The callers open the event, write a command into comm.txt, set the  *)
(*     event and close it: the window of BarbaMonitor, and the Windows     *)
(*     service.  A timer of the window opens the event only to see whether *)
(*     a program runs.                                                     *)
(* The event (external) is manual-reset and exists while anybody has a     *)
(* handle to it; its state goes with the last handle.                      *)
(***************************************************************************)
EXTENDS Naturals, FiniteSets

CONSTANTS
  MaxPrograms,   \* bound on the processes started
  Budgets        \* bounds on the commands each caller sends: one is chosen

ASSUME ConstantsAssumption ==
  /\ MaxPrograms \in Nat
  /\ Budgets \subseteq [{"window", "service"} -> Nat]

\* The processes, in the order in which they are started.
Program == 1 .. MaxPrograms
None == 0
Caller == {"window", "timer", "service"}
Command == {"Stop", "Restart", "UpdateSettings"}

VARIABLES
  started,     \* number of processes started
  pc,          \* where the main thread of each program is
  delayStart,  \* the argument /delaystart
  monitor,     \* the command monitor thread of each program
  IsStopping,  \* StopEvent of each program's filter driver
  IsRestartCommand,
  child,       \* the process a program created to restart
  IsAlreadyRunning, \* the event existed when the program opened it
  blockers,    \* history: the programs that had it open then
  signaled,    \* the state of the command event
  comm,        \* comm.txt: the keys Command and Status
  callerPc, sends, \* where each caller is, and the command it sends
  budget,      \* the commands each caller may still send
  shown,       \* the status BarbaMonitor shows
  service,     \* the Windows service
  serviceEvent, serviceThread \* its event and the thread that waits for it

opening == <<IsAlreadyRunning, blockers>>
programVars == <<started, pc, delayStart, monitor, IsStopping, IsRestartCommand, child,
                 opening>>
callerVars == <<callerPc, sends, budget, shown>>
serviceVars == <<service, serviceEvent, serviceThread>>
vars == <<programVars, signaled, comm, callerVars, serviceVars>>

Init ==
  /\ started = 0
  /\ pc = [p \in Program |-> "none"]
  /\ delayStart = [p \in Program |-> FALSE]
  /\ monitor = [p \in Program |-> "none"]
  /\ IsStopping = [p \in Program |-> FALSE]
  /\ IsRestartCommand = [p \in Program |-> FALSE]
  /\ child = [p \in Program |-> None]
  /\ IsAlreadyRunning = [p \in Program |-> FALSE]
  /\ blockers = [p \in Program |-> {}]
  /\ signaled = FALSE
  /\ comm = [Command |-> "", Status |-> ""]
  /\ callerPc = [c \in Caller |-> "idle"]
  /\ sends = [c \in Caller |-> "Stop"]
  /\ budget \in Budgets
  /\ shown = "Stopped"
  /\ service = "installed" /\ serviceEvent = FALSE /\ serviceThread = "none"

\* theApp is assigned, and its FilterDriver exists.
HasApp == {"loading", "loaded", "waiting", "announced", "started", "stopped", "disposing"}
HasDriver == HasApp \ {"loading"}
Ended == {"refused", "failed", "exited"}

\* Who has a handle to the event.
OpenedBy == {p \in Program : pc[p] \in HasApp \cup {"opened"}}
Handles == ({"program"} \X OpenedBy) \cup
           ({"caller"} \X {c \in Caller : callerPc[c] # "idle"})
EventExists == Handles # {}
\* A handle is closed, perhaps the last one.
Close(kind, who) == signaled' = (signaled /\ Handles # {<<kind, who>>})

-----------------------------------------------------------------------------
(* The main thread of a program. *)

\* A new process; how is "launched" or, for a restart, "suspended".
Launch(how, delay) ==
  /\ started < MaxPrograms
  /\ started' = started + 1
  /\ pc' = [pc EXCEPT ![started + 1] = how]
  /\ delayStart' = [delayStart EXCEPT ![started + 1] = delay]
  /\ UNCHANGED <<monitor, IsStopping, IsRestartCommand, child, opening>>

\* BarbaComm::InitializeEvents.  The event may already exist; the monitor
\* thread starts all the same.
InitializeEvents(p) ==
  /\ pc[p] = "launched"
  /\ pc' = [pc EXCEPT ![p] = "opened"]
  /\ IsAlreadyRunning' = [IsAlreadyRunning EXCEPT ![p] = EventExists]
  /\ blockers' = [blockers EXCEPT ![p] = OpenedBy]
  /\ monitor' = [monitor EXCEPT ![p] = "wait"]
  /\ UNCHANGED <<started, delayStart, IsStopping, IsRestartCommand, child, signaled, comm,
                 callerVars, serviceVars>>

\* The process ends, with its threads and its memory.
Forget(p) ==
  /\ monitor' = [monitor EXCEPT ![p] = "none"]
  /\ delayStart' = [delayStart EXCEPT ![p] = FALSE]
  /\ IsStopping' = [IsStopping EXCEPT ![p] = FALSE]
  /\ IsRestartCommand' = [IsRestartCommand EXCEPT ![p] = FALSE]
  /\ IsAlreadyRunning' = [IsAlreadyRunning EXCEPT ![p] = FALSE]

Ends(p, how) ==
  /\ pc' = [pc EXCEPT ![p] = how]
  /\ Forget(p)
  /\ Close("program", p)
  /\ UNCHANGED <<started, child, blockers>>

\* "BarbaTunnel already running!"
Refuse(p) ==
  /\ pc[p] = "opened"
  /\ IsAlreadyRunning[p]
  /\ Ends(p, "refused")
  /\ UNCHANGED <<comm, callerVars, serviceVars>>

\* Mutant of CreateFiles: the test of IsAlreadyRunning is missing.
CreateFilesUnchecked(p) ==
  /\ pc[p] = "opened"
  /\ comm' = [Command |-> "", Status |-> ""]
  /\ pc' = [pc EXCEPT ![p] = "loading"]
  /\ UNCHANGED <<started, delayStart, monitor, IsStopping, IsRestartCommand, child, opening,
                 signaled, callerVars, serviceVars>>

\* BarbaComm::CreateFiles empties comm.txt; main assigns theApp once the
\* constructor has returned.
CreateFiles(p) ==
  /\ pc[p] = "opened"
  /\ ~IsAlreadyRunning[p]
  /\ comm' = [Command |-> "", Status |-> ""]
  /\ pc' = [pc EXCEPT ![p] = "loading"]
  /\ UNCHANGED <<started, delayStart, monitor, IsStopping, IsRestartCommand, child, opening,
                 signaled, callerVars, serviceVars>>

\* The files cannot be created, or (theApp is then deleted, and its Dispose
\* reads FilterDriver, which is NULL) Load throws.
StartFails(p) ==
  /\ pc[p] \in {"opened", "loading"} /\ ~IsAlreadyRunning[p]
  /\ Ends(p, "failed")
  /\ UNCHANGED <<comm, callerVars, serviceVars>>

MainStep(p, from, to) ==
  /\ pc[p] = from
  /\ pc' = [pc EXCEPT ![p] = to]
  /\ UNCHANGED <<started, delayStart, monitor, IsStopping, IsRestartCommand, child, opening,
                 signaled, callerVars, serviceVars>>

SetStatus(s) == comm' = [comm EXCEPT !.Status = s]

\* Load creates the filter driver; BarbaServerApp::Start sleeps when its
\* start is delayed.
Load(p) == MainStep(p, "loading", "loaded") /\ UNCHANGED comm
StartDelayed(p) == delayStart[p] /\ MainStep(p, "loaded", "waiting") /\ SetStatus("Waiting")
StartNow(p) == ~delayStart[p] /\ MainStep(p, "loaded", "announced") /\ SetStatus("Started")
DelayOver(p) == MainStep(p, "waiting", "announced") /\ SetStatus("Started")
DriverStart(p) == MainStep(p, "announced", "started") /\ UNCHANGED comm
DriverStartReturns(p) ==
  IsStopping[p] /\ MainStep(p, "started", "stopped") /\ SetStatus("Stopped")

\* FilterDriver->Initialize or HttpHost.Start throws: main deletes theApp,
\* and that disposes it.
InitializeFails(p) ==
  \E from \in {"loaded", "waiting"} : MainStep(p, from, "disposing") /\ UNCHANGED comm

\* The capture thread ends with an error and sets StopEvent.
CaptureFails(p) ==
  /\ pc[p] = "started" /\ ~IsStopping[p]
  /\ IsStopping' = [IsStopping EXCEPT ![p] = TRUE]
  /\ UNCHANGED <<started, pc, delayStart, monitor, IsRestartCommand, child, opening, signaled,
                 comm, callerVars, serviceVars>>

\* Mutant of CreateChild: the new process is not created suspended.
CreateChildRunning(p) ==
  /\ pc[p] = "stopped"
  /\ IF IsRestartCommand[p] /\ started < MaxPrograms
     THEN /\ started' = started + 1
          /\ child' = [child EXCEPT ![p] = started + 1]
          /\ pc' = [pc EXCEPT ![p] = "disposing", ![started + 1] = "launched"]
     ELSE /\ pc' = [pc EXCEPT ![p] = "disposing"]
          /\ UNCHANGED <<started, child>>
  /\ UNCHANGED <<delayStart, monitor, IsStopping, IsRestartCommand, opening, signaled, comm,
                 callerVars, serviceVars>>

\* BarbaApp::Start after the driver: the process for a restart (CreateProcess
\* may fail; it does at the bound), then Dispose, up to DisposeEvent.Set.
CreateChild(p) ==
  /\ pc[p] = "stopped"
  /\ IF IsRestartCommand[p] /\ started < MaxPrograms
     THEN /\ started' = started + 1
          /\ child' = [child EXCEPT ![p] = started + 1]
          /\ pc' = [pc EXCEPT ![p] = "disposing", ![started + 1] = "suspended"]
     ELSE /\ pc' = [pc EXCEPT ![p] = "disposing"]
          /\ UNCHANGED <<started, child>>
  /\ UNCHANGED <<delayStart, monitor, IsStopping, IsRestartCommand, opening, signaled, comm,
                 callerVars, serviceVars>>

\* BarbaComm::Dispose joins the monitor thread and closes the event.
CommDispose(p) ==
  /\ pc[p] = "disposing"
  /\ monitor[p] = "ended"
  /\ pc' = [pc EXCEPT ![p] = "disposed"]
  /\ Close("program", p)
  /\ UNCHANGED <<started, delayStart, monitor, IsStopping, IsRestartCommand, child, opening,
                 comm, callerVars, serviceVars>>

\* ResumeThread, and the end of main.
Exit(p) ==
  /\ pc[p] = "disposed"
  /\ pc' = [q \in Program |-> IF q = p THEN "exited"
                              ELSE IF q = child[p] /\ pc[q] = "suspended" THEN "launched"
                              ELSE pc[q]]
  /\ Forget(p)
  /\ UNCHANGED <<started, child, blockers, signaled, comm, callerVars, serviceVars>>

-----------------------------------------------------------------------------
(* The command monitor thread of a program. *)

\* BarbaApp::OnNewCommand with the command in comm.txt.  Stop reads
\* FilterDriver before it tests it, and does nothing unless the driver runs.
OnNewCommand(p) ==
  /\ IsRestartCommand' = [IsRestartCommand EXCEPT ![p] = @ \/ comm.Command = "Restart"]
  /\ IsStopping' = [IsStopping EXCEPT
                      ![p] = @ \/ (comm.Command \in {"Stop", "Restart"} /\ pc[p] = "started")]

\* The thread wakes and executes the command, if theApp is there ...
MonitorWakes(p) ==
  /\ monitor[p] = "wait" /\ signaled
  /\ IF pc[p] \in HasDriver THEN OnNewCommand(p)
     ELSE /\ pc[p] = "loading" => comm.Command \notin {"Stop", "Restart"}
          /\ UNCHANGED <<IsStopping, IsRestartCommand>>
  /\ monitor' = [monitor EXCEPT ![p] = "reset"]
  /\ UNCHANGED <<started, pc, delayStart, child, opening, signaled, comm, callerVars,
                 serviceVars>>

\* ... or crashes the program, because FilterDriver is still NULL ...
MonitorCrashes(p) ==
  /\ monitor[p] = "wait" /\ signaled
  /\ pc[p] = "loading" /\ comm.Command \in {"Stop", "Restart"}
  /\ Ends(p, "failed")
  /\ UNCHANGED <<comm, callerVars, serviceVars>>

\* Mutant of MonitorResets: the event is taken for auto-reset.
MonitorResetsNot(p) ==
  /\ monitor[p] = "reset"
  /\ monitor' = [monitor EXCEPT ![p] = "wait"]
  /\ UNCHANGED <<started, pc, delayStart, IsStopping, IsRestartCommand, child, opening,
                 signaled, comm, callerVars, serviceVars>>

\* ... and resets the event, whatever was written in between.
MonitorResets(p) ==
  /\ monitor[p] = "reset"
  /\ monitor' = [monitor EXCEPT ![p] = "wait"]
  /\ signaled' = FALSE
  /\ UNCHANGED <<started, pc, delayStart, IsStopping, IsRestartCommand, child, opening,
                 comm, callerVars, serviceVars>>

\* Mutant of MonitorEnds: DisposeEvent is not among the events waited for.
MonitorEndsSignaled(p) ==
  /\ monitor[p] = "wait" /\ pc[p] = "disposing" /\ signaled
  /\ monitor' = [monitor EXCEPT ![p] = "ended"]
  /\ UNCHANGED <<started, pc, delayStart, IsStopping, IsRestartCommand, child, opening,
                 signaled, comm, callerVars, serviceVars>>

\* DisposeEvent ends its loop.
MonitorEnds(p) ==
  /\ monitor[p] = "wait" /\ pc[p] = "disposing"
  /\ monitor' = [monitor EXCEPT ![p] = "ended"]
  /\ UNCHANGED <<started, pc, delayStart, IsStopping, IsRestartCommand, child, opening,
                 signaled, comm, callerVars, serviceVars>>

-----------------------------------------------------------------------------
(* The callers of BarbaCommLib.  Without an event, OpenExisting throws and *)
(* the call does nothing.                                                  *)

Send(c, command) ==
  /\ callerPc[c] = "idle" /\ budget[c] > 0
  /\ EventExists
  /\ budget' = [budget EXCEPT ![c] = @ - 1]
  /\ callerPc' = [callerPc EXCEPT ![c] = "opened"]
  /\ sends' = [sends EXCEPT ![c] = command]
  /\ UNCHANGED signaled

WriteCommand(c) ==
  /\ callerPc[c] = "opened"
  /\ comm' = [comm EXCEPT !.Command = sends[c]]
  /\ callerPc' = [callerPc EXCEPT ![c] = "written"]
  /\ UNCHANGED <<programVars, signaled, sends, budget, shown, serviceVars>>

SetEvent(c) ==
  /\ callerPc[c] = "written"
  /\ signaled' = TRUE
  /\ callerPc' = [callerPc EXCEPT ![c] = "set"]
  /\ UNCHANGED <<programVars, comm, sends, budget, shown, serviceVars>>

CloseEvent(c) ==
  /\ callerPc[c] = "set"
  /\ Close("caller", c)
  /\ callerPc' = [callerPc EXCEPT ![c] = "idle"]
  /\ sends' = [sends EXCEPT ![c] = "Stop"]
  /\ UNCHANGED <<programVars, comm, budget, shown, serviceVars>>

\* The buttons and menus of the window.  The status it shows enables Stop
\* and Restart; "Exit && Stop" sends Stop also to a program that waits, and
\* the window then closes: it need not poll again.  The choice of a log level
\* sends UpdateSettings.
WindowCommand ==
  /\ \E command \in Command :
       /\ command = "Restart" => shown \notin {"Stopped", "Waiting"}
       /\ command = "Stop" => shown # "Stopped"
       /\ Send("window", command)
  /\ UNCHANGED <<programVars, comm, shown, serviceVars>>

\* With the service running its event is set, otherwise a process is started.
DoStart ==
  /\ callerPc["window"] = "idle" /\ shown = "Stopped"
  /\ IF service \in {"running", "stopping"}
     THEN serviceEvent' = TRUE /\ UNCHANGED programVars
     ELSE Launch("launched", FALSE) /\ UNCHANGED serviceEvent
  /\ UNCHANGED <<signaled, comm, callerVars, service, serviceThread>>

\* BarbaComm.UpdateStatus, by the timer of the window each second.  IsRunnig
\* opens the event and closes it; without an event it is false.
PollStopped ==
  /\ callerPc["timer"] = "idle"
  /\ ~EventExists /\ shown # "Stopped"
  /\ shown' = "Stopped"
  /\ UNCHANGED <<programVars, signaled, comm, callerPc, sends, budget, serviceVars>>

\* Mutant of PollRunning: an empty status is not skipped.
PollRunningUnchecked ==
  /\ callerPc["timer"] = "idle"
  /\ EventExists
  /\ shown' = comm.Status
  /\ callerPc' = [callerPc EXCEPT !["timer"] = "set"]
  /\ UNCHANGED <<programVars, signaled, comm, sends, budget, serviceVars>>

PollRunning ==
  /\ callerPc["timer"] = "idle"
  /\ EventExists
  /\ shown' = IF comm.Status = "" THEN shown ELSE comm.Status
  /\ callerPc' = [callerPc EXCEPT !["timer"] = "set"]
  /\ UNCHANGED <<programVars, signaled, comm, sends, budget, serviceVars>>

-----------------------------------------------------------------------------
(* The Windows service. *)

OnStart ==
  /\ service = "installed" /\ budget["service"] > 0
  /\ service' = "running" /\ serviceThread' = "wait"
  /\ Launch("launched", TRUE) \/ UNCHANGED programVars \* IsAutoStartTunnel
  /\ UNCHANGED <<signaled, comm, callerVars, serviceEvent>>

\* OnStop marks the service, sets its event and sends the command ...
OnStop ==
  /\ service = "running"
  /\ service' = "stopping" /\ serviceEvent' = TRUE
  /\ IF EventExists THEN Send("service", "Stop")
     ELSE UNCHANGED <<signaled, callerPc, sends, budget>>
  /\ UNCHANGED <<programVars, comm, shown, serviceThread>>

\* ... and closes its event.
ServiceCloses ==
  /\ service = "stopping" /\ callerPc["service"] = "idle"
  /\ service' = "stopped"
  /\ UNCHANGED <<programVars, signaled, comm, callerVars, serviceEvent, serviceThread>>

\* The thread wakes (the event is auto-reset) and tests _stopping ...
ServiceWakes ==
  /\ serviceThread = "wait" /\ serviceEvent
  /\ serviceEvent' = FALSE
  /\ serviceThread' = IF service = "running" THEN "start" ELSE "ended"
  /\ UNCHANGED <<programVars, signaled, comm, callerVars, service>>

\* ... and starts a program.
ServiceStarts ==
  /\ serviceThread = "start"
  /\ Launch("launched", FALSE)
  /\ serviceThread' = "wait"
  /\ UNCHANGED <<signaled, comm, callerVars, service, serviceEvent>>

-----------------------------------------------------------------------------
Main(p) ==
  \/ InitializeEvents(p) \/ Refuse(p) \/ CreateFiles(p) \/ Load(p)
  \/ StartDelayed(p) \/ StartNow(p) \/ DelayOver(p) \/ DriverStart(p)
  \/ DriverStartReturns(p) \/ CreateChild(p) \/ CommDispose(p) \/ Exit(p)
Fails(p) == StartFails(p) \/ InitializeFails(p) \/ CaptureFails(p)
Monitor(p) == MonitorWakes(p) \/ MonitorCrashes(p) \/ MonitorResets(p) \/ MonitorEnds(p)
Call(c) == WriteCommand(c) \/ SetEvent(c) \/ CloseEvent(c)
User == WindowCommand \/ DoStart \/ PollStopped \/ PollRunning
Service == OnStart \/ OnStop \/ ServiceCloses \/ ServiceWakes \/ ServiceStarts

Next ==
  \/ \E p \in Program : Main(p) \/ Fails(p) \/ Monitor(p)
  \/ \E c \in Caller : Call(c)
  \/ User \/ Service

Spec == Init /\ [][Next]_vars

\* The threads of a program and the calls in progress go on; the user and the
\* service manager need not do anything, and no poll is needed.
Fairness ==
  /\ \A p \in Program : WF_vars(Main(p)) /\ WF_vars(Monitor(p))
  /\ \A c \in Caller : WF_vars(Call(c))

FairSpec == Spec /\ Fairness

-----------------------------------------------------------------------------
(* Properties *)

\* Types, and a bound on the processes.
TypeOK ==
  /\ started \in 0 .. MaxPrograms
  /\ pc \in [Program -> HasApp \cup Ended \cup
                        {"none", "suspended", "launched", "opened", "disposed"}]
  /\ delayStart \in [Program -> BOOLEAN]
  /\ monitor \in [Program -> {"none", "wait", "reset", "ended"}]
  /\ IsStopping \in [Program -> BOOLEAN]
  /\ IsRestartCommand \in [Program -> BOOLEAN]
  /\ child \in [Program -> Program \cup {None}]
  /\ IsAlreadyRunning \in [Program -> BOOLEAN]
  /\ blockers \in [Program -> SUBSET Program]
  /\ signaled \in BOOLEAN
  /\ comm \in [Command : Command \cup {""}, Status : {"", "Waiting", "Started", "Stopped"}]
  /\ callerPc \in [Caller -> {"idle", "opened", "written", "set"}]
  /\ sends \in [Caller -> Command]
  /\ budget \in [{"window", "service"} -> Nat]
  /\ shown \in {"Waiting", "Started", "Stopped"}
  /\ service \in {"installed", "running", "stopping", "stopped"}
  /\ serviceEvent \in BOOLEAN
  /\ serviceThread \in {"none", "wait", "start", "ended"}

\* BarbaTunnel.cpp, BarbaComm.cpp: however processes are started, restarted,
\* refused and crash, at most one of them has an application, and may run a
\* filter driver: from its test until it closes the event.
OneOwner ==
  \A p, q \in Program : pc[p] \in HasApp /\ pc[q] \in HasApp => p = q

\* BarbaApp::Start: the process created by a restart is never refused because
\* of the program that created it.
ParentNeverBlocks ==
  \A p \in Program : child[p] # None => p \notin blockers[child[p]]

\* BarbaApp::Start and Dispose: a filter driver that was told to stop makes
\* its program end, and the process it created for a restart is resumed.
StopEnds ==
  \A p \in Program :
    IsStopping[p] ~> /\ pc[p] \in Ended
                     /\ child[p] # None => pc[child[p]] # "suspended"

\* BarbaComm::CommandMonitorThread: no command stays unnoticed, by whichever
\* program's thread it is taken.
SignalIsTaken == signaled ~> ~signaled

\* BarbaApp::Start creates the process for a restart and resumes it "after
\* dispose"; BarbaComm::Initialize refuses a process when BarbaTunnel is
\* "already running".  So the new process is refused only because of another
\* program.  (The code violates it.)
RestartRefusedByProgram ==
  \A p \in Program :
    child[p] # None => (pc[child[p]] = "refused" => blockers[child[p]] # {})
=============================================================================
