--------------------------- MODULE BarbaControl_proofs ---------------------------
(***************************************************************************)
(* Types, OneOwner and ParentNeverBlocks of BarbaControl, for any number   *)
(* of processes and of commands.                                           *)
(***************************************************************************)
EXTENDS BarbaControl, TLAPS

\* What every step of TypeOK may rely on.
LEMMA StatusTypes ==
  /\ HasApp = {"loading", "loaded", "waiting", "announced", "started", "stopped", "disposing"}
  /\ Ended = {"refused", "failed", "exited"}
BY DEF HasApp, Ended

\* A new process has a number that is free.
LEMMA NextProgram ==
  ASSUME TypeOK, started < MaxPrograms
  PROVE  started + 1 \in Program /\ started + 1 \in 0 .. MaxPrograms
<1>1. started \in 0 .. MaxPrograms
  BY DEF TypeOK
<1>2. MaxPrograms \in Nat
  BY ConstantsAssumption
<1> QED
  BY <1>1, <1>2, SMT DEF Program

-----------------------------------------------------------------------------
(* TypeOK *)

LEMMA LaunchTypes ==
  ASSUME TypeOK, NEW how \in {"launched", "suspended"}, NEW delay \in BOOLEAN,
         Launch(how, delay)
  PROVE  /\ started' \in 0 .. MaxPrograms
         /\ pc' \in [Program -> HasApp \cup Ended \cup
                        {"none", "suspended", "launched", "opened", "disposed"}]
         /\ delayStart' \in [Program -> BOOLEAN]
<1>1. started' = started + 1 /\ started' \in Program /\ started' \in 0 .. MaxPrograms
  BY NextProgram DEF Launch
<1>2. pc' \in [Program -> HasApp \cup Ended \cup
                        {"none", "suspended", "launched", "opened", "disposed"}]
  BY <1>1 DEF TypeOK, Launch
<1>3. delayStart' \in [Program -> BOOLEAN]
  BY <1>1 DEF TypeOK, Launch
<1> QED
  BY <1>1, <1>2, <1>3

LEMMA MainStepTypes ==
  ASSUME TypeOK, NEW p \in Program, NEW from, NEW to \in HasApp, MainStep(p, from, to),
         comm' \in [Command : Command \cup {""}, Status : {"", "Waiting", "Started", "Stopped"}]
  PROVE  TypeOK'
<1>1. pc' \in [Program -> HasApp \cup Ended \cup
                        {"none", "suspended", "launched", "opened", "disposed"}]
  BY DEF TypeOK, MainStep
<1> QED
  BY <1>1 DEF TypeOK, MainStep, opening, callerVars, serviceVars

LEMMA StatusStays ==
  ASSUME TypeOK, UNCHANGED comm \/ \E s \in {"Waiting", "Started", "Stopped"} : SetStatus(s)
  PROVE  comm' \in [Command : Command \cup {""}, Status : {"", "Waiting", "Started", "Stopped"}]
BY DEF TypeOK, SetStatus

LEMMA MainTypes ==
  ASSUME TypeOK, NEW p \in Program, Main(p)
  PROVE  TypeOK'
<1>1. CASE InitializeEvents(p)
  BY <1>1 DEF TypeOK, InitializeEvents, EventExists, OpenedBy, callerVars, serviceVars
<1>2. CASE Refuse(p)
  BY <1>2, StatusTypes DEF TypeOK, Refuse, Ends, Forget, Close, callerVars, serviceVars
<1>3. CASE CreateFiles(p)
  BY <1>3, StatusTypes DEF TypeOK, CreateFiles, opening, callerVars, serviceVars
<1>4. CASE Load(p) \/ StartDelayed(p) \/ StartNow(p) \/ DelayOver(p) \/ DriverStart(p)
            \/ DriverStartReturns(p)
  <2>1. PICK from, to \in HasApp : MainStep(p, from, to)
    BY <1>4, StatusTypes
       DEF Load, StartDelayed, StartNow, DelayOver, DriverStart, DriverStartReturns
  <2>2. UNCHANGED comm \/ \E s \in {"Waiting", "Started", "Stopped"} : SetStatus(s)
    BY <1>4 DEF Load, StartDelayed, StartNow, DelayOver, DriverStart, DriverStartReturns
  <2> QED
    BY <2>1, <2>2, MainStepTypes, StatusStays
<1>5. CASE CreateChild(p)
  <2>1. CASE IsRestartCommand[p] /\ started < MaxPrograms
    <3>1. /\ started + 1 \in Program /\ started' \in 0 .. MaxPrograms
          /\ child' = [child EXCEPT ![p] = started + 1]
          /\ pc' = [pc EXCEPT ![p] = "disposing", ![started + 1] = "suspended"]
      BY <1>5, <2>1, NextProgram DEF CreateChild
    <3>2. pc' \in [Program -> HasApp \cup Ended \cup
                        {"none", "suspended", "launched", "opened", "disposed"}]
      BY <3>1, StatusTypes DEF TypeOK
    <3>3. child' \in [Program -> Program \cup {None}]
      BY <3>1 DEF TypeOK
    <3> QED
      BY <1>5, <3>1, <3>2, <3>3 DEF TypeOK, CreateChild, opening, callerVars, serviceVars
  <2>2. CASE ~(IsRestartCommand[p] /\ started < MaxPrograms)
    <3>1. pc' = [pc EXCEPT ![p] = "disposing"] /\ UNCHANGED <<started, child>>
      BY <1>5, <2>2 DEF CreateChild
    <3> QED
      BY <1>5, <3>1, StatusTypes DEF TypeOK, CreateChild, opening, callerVars, serviceVars
  <2> QED
    BY <2>1, <2>2
<1>6. CASE CommDispose(p)
  BY <1>6, StatusTypes DEF TypeOK, CommDispose, Close, opening, callerVars, serviceVars
<1>7. CASE Exit(p)
  BY <1>7, StatusTypes DEF TypeOK, Exit, Forget, callerVars, serviceVars
<1> QED
  BY <1>1, <1>2, <1>3, <1>4, <1>5, <1>6, <1>7 DEF Main

LEMMA FailTypes ==
  ASSUME TypeOK, NEW p \in Program, Fails(p)
  PROVE  TypeOK'
<1>1. CASE StartFails(p)
  BY <1>1, StatusTypes DEF TypeOK, StartFails, Ends, Forget, Close, callerVars, serviceVars
<1>2. CASE InitializeFails(p)
  <2>1. PICK from \in {"loaded", "waiting"} : MainStep(p, from, "disposing") /\ UNCHANGED comm
    BY <1>2 DEF InitializeFails
  <2> QED
    BY <2>1, StatusTypes, MainStepTypes, StatusStays
<1>3. CASE CaptureFails(p)
  BY <1>3 DEF TypeOK, CaptureFails, opening, callerVars, serviceVars
<1> QED
  BY <1>1, <1>2, <1>3 DEF Fails

LEMMA MonitorTypes ==
  ASSUME TypeOK, NEW p \in Program, Monitor(p)
  PROVE  TypeOK'
<1>1. CASE MonitorWakes(p)
  BY <1>1 DEF TypeOK, MonitorWakes, OnNewCommand, opening, callerVars, serviceVars
<1>2. CASE MonitorCrashes(p)
  BY <1>2, StatusTypes DEF TypeOK, MonitorCrashes, Ends, Forget, Close, callerVars, serviceVars
<1>3. CASE MonitorResets(p) \/ MonitorEnds(p)
  BY <1>3 DEF TypeOK, MonitorResets, MonitorEnds, opening, callerVars, serviceVars
<1> QED
  BY <1>1, <1>2, <1>3 DEF Monitor

LEMMA CallTypes ==
  ASSUME TypeOK, NEW c \in Caller, Call(c)
  PROVE  TypeOK'
<1>1. CASE WriteCommand(c)
  BY <1>1 DEF TypeOK, WriteCommand, programVars, opening, serviceVars
<1>2. CASE SetEvent(c)
  BY <1>2 DEF TypeOK, SetEvent, programVars, opening, serviceVars
<1>3. CASE CloseEvent(c)
  BY <1>3 DEF TypeOK, CloseEvent, Close, Command, programVars, opening, serviceVars
<1> QED
  BY <1>1, <1>2, <1>3 DEF Call

LEMMA SendTypes ==
  ASSUME TypeOK, NEW c \in {"window", "service"}, NEW command \in Command, Send(c, command)
  PROVE  /\ callerPc' \in [Caller -> {"idle", "opened", "written", "set"}]
         /\ sends' \in [Caller -> Command]
         /\ budget' \in [{"window", "service"} -> Nat]
<1>1. budget[c] \in Nat /\ budget[c] > 0 /\ budget' = [budget EXCEPT ![c] = budget[c] - 1]
  BY DEF TypeOK, Send
<1>2. budget[c] - 1 \in Nat
  BY <1>1, SMT
<1>3. budget' \in [{"window", "service"} -> Nat]
  BY <1>1, <1>2 DEF TypeOK
<1> QED
  BY <1>3 DEF TypeOK, Send, Caller

LEMMA UserTypes ==
  ASSUME TypeOK, User
  PROVE  TypeOK'
<1>1. CASE WindowCommand
  <2>1. PICK command \in Command : Send("window", command)
    BY <1>1 DEF WindowCommand
  <2>2. UNCHANGED signaled
    BY <2>1 DEF Send
  <2>3. /\ callerPc' \in [Caller -> {"idle", "opened", "written", "set"}]
        /\ sends' \in [Caller -> Command]
        /\ budget' \in [{"window", "service"} -> Nat]
    BY <2>1, SendTypes
  <2> QED
    BY <1>1, <2>2, <2>3 DEF TypeOK, WindowCommand, programVars, opening, serviceVars
<1>2. CASE DoStart
  <2>1. CASE service \in {"running", "stopping"}
    BY <1>2, <2>1 DEF TypeOK, DoStart, programVars, opening, callerVars, serviceVars
  <2>2. CASE service \notin {"running", "stopping"}
    BY <1>2, <2>2, LaunchTypes
       DEF TypeOK, DoStart, Launch, opening, callerVars, serviceVars
  <2> QED
    BY <2>1, <2>2
<1>3. CASE PollStopped
  BY <1>3 DEF TypeOK, PollStopped, programVars, opening, serviceVars
<1>4. CASE PollRunning
  <2>1. /\ comm.Status \in {"", "Waiting", "Started", "Stopped"}
        /\ callerPc \in [Caller -> {"idle", "opened", "written", "set"}]
    BY DEF TypeOK
  <2>2. shown' \in {"Waiting", "Started", "Stopped"}
    BY <1>4, <2>1 DEF TypeOK, PollRunning
  <2>3. callerPc' \in [Caller -> {"idle", "opened", "written", "set"}]
    BY <1>4, <2>1 DEF PollRunning, Caller
  <2>4. UNCHANGED <<programVars, signaled, comm, sends, budget, serviceVars>>
    BY <1>4 DEF PollRunning
  <2> QED
    BY <2>2, <2>3, <2>4 DEF TypeOK, programVars, opening, serviceVars
<1> QED
  BY <1>1, <1>2, <1>3, <1>4 DEF User

LEMMA ServiceTypes ==
  ASSUME TypeOK, Service
  PROVE  TypeOK'
<1>1. CASE OnStart
  <2>1. CASE Launch("launched", TRUE)
    BY <1>1, <2>1, LaunchTypes DEF TypeOK, OnStart, Launch, opening, callerVars
  <2>2. CASE UNCHANGED programVars
    BY <1>1, <2>2 DEF TypeOK, OnStart, programVars, opening, callerVars
  <2> QED
    BY <1>1, <2>1, <2>2 DEF OnStart
<1>2. CASE OnStop
  <2>1. CASE EventExists
    <3>1. Send("service", "Stop") /\ "Stop" \in Command
      BY <1>2, <2>1 DEF OnStop, Command
    <3>2. UNCHANGED signaled
      BY <3>1 DEF Send
    <3> QED
      BY <1>2, <3>1, <3>2, SendTypes DEF TypeOK, OnStop, programVars, opening
  <2>2. CASE ~EventExists
    BY <1>2, <2>2 DEF TypeOK, OnStop, programVars, opening
  <2> QED
    BY <2>1, <2>2
<1>3. CASE ServiceCloses \/ ServiceWakes
  BY <1>3 DEF TypeOK, ServiceCloses, ServiceWakes, programVars, opening, callerVars
<1>4. CASE ServiceStarts
  BY <1>4, LaunchTypes DEF TypeOK, ServiceStarts, Launch, opening, callerVars
<1> QED
  BY <1>1, <1>2, <1>3, <1>4 DEF Service

LEMMA TypeInitially == Init => TypeOK
<1>1. MaxPrograms \in Nat /\ Budgets \subseteq [{"window", "service"} -> Nat]
  BY ConstantsAssumption
<1>2. 0 \in 0 .. MaxPrograms
  BY <1>1, SMT
<1> SUFFICES ASSUME Init PROVE TypeOK
  OBVIOUS
<1>3. budget \in [{"window", "service"} -> Nat]
  BY <1>1 DEF Init
<1>4. sends \in [Caller -> Command]
  BY DEF Init, Command
<1>5. comm \in [Command : Command \cup {""}, Status : {"", "Waiting", "Started", "Stopped"}]
  <2>1. comm = [Command |-> "", Status |-> ""]
    BY DEF Init
  <2> QED
    BY <2>1
<1>6. pc \in [Program -> HasApp \cup Ended \cup
                        {"none", "suspended", "launched", "opened", "disposed"}]
  BY DEF Init
<1>7. /\ child \in [Program -> Program \cup {None}]
      /\ blockers \in [Program -> SUBSET Program]
  <2>1. child = [p \in Program |-> None] /\ blockers = [p \in Program |-> {}]
    BY DEF Init
  <2> QED
    BY <2>1
<1>8. /\ {delayStart, IsStopping, IsRestartCommand, IsAlreadyRunning} \subseteq
           [Program -> BOOLEAN]
      /\ monitor \in [Program -> {"none", "wait", "reset", "ended"}]
      /\ callerPc \in [Caller -> {"idle", "opened", "written", "set"}]
  BY DEF Init
<1>9. /\ signaled \in BOOLEAN /\ serviceEvent \in BOOLEAN
      /\ shown = "Stopped" /\ service = "installed" /\ serviceThread = "none"
      /\ started \in 0 .. MaxPrograms
  BY <1>2 DEF Init
<1> QED
  BY <1>3, <1>4, <1>5, <1>6, <1>7, <1>8, <1>9 DEF TypeOK

LEMMA TypeStep ==
  ASSUME TypeOK, [Next]_vars
  PROVE  TypeOK'
<1>1. CASE UNCHANGED vars
  BY <1>1 DEF TypeOK, vars, programVars, callerVars, serviceVars, opening
<1>2. CASE Next
  BY <1>2, MainTypes, FailTypes, MonitorTypes, CallTypes, UserTypes, ServiceTypes DEF Next
<1> QED
  BY <1>1, <1>2

\* Types of every variable, whatever the number of processes and commands.
THEOREM TypeCorrect == Spec => []TypeOK
<1>1. TypeOK /\ [Next]_vars => TypeOK'
  BY TypeStep
<1> QED
  BY TypeInitially, <1>1, PTL DEF Spec

-----------------------------------------------------------------------------
(* OneOwner.  A process that found no event, or runs, is the only one: the  *)
(* event exists while it does, so one that comes later finds it.           *)

Owns(p) == pc[p] \in HasApp \/ (pc[p] = "opened" /\ ~IsAlreadyRunning[p])

OwnerInv == \A p, q \in Program : Owns(p) /\ Owns(q) => p = q

\* Most steps make nobody an owner.
LEMMA FewerOwners ==
  ASSUME OwnerInv, \A q \in Program : Owns(q)' => Owns(q)
  PROVE  OwnerInv'
BY DEF OwnerInv

\* A thread at p that goes on, or ends, as owner only if it was one.
LEMMA OwnerMoves ==
  ASSUME TypeOK, NEW p \in Program, NEW to, pc' = [pc EXCEPT ![p] = to],
         \A q \in Program : q # p => IsAlreadyRunning'[q] = IsAlreadyRunning[q],
         to \in HasApp => Owns(p), to # "opened"
  PROVE  \A q \in Program : Owns(q)' => Owns(q)
<1> TAKE q \in Program
<1>1. CASE q = p
  <2>1. pc'[q] = to
    BY <1>1 DEF TypeOK
  <2> QED
    BY <1>1, <2>1 DEF Owns
<1>2. CASE q # p
  <2>1. pc'[q] = pc[q] /\ IsAlreadyRunning'[q] = IsAlreadyRunning[q]
    BY <1>2 DEF TypeOK
  <2> QED
    BY <2>1 DEF Owns
<1> QED
  BY <1>1, <1>2

LEMMA SameOwners ==
  ASSUME UNCHANGED <<pc, IsAlreadyRunning>>
  PROVE  \A q \in Program : Owns(q)' => Owns(q)
BY DEF Owns

\* The end of a process, and a new one.
LEMMA OwnerEnds ==
  ASSUME TypeOK, NEW p \in Program, NEW how \in Ended, Ends(p, how)
  PROVE  \A q \in Program : Owns(q)' => Owns(q)
<1>1. /\ pc' = [pc EXCEPT ![p] = how]
      /\ IsAlreadyRunning' = [IsAlreadyRunning EXCEPT ![p] = FALSE]
      /\ how \notin HasApp /\ how # "opened"
  BY StatusTypes DEF Ends, Forget
<1>2. \A q \in Program : q # p => IsAlreadyRunning'[q] = IsAlreadyRunning[q]
  BY <1>1 DEF TypeOK
<1> QED
  BY <1>1, <1>2, OwnerMoves

LEMMA OwnerLaunches ==
  ASSUME TypeOK, NEW how \in {"launched", "suspended"}, NEW delay, Launch(how, delay)
  PROVE  \A q \in Program : Owns(q)' => Owns(q)
<1>1. /\ started + 1 \in Program /\ pc' = [pc EXCEPT ![started + 1] = how]
      /\ IsAlreadyRunning' = IsAlreadyRunning /\ how \notin HasApp /\ how # "opened"
  BY StatusTypes, NextProgram DEF Launch, opening
<1> QED
  BY <1>1, OwnerMoves

\* The only step that makes an owner: nobody had the event open.
LEMMA OwnerOpens ==
  ASSUME TypeOK, OwnerInv, NEW p \in Program, InitializeEvents(p)
  PROVE  OwnerInv'
<1>1. /\ pc' = [pc EXCEPT ![p] = "opened"]
      /\ IsAlreadyRunning' = [IsAlreadyRunning EXCEPT ![p] = EventExists]
  BY DEF InitializeEvents
<1>2. pc'[p] = "opened" /\ IsAlreadyRunning'[p] = EventExists /\ "opened" \notin HasApp
  BY <1>1, StatusTypes DEF TypeOK
<1>3. ASSUME NEW q \in Program, q # p PROVE Owns(q)' => Owns(q)
  <2>1. pc'[q] = pc[q] /\ IsAlreadyRunning'[q] = IsAlreadyRunning[q]
    BY <1>1, <1>3 DEF TypeOK
  <2> QED
    BY <2>1 DEF Owns
<1>4. CASE EventExists
  <2>1. ~Owns(p)'
    BY <1>2, <1>4 DEF Owns
  <2> QED
    BY <1>3, <2>1, FewerOwners
<1>5. CASE ~EventExists
  <2>1. \A q \in Program : ~Owns(q)
    <3>1. OpenedBy = {}
      <4>1. Handles = {}
        BY <1>5 DEF EventExists
      <4>2. ASSUME NEW q \in OpenedBy PROVE <<"program", q>> \in Handles
        BY DEF Handles
      <4> QED
        BY <4>1, <4>2
    <3> QED
      BY <3>1 DEF OpenedBy, Owns
  <2> QED
    BY <1>3, <2>1 DEF OwnerInv
<1> QED
  BY <1>4, <1>5

LEMMA OwnerMain ==
  ASSUME TypeOK, OwnerInv, NEW p \in Program, Main(p)
  PROVE  OwnerInv'
<1>1. CASE InitializeEvents(p)
  BY <1>1, OwnerOpens
<1>2. CASE Refuse(p)
  BY <1>2, OwnerEnds, FewerOwners, StatusTypes DEF Refuse
<1>3. CASE CreateFiles(p)
  <2>1. /\ pc' = [pc EXCEPT ![p] = "loading"] /\ IsAlreadyRunning' = IsAlreadyRunning
        /\ Owns(p)
    BY <1>3 DEF CreateFiles, opening, Owns
  <2> QED
    BY <2>1, OwnerMoves, FewerOwners
<1>4. CASE Load(p) \/ StartDelayed(p) \/ StartNow(p) \/ DelayOver(p) \/ DriverStart(p)
            \/ DriverStartReturns(p)
  <2>1. PICK from, to \in HasApp : MainStep(p, from, to)
    BY <1>4, StatusTypes
       DEF Load, StartDelayed, StartNow, DelayOver, DriverStart, DriverStartReturns
  <2>2. /\ pc' = [pc EXCEPT ![p] = to] /\ IsAlreadyRunning' = IsAlreadyRunning
        /\ to # "opened" /\ Owns(p)
    BY <2>1, StatusTypes DEF MainStep, opening, Owns
  <2> QED
    BY <2>2, OwnerMoves, FewerOwners
<1>5. CASE CreateChild(p)
  <2>1. IsAlreadyRunning' = IsAlreadyRunning /\ Owns(p)
    BY <1>5, StatusTypes DEF CreateChild, opening, Owns
  <2>2. \A q \in Program : pc'[q] \in HasApp \cup {"opened"} => q = p \/ pc'[q] = pc[q]
    <3>1. CASE IsRestartCommand[p] /\ started < MaxPrograms
      <4>1. /\ started + 1 \in Program
            /\ pc' = [pc EXCEPT ![p] = "disposing", ![started + 1] = "suspended"]
        BY <1>5, <3>1, NextProgram DEF CreateChild
      <4> QED
        BY <4>1, StatusTypes DEF TypeOK
    <3>2. CASE ~(IsRestartCommand[p] /\ started < MaxPrograms)
      BY <1>5, <3>2 DEF CreateChild, TypeOK
    <3> QED
      BY <3>1, <3>2
  <2>3. \A q \in Program : Owns(q)' => Owns(q)
    BY <2>1, <2>2 DEF Owns
  <2> QED
    BY <2>3, FewerOwners
<1>6. CASE CommDispose(p)
  <2>1. /\ pc' = [pc EXCEPT ![p] = "disposed"] /\ IsAlreadyRunning' = IsAlreadyRunning
        /\ "disposed" \notin HasApp
    BY <1>6, StatusTypes DEF CommDispose, opening
  <2> QED
    BY <2>1, OwnerMoves, FewerOwners
<1>7. CASE Exit(p)
  <2>1. \A q \in Program : pc'[q] \in {"exited", "launched"} \/ (q # p /\ pc'[q] = pc[q])
    BY <1>7 DEF Exit
  <2>2. \A q \in Program : q # p => IsAlreadyRunning'[q] = IsAlreadyRunning[q]
    BY <1>7 DEF Exit, Forget, TypeOK
  <2>3. \A q \in Program : Owns(q)' => Owns(q)
    BY <2>1, <2>2, StatusTypes DEF Owns
  <2> QED
    BY <2>3, FewerOwners
<1> QED
  BY <1>1, <1>2, <1>3, <1>4, <1>5, <1>6, <1>7 DEF Main

LEMMA OwnerStep ==
  ASSUME TypeOK, OwnerInv, [Next]_vars
  PROVE  OwnerInv'
<1>1. CASE UNCHANGED vars
  BY <1>1, SameOwners, FewerOwners DEF vars, programVars, opening
<1>2. ASSUME NEW p \in Program, Main(p) PROVE OwnerInv'
  BY <1>2, OwnerMain
<1>3. ASSUME NEW p \in Program, Fails(p) PROVE OwnerInv'
  <2>1. CASE StartFails(p)
    BY <2>1, OwnerEnds, FewerOwners, StatusTypes DEF StartFails
  <2>2. CASE InitializeFails(p)
    <3>1. /\ pc' = [pc EXCEPT ![p] = "disposing"] /\ IsAlreadyRunning' = IsAlreadyRunning
          /\ Owns(p)
      BY <2>2, StatusTypes DEF InitializeFails, MainStep, opening, Owns
    <3> QED
      BY <3>1, OwnerMoves, FewerOwners
  <2>3. CASE CaptureFails(p)
    BY <2>3, SameOwners, FewerOwners DEF CaptureFails, opening
  <2> QED
    BY <1>3, <2>1, <2>2, <2>3 DEF Fails
<1>4. ASSUME NEW p \in Program, Monitor(p) PROVE OwnerInv'
  <2>1. CASE MonitorCrashes(p)
    BY <2>1, OwnerEnds, FewerOwners, StatusTypes DEF MonitorCrashes
  <2>2. CASE MonitorWakes(p) \/ MonitorResets(p) \/ MonitorEnds(p)
    BY <2>2, SameOwners, FewerOwners DEF MonitorWakes, MonitorResets, MonitorEnds, opening
  <2> QED
    BY <1>4, <2>1, <2>2 DEF Monitor
<1>5. ASSUME NEW c \in Caller, Call(c) PROVE OwnerInv'
  BY <1>5, SameOwners, FewerOwners
     DEF Call, WriteCommand, SetEvent, CloseEvent, programVars, opening
<1>6. CASE (\E how \in {"launched"}, delay \in BOOLEAN : Launch(how, delay))
  BY <1>6, OwnerLaunches, FewerOwners
<1>7. CASE UNCHANGED programVars
  BY <1>7, SameOwners, FewerOwners DEF programVars, opening
<1>8. User \/ Service => \/ \E how \in {"launched"}, delay \in BOOLEAN : Launch(how, delay)
                        \/ UNCHANGED programVars
  BY DEF User, WindowCommand, DoStart, PollStopped, PollRunning,
         Service, OnStart, OnStop, ServiceCloses, ServiceWakes, ServiceStarts
<1> QED
  BY <1>1, <1>2, <1>3, <1>4, <1>5, <1>6, <1>7, <1>8 DEF Next

\* At most one process has an application, however processes are started,
\* refused, restarted and crash.
THEOREM OwnerCorrect == Spec => []OneOwner
<1>1. Init => OwnerInv
  BY StatusTypes DEF Init, OwnerInv, Owns
<1>2. TypeOK /\ OwnerInv /\ [Next]_vars => OwnerInv'
  BY OwnerStep
<1>3. OwnerInv => OneOwner
  BY DEF OwnerInv, OneOwner, Owns
<1> QED
  BY TypeCorrect, <1>1, <1>2, <1>3, PTL DEF Spec

-----------------------------------------------------------------------------
(* ParentNeverBlocks.  A process created for a restart stays suspended      *)
(* until its parent, and nobody else, has closed the event and resumes it.  *)

ChildInv ==
  /\ \A q \in Program : q > started => pc[q] = "none" /\ child[q] = None /\ blockers[q] = {}
  /\ \A p \in Program : child[p] # None =>
       /\ child[p] \in 1 .. started /\ child[p] # p
       /\ pc[p] \in {"disposing", "disposed", "exited"}
       /\ pc[p] # "exited" => pc[child[p]] = "suspended"
       /\ p \notin blockers[child[p]]
  /\ \A p, q \in Program : child[p] # None /\ child[p] = child[q] => p = q

\* The main thread of a process that runs moves on: its child, if it has one,
\* is not resumed by this.
LEMMA ChildMoves ==
  ASSUME TypeOK, ChildInv, UNCHANGED <<started, child, blockers>>,
         NEW p \in Program, NEW to, pc' = [pc EXCEPT ![p] = to],
         pc[p] \notin {"none", "suspended", "exited"},
         child[p] # None => to \in {"disposing", "disposed"}
  PROVE  ChildInv'
<1>1. \A q \in Program : pc'[q] = IF q = p THEN to ELSE pc[q]
  BY DEF TypeOK
<1>2. \A q \in Program : child[q] # None => child[q] \in Program
  BY DEF TypeOK
<1>3. \A q \in Program : q > started => pc'[q] = "none"
  BY <1>1 DEF ChildInv
<1>4. ASSUME NEW q \in Program, child[q] # None
      PROVE  /\ pc'[q] \in {"disposing", "disposed", "exited"}
             /\ pc'[q] # "exited" => pc'[child[q]] = "suspended"
  <2>1. CASE q = p
    BY <1>1, <1>2, <1>4, <2>1 DEF ChildInv
  <2>2. CASE q # p
    BY <1>1, <1>2, <1>4, <2>2 DEF ChildInv
  <2> QED
    BY <2>1, <2>2
<1> QED
  BY <1>3, <1>4 DEF ChildInv

\* Such a process has no child, unless it disposes.
LEMMA NoChild ==
  ASSUME ChildInv, NEW p \in Program, pc[p] \notin {"disposing", "disposed", "exited"}
  PROVE  child[p] = None
BY DEF ChildInv

LEMMA ChildStays ==
  ASSUME ChildInv, UNCHANGED <<started, pc, child, blockers>>
  PROVE  ChildInv'
BY DEF ChildInv

LEMMA ChildEnds ==
  ASSUME TypeOK, ChildInv, NEW p \in Program, NEW how, Ends(p, how),
         pc[p] \in {"opened", "loading"}
  PROVE  ChildInv'
<1>1. pc' = [pc EXCEPT ![p] = how] /\ UNCHANGED <<started, child, blockers>>
  BY DEF Ends
<1>2. pc[p] \notin {"none", "suspended", "disposing", "disposed", "exited"}
  OBVIOUS
<1> QED
  BY <1>1, <1>2, NoChild, ChildMoves

LEMMA Smaller ==
  ASSUME NEW n \in Nat, NEW m \in 1 .. n
  PROVE  m \in 1 .. n + 1 /\ m # n + 1
BY SMT

\* A new process is nobody's child.
LEMMA ChildLaunches ==
  ASSUME TypeOK, ChildInv, NEW delay, Launch("launched", delay)
  PROVE  ChildInv'
<1> DEFINE n == started + 1
<1>1. /\ n \in Program /\ started' = n /\ pc' = [pc EXCEPT ![n] = "launched"]
      /\ UNCHANGED <<child, blockers>> /\ started \in Nat
  <2>1. started \in 0 .. MaxPrograms /\ MaxPrograms \in Nat
    BY ConstantsAssumption DEF TypeOK
  <2> QED
    BY <2>1, NextProgram DEF Launch, opening
<1>2. \A q \in Program : pc'[q] = IF q = n THEN "launched" ELSE pc[q]
  BY <1>1 DEF TypeOK
<1>3. child[n] = None /\ n > started
  BY <1>1 DEF ChildInv
<1>4. \A q \in Program : q > started' => q > started /\ q # n
  BY <1>1, SMT DEF Program
<1>5. \A q \in Program : child[q] # None => child[q] \in 1 .. started' /\ child[q] # n
                                              /\ child[q] \in Program
  <2> TAKE q \in Program
  <2> HAVE child[q] # None
  <2>1. child[q] \in 1 .. started
    BY DEF ChildInv
  <2>2. child[q] \in Program
    BY DEF TypeOK
  <2> QED
    BY <1>1, <2>1, <2>2, Smaller
<1>6. ASSUME NEW q \in Program, child[q] # None
      PROVE  pc'[q] = pc[q] /\ pc'[child[q]] = pc[child[q]]
  BY <1>2, <1>3, <1>5, <1>6
<1> QED
  BY <1>1, <1>2, <1>4, <1>5, <1>6 DEF ChildInv

\* BarbaComm::InitializeEvents of a child: its parent has closed the event.
LEMMA ChildOpens ==
  ASSUME TypeOK, ChildInv, NEW p \in Program, InitializeEvents(p)
  PROVE  ChildInv'
<1>1. /\ pc[p] = "launched" /\ pc' = [pc EXCEPT ![p] = "opened"]
      /\ blockers' = [blockers EXCEPT ![p] = OpenedBy] /\ UNCHANGED <<started, child>>
  BY DEF InitializeEvents
<1>2. \A q \in Program : /\ pc'[q] = IF q = p THEN "opened" ELSE pc[q]
                         /\ blockers'[q] = IF q = p THEN OpenedBy ELSE blockers[q]
  BY <1>1 DEF TypeOK
<1>3. child[p] = None /\ \A q \in Program : child[q] # None => child[q] \in Program
  BY <1>1, NoChild DEF TypeOK
<1>4. ASSUME NEW q \in Program, child[q] # None
      PROVE  /\ pc'[q] \in {"disposing", "disposed", "exited"}
             /\ pc'[q] # "exited" => pc'[child[q]] = "suspended"
             /\ q \notin blockers'[child[q]]
  <2>1. pc'[q] = pc[q] /\ pc[q] \in {"disposing", "disposed", "exited"}
    BY <1>2, <1>3, <1>4 DEF ChildInv
  <2>2. CASE child[q] = p
    <3>1. pc[q] = "exited"
      BY <1>1, <1>4, <2>1, <2>2 DEF ChildInv
    <3>2. q \notin OpenedBy
      BY <3>1, StatusTypes DEF OpenedBy
    <3> QED
      BY <1>2, <2>1, <2>2, <3>1, <3>2
  <2>3. CASE child[q] # p
    BY <1>2, <1>3, <1>4, <2>1, <2>3 DEF ChildInv
  <2> QED
    BY <2>2, <2>3
<1>5. \A q \in Program : q > started => pc'[q] = "none" /\ blockers'[q] = {}
  BY <1>1, <1>2 DEF ChildInv
<1> QED
  BY <1>1, <1>4, <1>5 DEF ChildInv

\* The process for a restart.
LEMMA ChildCreated ==
  ASSUME TypeOK, ChildInv, NEW p \in Program, CreateChild(p)
  PROVE  ChildInv'
<1>1. pc[p] = "stopped" /\ UNCHANGED blockers /\ child[p] = None
  BY NoChild DEF CreateChild, opening
<1>2. CASE ~(IsRestartCommand[p] /\ started < MaxPrograms)
  BY <1>1, <1>2, ChildMoves DEF CreateChild
<1>3. CASE IsRestartCommand[p] /\ started < MaxPrograms
  <2> DEFINE n == started + 1
  <2>1. /\ n \in Program /\ started' = n /\ started \in Nat
        /\ child' = [child EXCEPT ![p] = n]
        /\ pc' = [pc EXCEPT ![p] = "disposing", ![n] = "suspended"]
    <3>1. started \in 0 .. MaxPrograms /\ MaxPrograms \in Nat
      BY ConstantsAssumption DEF TypeOK
    <3> QED
      BY <1>3, <3>1, NextProgram DEF CreateChild
  <2>2. child[n] = None /\ blockers[n] = {} /\ pc[n] = "none" /\ n # p /\ n # None
    BY <1>1, <2>1, SMT DEF ChildInv, None
  <2>3. \A q \in Program : /\ pc'[q] = IF q = n THEN "suspended"
                                      ELSE IF q = p THEN "disposing" ELSE pc[q]
                           /\ child'[q] = IF q = p THEN n ELSE child[q]
    BY <2>1, <2>2 DEF TypeOK
  <2>4. \A q \in Program : q > started' => q > started /\ q # n /\ q # p
    <3>1. ~(p > started)
      BY <1>1 DEF ChildInv
    <3> QED
      BY <2>1, <3>1, SMT DEF Program
  <2>5. \A q \in Program : child[q] # None => child[q] \in 1 .. started' /\ child[q] # n
                                                /\ child[q] \in Program
    <3> TAKE q \in Program
    <3> HAVE child[q] # None
    <3>1. child[q] \in 1 .. started
      BY DEF ChildInv
    <3>2. child[q] \in Program
      BY DEF TypeOK
    <3> QED
      BY <2>1, <3>1, <3>2, Smaller
  <2>6. ASSUME NEW q \in Program, child'[q] # None
        PROVE  /\ child'[q] \in 1 .. started' /\ child'[q] # q
               /\ pc'[q] \in {"disposing", "disposed", "exited"}
               /\ pc'[q] # "exited" => pc'[child'[q]] = "suspended"
               /\ q \notin blockers'[child'[q]]
    <3>1. CASE q = p
      <4>1. n \in 1 .. started'
        BY <2>1, SMT
      <4>2. child'[p] = n /\ pc'[n] = "suspended" /\ pc'[p] = "disposing"
        BY <2>1, <2>2, <2>3
      <4>3. blockers'[n] = {}
        BY <1>1, <2>2
      <4> QED
        BY <2>2, <3>1, <4>1, <4>2, <4>3
    <3>2. CASE q # p
      <4>1. child'[q] = child[q] /\ child[q] # None /\ q # n
        BY <2>2, <2>3, <2>6, <3>2
      <4>2. child[q] # p \/ pc[q] = "exited"
        BY <1>1, <4>1 DEF ChildInv
      <4>3. pc'[q] = pc[q]
        BY <2>3, <3>2, <4>1
      <4>4. child[q] # p => pc'[child[q]] = pc[child[q]]
        BY <2>3, <2>5, <4>1
      <4> QED
        BY <1>1, <2>5, <4>1, <4>2, <4>3, <4>4 DEF ChildInv
    <3> QED
      BY <3>1, <3>2
  <2>7. \A q, r \in Program : child'[q] # None /\ child'[q] = child'[r] => q = r
    BY <2>3, <2>5 DEF ChildInv
  <2>8. \A q \in Program : q > started' =>
          pc'[q] = "none" /\ child'[q] = None /\ blockers'[q] = {}
    BY <1>1, <2>3, <2>4 DEF ChildInv
  <2> QED
    BY <2>6, <2>7, <2>8 DEF ChildInv
<1> QED
  BY <1>2, <1>3

\* The parent resumes its own child, and no other one.
LEMMA ChildResumed ==
  ASSUME TypeOK, ChildInv, NEW p \in Program, Exit(p)
  PROVE  ChildInv'
<1>1. /\ pc[p] = "disposed" /\ UNCHANGED <<started, child, blockers>>
      /\ \A q \in Program : pc'[q] = IF q = p THEN "exited"
                              ELSE IF q = child[p] /\ pc[q] = "suspended" THEN "launched"
                              ELSE pc[q]
  BY DEF Exit
<1>2. \A q \in Program : child[q] # None => child[q] \in Program
  BY DEF TypeOK
<1>3. ASSUME NEW q \in Program, child[q] # None
      PROVE  /\ pc'[q] \in {"disposing", "disposed", "exited"}
             /\ pc'[q] # "exited" => pc'[child[q]] = "suspended"
  <2>1. CASE q = p
    BY <1>1, <2>1
  <2>2. CASE q # p
    <3>1. pc[q] \in {"disposing", "disposed", "exited"} /\ pc'[q] = pc[q]
      BY <1>1, <1>3, <2>2 DEF ChildInv
    <3>2. child[q] # child[p]
      BY <1>3, <2>2 DEF ChildInv
    <3>3. pc[q] # "exited" => pc[child[q]] = "suspended" /\ child[q] # p
      BY <1>1, <1>3 DEF ChildInv
    <3> QED
      BY <1>1, <1>2, <1>3, <3>1, <3>2, <3>3
  <2> QED
    BY <2>1, <2>2
<1>4. ASSUME NEW q \in Program, q > started PROVE pc'[q] = "none"
  <2>1. pc[q] = "none"
    BY <1>4 DEF ChildInv
  <2> QED
    BY <1>1, <2>1
<1> QED
  BY <1>1, <1>3, <1>4 DEF ChildInv

LEMMA ChildMain ==
  ASSUME TypeOK, ChildInv, NEW p \in Program, Main(p)
  PROVE  ChildInv'
<1>1. CASE InitializeEvents(p)
  BY <1>1, ChildOpens
<1>2. CASE Refuse(p)
  BY <1>2, ChildEnds DEF Refuse
<1>3. CASE CreateFiles(p)
  BY <1>3, NoChild, ChildMoves DEF CreateFiles, opening
<1>4. CASE Load(p) \/ StartDelayed(p) \/ StartNow(p) \/ DelayOver(p) \/ DriverStart(p)
            \/ DriverStartReturns(p)
  <2>1. PICK from, to \in HasApp \ {"disposing"} : MainStep(p, from, to)
    BY <1>4, StatusTypes
       DEF Load, StartDelayed, StartNow, DelayOver, DriverStart, DriverStartReturns
  <2>2. /\ pc[p] \notin {"none", "suspended", "disposing", "disposed", "exited"}
        /\ pc' = [pc EXCEPT ![p] = to] /\ UNCHANGED <<started, child, blockers>>
    BY <2>1, StatusTypes DEF MainStep, opening
  <2> QED
    BY <2>2, NoChild, ChildMoves
<1>5. CASE CreateChild(p)
  BY <1>5, ChildCreated
<1>6. CASE CommDispose(p)
  BY <1>6, ChildMoves DEF CommDispose, opening
<1>7. CASE Exit(p)
  BY <1>7, ChildResumed
<1> QED
  BY <1>1, <1>2, <1>3, <1>4, <1>5, <1>6, <1>7 DEF Main

LEMMA ChildStep ==
  ASSUME TypeOK, ChildInv, [Next]_vars
  PROVE  ChildInv'
<1>1. CASE UNCHANGED vars
  BY <1>1, ChildStays DEF vars, programVars, opening
<1>2. ASSUME NEW p \in Program, Main(p) PROVE ChildInv'
  BY <1>2, ChildMain
<1>3. ASSUME NEW p \in Program, Fails(p) PROVE ChildInv'
  <2>1. CASE StartFails(p)
    BY <2>1, ChildEnds DEF StartFails
  <2>2. CASE InitializeFails(p)
    <3>1. /\ pc[p] \in {"loaded", "waiting"} /\ pc' = [pc EXCEPT ![p] = "disposing"]
          /\ UNCHANGED <<started, child, blockers>>
      BY <2>2 DEF InitializeFails, MainStep, opening
    <3> QED
      BY <3>1, ChildMoves
  <2>3. CASE CaptureFails(p)
    BY <2>3, ChildStays DEF CaptureFails, opening
  <2> QED
    BY <1>3, <2>1, <2>2, <2>3 DEF Fails
<1>4. ASSUME NEW p \in Program, Monitor(p) PROVE ChildInv'
  <2>1. CASE MonitorCrashes(p)
    BY <2>1, ChildEnds DEF MonitorCrashes
  <2>2. CASE MonitorWakes(p) \/ MonitorResets(p) \/ MonitorEnds(p)
    BY <2>2, ChildStays DEF MonitorWakes, MonitorResets, MonitorEnds, opening
  <2> QED
    BY <1>4, <2>1, <2>2 DEF Monitor
<1>5. ASSUME NEW c \in Caller, Call(c) PROVE ChildInv'
  BY <1>5, ChildStays DEF Call, WriteCommand, SetEvent, CloseEvent, programVars, opening
<1>6. CASE (\E delay \in BOOLEAN : Launch("launched", delay))
  BY <1>6, ChildLaunches
<1>7. CASE UNCHANGED programVars
  BY <1>7, ChildStays DEF programVars, opening
<1>8. User \/ Service => \/ \E delay \in BOOLEAN : Launch("launched", delay)
                        \/ UNCHANGED programVars
  BY DEF User, WindowCommand, DoStart, PollStopped, PollRunning,
         Service, OnStart, OnStop, ServiceCloses, ServiceWakes, ServiceStarts
<1> QED
  BY <1>1, <1>2, <1>3, <1>4, <1>5, <1>6, <1>7, <1>8 DEF Next

\* A process created for a restart never finds the event open because of the
\* process that created it.
THEOREM ParentCorrect == Spec => []ParentNeverBlocks
<1>1. Init => ChildInv
  BY DEF Init, ChildInv
<1>2. TypeOK /\ ChildInv /\ [Next]_vars => ChildInv'
  BY ChildStep
<1>3. ChildInv => ParentNeverBlocks
  BY DEF ChildInv, ParentNeverBlocks
<1> QED
  BY TypeCorrect, <1>1, <1>2, <1>3, PTL DEF Spec
=============================================================================
