------------------------- MODULE ProcessMonitor_proofs ------------------------
(***************************************************************************)
(* What ProcessMonitor guarantees for every number of restarts, proved     *)
(* with TLAPS: one child at a time, no child left unsupervised, and a      *)
(* bound on the number of children.                                        *)
(***************************************************************************)
EXTENDS ProcessMonitor, TLAPS

(* The restarts under way: armed, past their timer, or in start().         *)
Restarting == timer + resumes + starts

(* A restart is one thing at one place, and no child lives meanwhile; this *)
(* is why start() never meets a child, whatever its own test of the state. *)
OneRestart ==
  /\ Restarting <= 1
  /\ Restarting = 1 => alive = {}
  /\ owner = "new" => /\ alive = {} /\ Restarting = 0 /\ state = "stopped"
                      /\ child = 0 /\ stableRun = 0

(* What the state says of the child and of the owner's stop().             *)
StateTells ==
  /\ state = "starting" => starts > 0
  /\ state = "crashed" => alive = {}
  /\ state = "stopped" /\ alive # {} => signal = "kill"
  /\ state = "stopping" <=> owner = "killing"
  /\ owner = "killing" => alive # {}

(* How many children the restarts counted so far account for.              *)
Accounted ==
  /\ alive # {} =>
       stableRun = 0 /\ child <= MaxRestarts * stables + restartCount + 1
  /\ Restarting = 1 =>
       child <= MaxRestarts * stables + restartCount
                - (IF stableRun = 1 THEN MaxRestarts ELSE 0)

IInv ==
  /\ TypeOK
  /\ OneRestart
  /\ StateTells
  /\ Accounted
  /\ OneChild
  /\ LiveIsSupervised
  /\ RestartBudget

-----------------------------------------------------------------------------
LEMMA FlagsInitial == Init => FlagsOK
  BY DEF Init, FlagsOK

LEMMA FlagsStep == FlagsOK /\ [Next]_vars => FlagsOK'
<1> SUFFICES ASSUME FlagsOK, [Next]_vars PROVE FlagsOK'
  OBVIOUS
<1> USE DEF FlagsOK, ports
<1>1. CASE Start \/ Restart \/ TimerFires
  BY <1>1 DEF Start, Restart, TimerFires
<1>2. CASE Spawn \/ SpawnFails
  BY <1>2 DEF Spawn, SpawnFails, ForgetLastRun
<1>3. CASE ChildExits
  BY <1>3 DEF ChildExits, Exit
<1>4. CASE Stop \/ Cleanup
  BY <1>4 DEF Stop, Cleanup, EnterStop, ClearTimers
<1>5. CASE StopProceeds \/ StopTimesOut \/ FatalOutput
  BY <1>5 DEF StopProceeds, StopTimesOut, FatalOutput
<1>6. CASE StartProbe \/ ProbeAnswered \/ ProbeFails
  BY <1>6 DEF StartProbe, ProbeAnswered, ProbeFails
<1>7. CASE HealthKills \/ HealthKillTimesOut
  BY <1>7 DEF HealthKills, HealthKillTimesOut
<1>8. CASE UNCHANGED vars
  BY <1>8 DEF vars
<1> QED
  BY <1>1, <1>2, <1>3, <1>4, <1>5, <1>6, <1>7, <1>8 DEF Next

LEMMA TypeInitial == Init => TypeOK
  BY FlagsInitial, RestartsAssumption, ThresholdAssumption, StableAssumption
  DEF Init, TypeOK, States

LEMMA TypeStep == TypeOK /\ [Next]_vars => TypeOK'
<1> SUFFICES ASSUME TypeOK, [Next]_vars PROVE TypeOK'
  OBVIOUS
<1>f. FlagsOK'
  BY FlagsStep DEF TypeOK
<1> USE RestartsAssumption, ThresholdAssumption, StableAssumption
    DEF TypeOK, States, ports
<1>1. CASE Start
  BY <1>f, <1>1 DEF Start, EnterStart
<1>2. CASE Spawn
  BY <1>f, <1>2 DEF Spawn, ForgetLastRun
<1>3. CASE SpawnFails
  BY <1>f, <1>3 DEF SpawnFails, ForgetLastRun
<1>4. CASE ChildExits
  <2>1. PICK how \in Exits, quiet \in BOOLEAN, stable \in {0, 1} :
          Exit(how, quiet, stable)
    BY <1>4 DEF ChildExits
  <2>2. /\ timer' \in {0, 1} /\ restartCount' \in 0..MaxRestarts
        /\ state' \in States
    BY <2>1 DEF Exit, ShouldRestart, ScheduleRestart
  <2>3. /\ stableRun' \in {0, 1} /\ stables' \in 0..MaxStable
        /\ alive' \subseteq 1..child'
    BY <2>1 DEF Exit
  <2> QED
    BY <1>f, <2>1, <2>2, <2>3 DEF Exit, KillersReturn
<1>5. CASE TimerFires \/ Restart
  <2>1. /\ timer' \in {0, 1} /\ resumes' \in Nat /\ starts' \in Nat
        /\ state' \in States
    BY <1>5 DEF TimerFires, Restart, EnterStart
  <2> QED
    BY <1>f, <1>5, <2>1 DEF TimerFires, Restart
<1>6. CASE Stop \/ Cleanup
  BY <1>f, <1>6 DEF Stop, Cleanup, EnterStop, ClearTimers
<1>7. CASE StopProceeds \/ StopTimesOut \/ FatalOutput
  BY <1>f, <1>7
  DEF StopProceeds, StopTimesOut, FatalOutput, Terminate, ForceKill, restarts
<1>8. CASE StartProbe \/ ProbeAnswered \/ ProbeFails
  <2>1. portFailureCount' \in 0..MaxFailures
    BY <1>8 DEF StartProbe, ProbeAnswered, ProbeFails
  <2>2. healthKill' \subseteq {"logging", "killing"}
    BY <1>8, Zenon DEF StartProbe, ProbeAnswered, ProbeFails
  <2> QED
    BY <1>f, <1>8, <2>1, <2>2
    DEF StartProbe, ProbeAnswered, ProbeFails, restarts
<1>9. CASE HealthKills \/ HealthKillTimesOut
  BY <1>f, <1>9 DEF HealthKills, HealthKillTimesOut, Terminate, ForceKill, restarts
<1>10. CASE UNCHANGED vars
  BY <1>f, <1>10 DEF vars, restarts
<1> QED
  BY <1>1, <1>2, <1>3, <1>4, <1>5, <1>6, <1>7, <1>8, <1>9, <1>10 DEF Next

-----------------------------------------------------------------------------
(* What a stable run adds to the budget, and what that leaves of it.       *)
LEMMA BudgetStep ==
  ASSUME NEW s \in Nat, NEW c \in Nat, NEW r \in 0..MaxRestarts,
         c <= MaxRestarts * s + r + 1
  PROVE  /\ c <= MaxRestarts * (s + 1) + 1
         /\ c <= MaxRestarts * (s + 1) + r + 1 - MaxRestarts
<1> DEFINE p == MaxRestarts * s
           q == MaxRestarts * (s + 1)
<1>1. p \in Int /\ q \in Int /\ q = p + MaxRestarts
  BY RestartsAssumption
<1>2. c <= p + r + 1
  OBVIOUS
<1> HIDE DEF p, q
<1>3. c <= q + 1 /\ c <= q + r + 1 - MaxRestarts
  BY <1>1, <1>2, RestartsAssumption
<1> QED
  BY <1>3 DEF q

(* The steps that the invariant cannot see, or that only send a signal.    *)
LEMMA SignalStep ==
  ASSUME IInv, TypeOK',
         UNCHANGED <<state, child, alive, health, restarts, owner>>,
         signal' = signal \/ signal' = "kill" \/ signal # "kill"
  PROVE  IInv'
  BY DEF IInv, OneRestart, Restarting, StateTells, Accounted, OneChild,
         LiveIsSupervised, RestartBudget, restarts

LEMMA SpawnStep == IInv /\ TypeOK' /\ Spawn => IInv'
<1> SUFFICES ASSUME IInv, TypeOK', Spawn PROVE IInv'
  OBVIOUS
<1> USE RestartsAssumption
<1>1. /\ child \in Nat /\ stables \in Nat /\ restartCount \in 0..MaxRestarts
      /\ timer \in {0, 1} /\ resumes \in Nat /\ starts \in Nat
      /\ stableRun \in {0, 1}
  BY StableAssumption DEF IInv, TypeOK
<1>2. /\ starts > 0 /\ starts' = starts - 1 /\ child' = child + 1
      /\ UNCHANGED <<timer, resumes, stables, owner>>
      /\ stableRun' = 0 /\ alive' = alive \cup {child + 1}
      /\ state' = "running" /\ health' /\ signal' = "none"
  BY DEF Spawn, ForgetLastRun
<1>3. restartCount' = IF stableRun = 1 THEN 0 ELSE restartCount
  BY DEF Spawn, ForgetLastRun
<1>4. Restarting = 1 /\ alive = {} /\ Restarting' = 0 /\ owner # "new"
  BY <1>1, <1>2 DEF IInv, OneRestart, Restarting
<1>5. owner # "killing"
  BY <1>4 DEF IInv, StateTells
<1>6. child' <= MaxRestarts * stables + restartCount' + 1
  BY <1>1, <1>2, <1>3, <1>4, BudgetStep DEF IInv, Accounted
<1>7. OneRestart' /\ StateTells' /\ OneChild'
  BY <1>2, <1>4, <1>5 DEF OneRestart, StateTells, OneChild
<1>8. Accounted'
  BY <1>2, <1>4, <1>6 DEF Accounted
<1>9. restartCount' \in 0..MaxRestarts
  BY DEF TypeOK
<1>10. RestartBudget'
  <2>1. child' \in Nat
    BY <1>1, <1>2
  <2>2. child' <= MaxRestarts * (stables + 1) + 1
    BY <1>1, <1>6, <1>9, <2>1, BudgetStep
  <2> QED
    BY <1>2, <2>2 DEF RestartBudget
<1>11. LiveIsSupervised'
  BY <1>2 DEF LiveIsSupervised
<1> QED
  BY <1>7, <1>8, <1>10, <1>11 DEF IInv

LEMMA ExitStep == IInv /\ TypeOK' /\ ChildExits => IInv'
<1> SUFFICES ASSUME IInv, TypeOK',
                    NEW how \in Exits, NEW quiet \in BOOLEAN,
                    NEW stable \in {0, 1}, Exit(how, quiet, stable)
             PROVE  IInv'
  BY DEF ChildExits
<1> USE RestartsAssumption
<1>1. /\ child \in Nat /\ stables \in Nat /\ restartCount \in 0..MaxRestarts
      /\ timer \in {0, 1} /\ resumes \in Nat /\ starts \in Nat
  BY StableAssumption DEF IInv, TypeOK
<1>2. /\ child \in alive /\ alive' = alive \ {child}
      /\ UNCHANGED <<child, resumes, starts>>
      /\ stableRun' = stable /\ stables' = stables + stable
      /\ state' \in {"crashed", "stopped"}
  BY DEF Exit
<1>3. owner' # "killing" /\ (owner' = "new" => owner = "new")
  BY DEF Exit, KillersReturn
<1>4. \/ timer' = 1 /\ restartCount' = restartCount + 1
      \/ timer' = timer /\ restartCount' = restartCount
  BY DEF Exit, ScheduleRestart
<1>5. alive' = {}
  BY <1>2 DEF IInv, OneChild
<1>6. Restarting = 0 /\ owner # "new"
  BY <1>1, <1>2 DEF IInv, OneRestart, Restarting
<1>7. timer = 0 /\ resumes = 0 /\ starts = 0
  BY <1>1, <1>6 DEF Restarting
<1>8. /\ child <= MaxRestarts * stables + restartCount + 1
  BY <1>2 DEF IInv, Accounted
<1>9. OneRestart' /\ StateTells' /\ OneChild'
  BY <1>2, <1>3, <1>4, <1>5, <1>6, <1>7
  DEF OneRestart, Restarting, StateTells, OneChild
<1>10. Accounted'
  <2>1. Restarting' = 1 => timer' = 1 /\ restartCount' = restartCount + 1
    BY <1>2, <1>4, <1>7 DEF Restarting
  <2>2. ASSUME Restarting' = 1
        PROVE  child <= MaxRestarts * stables' + restartCount'
                        - (IF stable = 1 THEN MaxRestarts ELSE 0)
    <3>1. CASE stable = 0
      BY <1>1, <1>2, <1>8, <2>1, <2>2, <3>1
    <3>2. CASE stable = 1
      BY <1>1, <1>2, <1>8, <2>1, <2>2, <3>2, BudgetStep
    <3> QED
      BY <3>1, <3>2
  <2> QED
    BY <1>2, <1>5, <2>2 DEF Accounted
<1>11. RestartBudget'
  BY <1>1, <1>2, <1>8, BudgetStep DEF RestartBudget, IInv
<1>12. LiveIsSupervised'
  BY <1>5 DEF LiveIsSupervised
<1> QED
  BY <1>9, <1>10, <1>11, <1>12 DEF IInv

(* The owner's start and the restart callback.                             *)
LEMMA StartStep ==
  IInv /\ TypeOK' /\ (Start \/ SpawnFails \/ TimerFires \/ Restart) => IInv'
<1> SUFFICES ASSUME IInv, TypeOK', Start \/ SpawnFails \/ TimerFires \/ Restart
             PROVE  IInv'
  OBVIOUS
<1> USE RestartsAssumption
<1>1. /\ child \in Nat /\ stables \in Nat /\ restartCount \in 0..MaxRestarts
      /\ timer \in {0, 1} /\ resumes \in Nat /\ starts \in Nat
  BY StableAssumption DEF IInv, TypeOK
<1>2. UNCHANGED <<child, alive, signal, health, stableRun, stables>>
  BY DEF Start, SpawnFails, TimerFires, Restart
<1>3. /\ alive = {}
      /\ Restarting' <= 1
      /\ owner' # "new"
      /\ state' # "stopping" /\ owner' # "killing"
      /\ state' = "starting" => starts' > 0
  <2>1. CASE Start
    BY <1>1, <2>1
    DEF Start, EnterStart, IInv, OneRestart, StateTells, Restarting
  <2>2. CASE SpawnFails
    BY <1>1, <2>2
    DEF SpawnFails, ForgetLastRun, IInv, OneRestart, StateTells, Restarting
  <2>3. CASE TimerFires
    BY <1>1, <2>3 DEF TimerFires, IInv, OneRestart, StateTells, Restarting
  <2>4. CASE Restart
    BY <1>1, <2>4
    DEF Restart, EnterStart, IInv, OneRestart, StateTells, Restarting
  <2> QED
    BY <2>1, <2>2, <2>3, <2>4
<1>4. Restarting' = 1 => /\ restartCount' = restartCount
                         /\ \/ Restarting = 1
                            \/ child = 0 /\ stableRun = 0
  <2>1. CASE Start
    BY <1>1, <2>1 DEF Start, EnterStart, IInv, OneRestart, Restarting
  <2>2. CASE SpawnFails
    BY <1>1, <2>2 DEF SpawnFails, ForgetLastRun, IInv, OneRestart, Restarting
  <2>3. CASE TimerFires
    BY <1>1, <2>3 DEF TimerFires, IInv, OneRestart, Restarting
  <2>4. CASE Restart
    BY <1>1, <2>4 DEF Restart, EnterStart, IInv, OneRestart, Restarting
  <2> QED
    BY <2>1, <2>2, <2>3, <2>4
<1>5. OneRestart' /\ StateTells' /\ OneChild'
  BY <1>2, <1>3 DEF OneRestart, StateTells, OneChild, IInv
<1>6. Accounted'
  BY <1>1, <1>2, <1>3, <1>4, BudgetStep DEF Accounted, IInv
<1>7. RestartBudget' /\ LiveIsSupervised'
  BY <1>2, <1>3 DEF RestartBudget, LiveIsSupervised, IInv
<1> QED
  BY <1>5, <1>6, <1>7 DEF IInv

(* The owner's stop() and cleanup().                                       *)
LEMMA StopStep ==
  IInv /\ TypeOK' /\ (Stop \/ Cleanup \/ StopProceeds \/ StopTimesOut) => IInv'
<1> SUFFICES ASSUME IInv, TypeOK',
                    Stop \/ Cleanup \/ StopProceeds \/ StopTimesOut
             PROVE  IInv'
  OBVIOUS
<1>1. timer \in {0, 1} /\ resumes \in Nat /\ starts \in Nat
  BY DEF IInv, TypeOK
<1>2. /\ UNCHANGED <<child, alive, restartCount, stableRun, resumes, starts,
                     stables>>
      /\ timer' = timer \/ timer' = 0
  BY DEF Stop, Cleanup, EnterStop, ClearTimers, StopProceeds, StopTimesOut,
         restarts
<1>3. Restarting' = Restarting \/ Restarting' = 0
  BY <1>1, <1>2 DEF IInv, OneRestart, Restarting
<1>4. owner' # "new"
  BY DEF Stop, Cleanup, EnterStop, StopProceeds, StopTimesOut
<1>5. StateTells'
  BY <1>2 DEF Stop, Cleanup, EnterStop, StopProceeds, StopTimesOut, ForceKill,
              restarts, IInv, StateTells
<1>6. LiveIsSupervised'
  <2>1. CASE Stop \/ Cleanup
    BY <1>2, <2>1 DEF Stop, Cleanup, EnterStop, ClearTimers, IInv, StateTells,
                      OneRestart, LiveIsSupervised
  <2>2. CASE StopProceeds \/ StopTimesOut
    BY <2>2 DEF StopProceeds, StopTimesOut, ForceKill, LiveIsSupervised
  <2> QED
    BY <2>1, <2>2
<1>7. OneRestart' /\ OneChild' /\ RestartBudget'
  BY <1>2, <1>3, <1>4 DEF IInv, OneRestart, OneChild, RestartBudget
<1>8. Accounted'
  BY <1>2, <1>3 DEF IInv, Accounted
<1> QED
  BY <1>5, <1>6, <1>7, <1>8 DEF IInv

LEMMA IInvStep == IInv /\ [Next]_vars => IInv'
<1> SUFFICES ASSUME IInv, [Next]_vars PROVE IInv'
  OBVIOUS
<1>t. TypeOK'
  BY TypeStep DEF IInv
<1>1. CASE Spawn
  BY <1>t, <1>1, SpawnStep
<1>2. CASE ChildExits
  BY <1>t, <1>2, ExitStep
<1>3. CASE Start \/ SpawnFails \/ TimerFires \/ Restart
  BY <1>t, <1>3, StartStep
<1>4. CASE Stop \/ Cleanup \/ StopProceeds \/ StopTimesOut
  BY <1>t, <1>4, StopStep
<1>5. CASE FatalOutput \/ HealthKills \/ HealthKillTimesOut
  <2>1. /\ UNCHANGED <<state, child, alive, health, restarts, owner>>
        /\ signal' = signal \/ signal' = "kill" \/ signal # "kill"
    BY <1>5 DEF FatalOutput, HealthKills, HealthKillTimesOut, Terminate,
                ForceKill
  <2> QED
    BY <1>t, <2>1, SignalStep
<1>6. CASE StartProbe \/ ProbeAnswered \/ ProbeFails \/ UNCHANGED vars
  <2>1. UNCHANGED <<state, child, alive, health, restarts, owner, signal>>
    BY <1>6 DEF StartProbe, ProbeAnswered, ProbeFails, vars
  <2> QED
    BY <1>t, <2>1, SignalStep
<1> QED
  BY <1>1, <1>2, <1>3, <1>4, <1>5, <1>6 DEF Next

LEMMA IInvInitial == Init => IInv
<1> SUFFICES ASSUME Init PROVE IInv
  OBVIOUS
<1>1. /\ alive = {} /\ child = 0 /\ stableRun = 0 /\ state = "stopped"
      /\ owner = "new" /\ stables = 0
  BY DEF Init
<1>2. Restarting = 0
  BY DEF Init, Restarting
<1>3. OneRestart /\ StateTells /\ Accounted /\ OneChild /\ LiveIsSupervised
  BY <1>1, <1>2
  DEF OneRestart, StateTells, Accounted, OneChild, LiveIsSupervised
<1>4. RestartBudget
  BY <1>1, RestartsAssumption DEF RestartBudget
<1> QED
  BY <1>3, <1>4, TypeInitial DEF IInv

LEMMA Invariance == Spec => []IInv
<1> QED
  BY IInvInitial, IInvStep, PTL DEF Spec

(* Every variable of the monitor keeps its type.                           *)
THEOREM TypeCorrect == Spec => []TypeOK
<1>1. IInv => TypeOK
  BY DEF IInv
<1> QED
  BY <1>1, Invariance, PTL

(* start(), scheduleRestart(), stop() and the health kill: at most one     *)
(* child lives, and it is the one this.childProcess names.                 *)
THEOREM ChildrenAreOne == Spec => []OneChild
<1>1. IInv => OneChild
  BY DEF IInv
<1> QED
  BY <1>1, Invariance, PTL

(* A live child that no stop() is ending and nobody has sent SIGKILL is in *)
(* state 'running' and has its health checked.                             *)
THEOREM LiveAreSupervised == Spec => []LiveIsSupervised
<1>1. IInv => LiveIsSupervised
  BY DEF IInv
<1> QED
  BY <1>1, Invariance, PTL

(* shouldRestartAfterExit() and the reset in start(): the number of        *)
(* children is bounded by maxRestarts and the number of stable runs.       *)
THEOREM RestartsAreBounded == Spec => []RestartBudget
<1>1. IInv => RestartBudget
  BY DEF IInv
<1> QED
  BY <1>1, Invariance, PTL
-----------------------------------------------------------------------------
(* A stop that met no restart past its test is for good: neither the exit  *)
(* handler, nor the timer, nor a health check leaves `Down`.               *)
LEMMA DownStep == TypeOK /\ Down /\ [Next]_vars => Down'
<1> SUFFICES ASSUME TypeOK, Down, [Next]_vars PROVE Down'
  OBVIOUS
<1>1. owner = "returned" /\ state = "stopped" /\ resumes = 0 /\ starts = 0
  BY DEF Down
<1> USE DEF Down
<1>2. CASE Start \/ Spawn \/ SpawnFails \/ Restart
  BY <1>1, <1>2 DEF Start, Spawn, SpawnFails, ForgetLastRun, Restart
<1>3. CASE ChildExits
  <2>1. ~WasRunning
    BY <1>1 DEF WasRunning
  <2>2. /\ state' = "stopped" /\ owner' = "returned"
        /\ UNCHANGED <<resumes, starts>>
    BY <1>1, <1>3, <2>1 DEF ChildExits, Exit, KillersReturn
  <2> QED
    BY <1>1, <2>2
<1>4. CASE TimerFires
  BY <1>1, <1>4 DEF TimerFires
<1>5. CASE Stop \/ Cleanup \/ StopProceeds \/ StopTimesOut
  BY <1>1, <1>5 DEF Stop, Cleanup, EnterStop, StopProceeds, StopTimesOut
<1>6. CASE \/ FatalOutput \/ StartProbe \/ ProbeAnswered \/ ProbeFails
           \/ HealthKills \/ HealthKillTimesOut \/ UNCHANGED vars
  BY <1>1, <1>6 DEF FatalOutput, StartProbe, ProbeAnswered, ProbeFails,
                    HealthKills, HealthKillTimesOut, vars, restarts
<1> QED
  BY <1>2, <1>3, <1>4, <1>5, <1>6 DEF Next

\* What the owner and the supervisor see of the monitor's other steps.
LEMMA QuietStep ==
  ASSUME TypeOK, [Next]_vars, ~Spawn, ~ChildExits
  PROVE  UNCHANGED <<alive, child, stables>>
<1>1. CASE Start \/ SpawnFails \/ Restart \/ TimerFires
  BY <1>1 DEF Start, SpawnFails, Restart, TimerFires
<1>2. CASE Stop \/ Cleanup \/ StopProceeds \/ StopTimesOut
  BY <1>2 DEF Stop, Cleanup, EnterStop, StopProceeds, StopTimesOut, restarts
<1>3. CASE \/ FatalOutput \/ StartProbe \/ ProbeAnswered \/ ProbeFails
           \/ HealthKills \/ HealthKillTimesOut \/ UNCHANGED vars
  BY <1>3 DEF FatalOutput, StartProbe, ProbeAnswered, ProbeFails,
              HealthKills, HealthKillTimesOut, vars, restarts
<1> QED
  BY <1>1, <1>2, <1>3 DEF Next

\* A spawn is a launch: it is the one restart under way, so no child lives,
\* and the invariant has a restart left for it.
LEMMA SpawnLaunches == IInv /\ IInv' /\ Spawn => Service!Launch
<1> SUFFICES ASSUME IInv, IInv', Spawn PROVE Service!Launch
  OBVIOUS
<1>1. /\ timer \in {0, 1} /\ resumes \in Nat /\ starts \in Nat
      /\ child \in Nat /\ stables \in Nat
  BY StableAssumption DEF IInv, TypeOK
<1>2. /\ starts > 0 /\ child' = child + 1 /\ alive' = alive \cup {child + 1}
      /\ state' = "running" /\ stables' = stables
  BY DEF Spawn, ForgetLastRun
<1>3. alive = {}
  BY <1>1, <1>2 DEF IInv, OneRestart, Restarting
<1>4. Down = FALSE /\ Down' = FALSE
  BY <1>1, <1>2 DEF Down
<1>5. child <= MaxRestarts * (stables + 1)
  <2> DEFINE b == MaxRestarts * (stables + 1)
  <2>1. b \in Int
    BY <1>1, RestartsAssumption
  <2>2. child + 1 <= b + 1
    BY <1>2 DEF IInv, RestartBudget
  <2> HIDE DEF b
  <2>3. child <= b
    BY <1>1, <2>1, <2>2
  <2> QED
    BY <2>3 DEF b
<1> QED
  BY <1>2, <1>3, <1>4, <1>5 DEF Service!Launch

LEMMA ServiceStep == IInv /\ IInv' /\ [Next]_vars => [Service!Next]_(Service!vars)
<1> SUFFICES ASSUME IInv, IInv', [Next]_vars
             PROVE  [Service!Next]_(Service!vars)
  OBVIOUS
<1>1. Down \in BOOLEAN /\ Down' \in BOOLEAN /\ (Down => Down')
  <2>1. Down => Down'
    BY DownStep DEF IInv
  <2> QED
    BY <2>1, Zenon DEF Down
<1>2. CASE Spawn
  BY <1>2, SpawnLaunches DEF Service!Next
<1>3. CASE ChildExits
  <2>1. PICK how \in Exits, quiet \in BOOLEAN, stable \in {0, 1} :
          Exit(how, quiet, stable)
    BY <1>3 DEF ChildExits
  <2>2. /\ child \in alive /\ alive' = alive \ {child} /\ child' = child
        /\ stables' = stables + stable
    BY <2>1 DEF Exit
  <2>3. alive # {} /\ alive' = {}
    BY <2>2 DEF IInv, OneChild
  <2>4. stables' \in {stables, stables + 1}
    BY <2>2, StableAssumption DEF IInv, TypeOK
  <2>5. Down' \in {Down, TRUE}
    BY <1>1
  <2> QED
    BY <2>2, <2>3, <2>4, <2>5 DEF Service!Next, Service!End
<1>4. CASE ~Spawn /\ ~ChildExits
  <2>1. UNCHANGED <<alive, child, stables>>
    BY <1>4, QuietStep DEF IInv
  <2>2. CASE Down' = Down
    BY <2>1, <2>2 DEF Service!vars
  <2>3. CASE ~Down /\ Down' = TRUE
    BY <2>1, <2>3 DEF Service!Next, Service!Retire
  <2> QED
    BY <1>1, <2>2, <2>3
<1> QED
  BY <1>2, <1>3, <1>4

(* start(), the 'exit' handler, scheduleRestart(), stop() and the health   *)
(* kill, in any order: the monitor is a supervisor as its owner may expect *)
(* one, with one child at a time, restarts within the allowance, and no    *)
(* child after a stop that raced with no restart.                          *)
THEOREM Refinement == Spec => IsSupervisor
<1>1. Init => Service!Init
  BY DEF Init, Down, Service!Init
<1> QED
  BY <1>1, Invariance, ServiceStep, PTL DEF Spec, IsSupervisor, Service!Spec

(* A stop() or cleanup() that returned, with no restart past its test of   *)
(* the state, is final, whenever the child it gave up on exits.            *)
THEOREM StoppedForGood == Spec => [][Down => Down']_vars
<1>1. IInv /\ [Next]_vars => [Down => Down']_vars
  BY DownStep DEF IInv
<1> QED
  BY <1>1, Invariance, PTL DEF Spec
=============================================================================
