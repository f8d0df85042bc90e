---------------------------- MODULE ProcessMonitor ----------------------------
(***************************************************************************)
(* One ProcessMonitor of container/process-monitor.ts and the process that *)
(* owns it (ProcessRunner of container/cli-tools.ts, or the standalone     *)
(* runtime's LocalSandboxService): start, stop, cleanup, restarts after a  *)
(* crash, and health checks that probe a port and kill.                    *)
(*                                                                         *)
(* The monitor runs on one event loop; an action is what it does between   *)
(* two awaits that leave the loop (log appends, the port probe, the wait   *)
(* for an exit).  The n-th child process spawned is the number n; the      *)
(* 'exit' event and the death it reports are one step, since a child that  *)
(* is dead and unreported still takes a signal.                            *)
(***************************************************************************)
EXTENDS Integers

CONSTANTS
  MaxRestarts,   \* options.maxRestarts
  Threshold,     \* PORT_FAILURE_THRESHOLD
  MaxFailures,   \* bound on portFailureCount
  MaxStable      \* bound on the number of runs that last beyond STABILITY_THRESHOLD_MS

ASSUME RestartsAssumption == MaxRestarts \in Nat
ASSUME ThresholdAssumption == Threshold \in Nat \ {0} /\ MaxFailures \in Nat
ASSUME StableAssumption == MaxStable \in Nat

VARIABLES
  state,          \* this.state
  child,          \* this.childProcess: the number of the last child, 0 for none
  alive,          \* the children that live
  signal,         \* the strongest signal the last child was sent
  timer,          \* restartTimer: 1 when it is armed, else 0
  health,         \* healthCheckTimer is armed
  restartCount,
  stableRun,      \* 1 when the last run, as processInfo tells it, was stable
  resumes,        \* restart callbacks that await their first log append
  starts,         \* start() calls that await theirs
  probe,          \* the port probe in flight, with the age it found
  portBindConfirmed,
  portFailureCount,
  healthRestartInProgress,
  healthKill,     \* the awaits at which health-triggered kills are
  owner,          \* the await at which the owner's call is
  cleaning,       \* that call, or the last one, is cleanup()
  stables         \* history: stable runs so far

ports == <<probe, portBindConfirmed, portFailureCount,
           healthRestartInProgress>>
restarts == <<timer, restartCount, stableRun, resumes, starts, stables>>
vars == <<state, child, alive, signal, health, restarts, ports, healthKill,
          owner, cleaning>>

States == {"stopped", "starting", "running", "stopping", "crashed"}
Exits == {"clean", "code", "signal"}

\* getState() of a monitor that nobody has started.
Init ==
  /\ state = "stopped" /\ child = 0 /\ alive = {} /\ signal = "none"
  /\ timer = 0 /\ health = FALSE
  /\ restartCount = 0 /\ stableRun = 0
  /\ resumes = 0 /\ starts = 0
  /\ probe = "none" /\ portBindConfirmed = FALSE
  /\ portFailureCount = 0 /\ healthRestartInProgress = FALSE
  /\ healthKill = {}
  /\ owner = "new" /\ cleaning = FALSE /\ stables = 0

-----------------------------------------------------------------------------
\* start() up to its first await.  While the process starts, runs or stops
\* it answers with an error and does nothing.
EnterStart ==
  IF state \in {"stopped", "crashed"}
  THEN state' = "starting" /\ starts' = starts + 1
  ELSE UNCHANGED <<state, starts>>

\* The owner starts its new monitor.
Start ==
  /\ owner = "new"
  /\ owner' = "using"
  /\ EnterStart
  /\ UNCHANGED <<child, alive, signal, health, timer, restartCount, stableRun,
                 resumes, stables, ports, healthKill, cleaning>>

\* start() forgets the last run: its port, and, if the run was stable, the
\* restarts before it.
ForgetLastRun ==
  /\ starts > 0 /\ starts' = starts - 1
  /\ portBindConfirmed' = FALSE /\ portFailureCount' = 0
  /\ healthRestartInProgress' = FALSE
  /\ restartCount' = IF stableRun = 1 THEN 0 ELSE restartCount

Spawn ==
  /\ ForgetLastRun
  /\ child' = child + 1 /\ alive' = alive \cup {child + 1}
  /\ signal' = "none" /\ stableRun' = 0
  /\ state' = "running" /\ health' = TRUE
  /\ UNCHANGED <<timer, resumes, stables, probe, healthKill, owner, cleaning>>

SpawnFails ==
  /\ ForgetLastRun
  /\ state' = "stopped"
  /\ UNCHANGED <<child, alive, signal, health, stableRun, timer, resumes,
                 stables, probe, healthKill, owner, cleaning>>

-----------------------------------------------------------------------------
\* Mutant: the last restart is not counted.
ShouldRestartOnceMore(how, quiet) ==
  /\ state # "stopping"
  /\ restartCount <= MaxRestarts
  /\ how = "clean" => quiet

\* shouldRestartAfterExit(), autoRestart being on: a clean exit counts as a
\* crash if the child had been quiet for INACTIVITY_THRESHOLD_MS.
ShouldRestart(how, quiet) ==
  /\ state # "stopping"
  /\ restartCount < MaxRestarts
  /\ how = "clean" => quiet

ScheduleRestart ==
  /\ restartCount' = restartCount + 1
  /\ timer' = 1

\* killProcess() resolves when the child it waits for exits, and stop() then
\* returns.
KillersReturn ==
  /\ healthKill' = healthKill \ {"killing"}
  /\ owner' = IF owner = "killing" THEN "returned" ELSE owner

\* Mutant: every exit that no stop() waits for counts as a crash.
NotStopping == state # "stopping"

\* The 'exit' handler tells a crash from the end that a stop() has asked for.
WasRunning == state = "running"

\* The child exits, by itself or after a signal, and the 'exit' handler runs.
Exit(how, quiet, stable) ==
  /\ child \in alive /\ alive' = alive \ {child}
  /\ stables + stable <= MaxStable
  /\ stableRun' = stable /\ stables' = stables + stable
  /\ LET shouldRestart == WasRunning /\ ShouldRestart(how, quiet)
         crashed == WasRunning /\ (how # "clean" \/ shouldRestart)
     IN /\ state' = IF crashed THEN "crashed" ELSE "stopped"
        /\ \/ shouldRestart /\ ScheduleRestart
           \/ ~shouldRestart /\ UNCHANGED <<timer, restartCount>>
  /\ KillersReturn
  /\ UNCHANGED <<child, signal, health, resumes, starts, ports, cleaning>>

ChildExits ==
  \E how \in Exits, quiet \in BOOLEAN, stable \in {0, 1} :
    Exit(how, quiet, stable)

\* The restart callback up to its first await.
TimerFires ==
  /\ timer = 1 /\ timer' = 0
  /\ resumes' = IF state \in {"stopped", "stopping"} THEN resumes
                ELSE resumes + 1
  /\ UNCHANGED <<state, child, alive, signal, health, restartCount, stableRun,
                 starts, stables, ports, healthKill, owner, cleaning>>

\* The rest of it: start().
Restart ==
  /\ resumes > 0 /\ resumes' = resumes - 1
  /\ EnterStart
  /\ UNCHANGED <<child, alive, signal, health, timer, restartCount, stableRun,
                 stables, ports, healthKill, owner, cleaning>>

-----------------------------------------------------------------------------
\* cleanup() clears both timers and then calls stop().
ClearTimers(cleanup) ==
  IF cleanup THEN timer' = 0 /\ health' = FALSE
  ELSE UNCHANGED <<timer, health>>

\* stop() up to its first await, called by the owner or by cleanup(): it has
\* nothing to do for a stopped process and refuses a starting one.
EnterStop(cleanup) ==
  /\ owner = "using" \/ (owner = "returned" /\ cleanup /\ ~cleaning)
  /\ cleaning' = cleanup
  /\ ClearTimers(cleanup)
  /\ owner' = IF state \in {"stopped", "starting"} THEN "returned"
              ELSE "stopping"
  /\ UNCHANGED <<state, child, alive, signal, restartCount, stableRun, resumes,
                 starts, stables, ports, healthKill>>

Stop == EnterStop(FALSE)
Cleanup == EnterStop(TRUE)

\* SIGTERM to the child's process group.
Terminate == signal' = IF signal = "kill" THEN "kill" ELSE "term"

\* stop() after its first await.  A child that has exited needs no kill.
StopProceeds ==
  /\ owner = "stopping"
  /\ timer' = 0 /\ health' = FALSE
  /\ \/ /\ alive = {}
        /\ state' = "stopped" /\ owner' = "returned"
        /\ UNCHANGED signal
     \/ /\ alive # {}
        /\ state' = "stopping" /\ owner' = "killing"
        /\ Terminate
  /\ UNCHANGED <<child, alive, restartCount, stableRun, resumes, starts,
                 stables, ports, healthKill, cleaning>>

\* Mutant: after killTimeout the child is given up, not killed.
GiveUp == UNCHANGED signal

\* killProcess() after killTimeout.
ForceKill == signal' = "kill"

\* Mutant: no timeout without `force`.
StopTimesOutIfForced ==
  /\ owner = "killing" /\ signal = "kill"
  /\ state' = "stopped" /\ owner' = "returned"
  /\ UNCHANGED <<child, alive, signal, health, restarts, ports, healthKill,
                 cleaning>>

\* The child outlives killTimeout, and stop() does not wait for its exit.
StopTimesOut ==
  /\ owner = "killing"
  /\ ForceKill
  /\ state' = IF state = "stopping" THEN "stopped" ELSE state
  /\ owner' = "returned"
  /\ UNCHANGED <<child, alive, health, restarts, ports, healthKill, cleaning>>

\* handleFatalError(): SIGTERM, once, and nobody waits for the exit.
FatalOutput ==
  /\ state = "running" /\ alive # {} /\ signal = "none"
  /\ Terminate
  /\ UNCHANGED <<state, child, alive, health, restarts, ports, healthKill,
                 owner, cleaning>>

-----------------------------------------------------------------------------
\* performHealthCheck() up to the answer of the port; "old" means that the
\* child is older than PORT_STARTUP_GRACE_MS.
StartProbe ==
  /\ health /\ state = "running" /\ probe = "none"
  /\ probe' \in {"young", "old"}
  /\ UNCHANGED <<state, child, alive, signal, health, restarts,
                 portBindConfirmed, portFailureCount, healthRestartInProgress,
                 healthKill, owner, cleaning>>

ProbeAnswered ==
  /\ probe # "none" /\ probe' = "none"
  /\ portBindConfirmed' = TRUE /\ portFailureCount' = 0
  /\ healthRestartInProgress' = FALSE
  /\ UNCHANGED <<state, child, alive, signal, health, restarts, healthKill,
                 owner, cleaning>>

\* Failures count once the port has answered or the grace period is over.
\* MaxFailures stands for every larger count.
ProbeFails ==
  /\ probe # "none" /\ probe' = "none"
  /\ LET counted == portBindConfirmed \/ probe = "old"
         failures == IF counted /\ portFailureCount < MaxFailures
                     THEN portFailureCount + 1 ELSE portFailureCount
         decides == /\ counted /\ failures >= Threshold
                    /\ ~healthRestartInProgress
                    /\ state = "running"
     IN /\ portFailureCount' = failures
        /\ healthKill' = IF decides THEN healthKill \cup {"logging"}
                          ELSE healthKill
  /\ UNCHANGED <<state, child, alive, signal, health, restarts,
                 portBindConfirmed, healthRestartInProgress, owner, cleaning>>

\* The health-triggered killProcess(): whatever child there is by now.
HealthKills ==
  /\ "logging" \in healthKill
  /\ healthRestartInProgress' = TRUE
  /\ \/ /\ alive = {}
        /\ healthKill' = healthKill \ {"logging"}
        /\ UNCHANGED signal
     \/ /\ alive # {}
        /\ healthKill' = (healthKill \ {"logging"}) \cup {"killing"}
        /\ Terminate
  /\ UNCHANGED <<state, child, alive, health, restarts, probe,
                 portBindConfirmed, portFailureCount, owner, cleaning>>

HealthKillTimesOut ==
  /\ "killing" \in healthKill /\ healthKill' = healthKill \ {"killing"}
  /\ ForceKill
  /\ UNCHANGED <<state, child, alive, health, restarts, ports, owner, cleaning>>

-----------------------------------------------------------------------------
Next ==
  \/ Start \/ Spawn \/ SpawnFails
  \/ ChildExits \/ TimerFires \/ Restart
  \/ Stop \/ Cleanup \/ StopProceeds \/ StopTimesOut \/ FatalOutput
  \/ StartProbe \/ ProbeAnswered \/ ProbeFails
  \/ HealthKills \/ HealthKillTimesOut

\* Timers fire, log appends and probes end, and SIGKILL kills.  Nothing makes
\* a child exit on SIGTERM, or the owner call anything.
Fairness ==
  /\ WF_vars(TimerFires) /\ WF_vars(Restart)
  /\ WF_vars(Spawn \/ SpawnFails)
  /\ WF_vars(StopProceeds) /\ WF_vars(StopTimesOut)
  /\ WF_vars(ProbeAnswered \/ ProbeFails)
  /\ WF_vars(HealthKills) /\ WF_vars(HealthKillTimesOut)
  /\ WF_vars(signal = "kill" /\ ChildExits)

Spec == Init /\ [][Next]_vars
FairSpec == Spec /\ Fairness

-----------------------------------------------------------------------------
FlagsOK ==
  /\ health \in BOOLEAN /\ cleaning \in BOOLEAN
  /\ portBindConfirmed \in BOOLEAN /\ healthRestartInProgress \in BOOLEAN

TypeOK ==
  /\ state \in States /\ child \in Nat /\ alive \subseteq 1..child
  /\ signal \in {"none", "term", "kill"}
  /\ timer \in {0, 1} /\ resumes \in Nat /\ starts \in Nat
  /\ restartCount \in 0..MaxRestarts
  /\ stableRun \in {0, 1} /\ stables \in 0..MaxStable
  /\ probe \in {"none", "young", "old"}
  /\ portFailureCount \in 0..MaxFailures
  /\ healthKill \subseteq {"logging", "killing"}
  /\ owner \in {"new", "using", "stopping", "killing", "returned"}
  /\ FlagsOK

(* Restarts, stops and kills never leave two children on the one port: a   *)
(* child that lives is the one the monitor holds.                          *)
OneChild == alive \subseteq {child}

(* No child is left behind: when no stop() is under way, a child that      *)
(* lives and has not been sent SIGKILL is one the monitor knows to run and *)
(* whose health it checks.                                                 *)
LiveIsSupervised ==
  alive # {} /\ signal # "kill" /\ owner \notin {"stopping", "killing"} =>
    state = "running" /\ health

(* However crashes, kills and stops fall, the children of a monitor are    *)
(* one, and at most maxRestarts more at the start and after every stable   *)
(* run.                                                                    *)
RestartBudget == child <= MaxRestarts * (stables + 1) + 1

\* stop() or cleanup() has returned, and found no restart already past its
\* test of the state: the child may still live if it outlived killTimeout.
Down == owner = "returned" /\ state = "stopped" /\ resumes = 0 /\ starts = 0

(* The monitor implements the abstract supervisor: children come one at a  *)
(* time, within the allowance of restarts, and after a stop that no        *)
(* restart was racing with none comes at all, however late the exit of the *)
(* last child, its health checks and its timer fall.                       *)
Service == INSTANCE Supervisor WITH
  Allowance <- MaxRestarts, live <- alive, launched <- child,
  earned <- stables, retired <- Down
IsSupervisor == Service!Spec

(* stop() and cleanup() return, also when the child exits while they are   *)
(* about to kill it or ignores SIGTERM ("Prevent deadlock when process     *)
(* already exited").                                                       *)
StopReturns == owner \in {"stopping", "killing"} ~> owner = "returned"
=============================================================================
