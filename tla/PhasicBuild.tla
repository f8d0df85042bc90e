----------------------------- MODULE PhasicBuild ------------------------------
(***************************************************************************)
(* The phase machine of a session whose behavior is `phasic`: it plans a   *)
(* phase, implements it, plans the next, and ends with a final phase and a *)
(* review.  The user talks to a conversation model at the same time, whose *)
(* `queue_request` tool queues requests for the machine to plan with.      *)
(*                                                                         *)
(* An action is the code from one await on the outside world to the next.  *)
(* STOP_GENERATION aborts the inference that is awaited: here it is one of *)
(* the reasons an action ...Fails happens.  state.currentPhase is left     *)
(* out: it is read only when the machine implements no phase at all, which *)
(* a launch and a plan rule out.                                           *)
(*                                                                         *)
(* The row of the session in agent_state is written some time after the    *)
(* state was set (StateStore says how), so that a process that dies leaves *)
(* an earlier state to the next.                                           *)
(***************************************************************************)
EXTENDS Integers, Sequences

CONSTANTS
  Names,        \* names a model gives to phases, not always a new one
  Inputs,       \* requests, each queued at most once
  Turns,        \* conversation turns that are under way together
  MaxPhases,    \* MAX_PHASES, the counter of a new session
  RechargedTo   \* the counter that a request restores at least

ASSUME BudgetAssumption ==
  RechargedTo \in Nat /\ MaxPhases \in Nat /\ 2 <= RechargedTo /\ RechargedTo <= MaxPhases

VARIABLES
  \* state that is persisted
  mvpGenerated, reviewingInitiated, phasesCounter, pendingUserInputs,
  started,      \* generatedPhases is not empty
  unfinished,   \* the members of generatedPhases that are not completed, by
                \* their place among them
  \* state of the process
  templateLoaded, \* templateDetailsCache is set
  at,           \* the await at which buildWrapper() is, or "idle"
  final,        \* the machine is inside executeFinalizing()
  phase,        \* phaseConcept of launchStateMachine()
  talking,      \* conversation turns under way
  \* history that leads to the state
  delivered,    \* requests in the order the machine took them
  \* state of the database
  row           \* what is stored of this session, with the history it has

persisted == <<mvpGenerated, reviewingInitiated, phasesCounter,
               pendingUserInputs, started, unfinished>>
vars == <<persisted, templateLoaded, at, final, phase, talking, delivered, row>>

\* What an upsert of the state as it is now stores.
Stored ==
  [mvpGenerated |-> mvpGenerated, reviewingInitiated |-> reviewingInitiated,
   phasesCounter |-> phasesCounter, pendingUserInputs |-> pendingUserInputs,
   started |-> started, unfinished |-> unfinished, delivered |-> delivered]

Phases == [name : Names, lastPhase : BOOLEAN]

NoPhase == [name |-> "", lastPhase |-> FALSE]

(* "template", "inspecting" (the issues a plan starts from), "planning",   *)
(* "implementing", "reviewing" and "updating" the app are awaits; in       *)
(* "wedged" the build is over and generationPromise was left set.          *)
Awaits == {"template", "inspecting", "planning", "implementing", "reviewing",
           "updating"}

\* createInitialState(): a new session.
Init ==
  /\ mvpGenerated = FALSE /\ reviewingInitiated = FALSE
  /\ phasesCounter = MaxPhases
  /\ pendingUserInputs = <<>>
  /\ started = FALSE /\ unfinished = <<>>
  /\ templateLoaded = TRUE
  /\ at = "idle" /\ final = FALSE /\ phase = NoPhase
  /\ talking = {}
  /\ delivered = <<>> /\ row = Stored

-----------------------------------------------------------------------------
IsCodeGenerating == at # "idle"

\* generateAllFiles(), with its two guards.
GenerateAllFiles ==
  IF IsCodeGenerating \/ (mvpGenerated /\ pendingUserInputs = <<>>)
  THEN UNCHANGED at
  ELSE at' = "template"

\* The end of a fresh boot, GENERATE_ALL and RESUME_GENERATION.
Generate ==
  /\ ~IsCodeGenerating
  /\ GenerateAllFiles
  /\ UNCHANGED <<persisted, templateLoaded, final, phase, talking, delivered, row>>

-----------------------------------------------------------------------------
(* Conversation turns: base.ts handleUserInput() under that of the agent.  *)
quietInTurn == <<mvpGenerated, reviewingInitiated, started, unfinished, final,
                 phase, delivered, row>>

\* ensureTemplateDetails() comes first; a turn that fails there changes nothing.
BeginTurn(t) ==
  /\ t \notin talking
  /\ templateLoaded' = TRUE
  /\ talking' = talking \cup {t}
  /\ UNCHANGED <<quietInTurn, phasesCounter, pendingUserInputs, at>>

\* Mutant: only a counter that is spent is recharged.
RechargedWhenSpent ==
  IF phasesCounter <= 0 THEN RechargedTo ELSE phasesCounter

\* rechargePhasesCounter(3)
Recharged == IF phasesCounter <= RechargedTo THEN RechargedTo ELSE phasesCounter

\* The tool queue_request calls queueUserRequest().
QueueUserRequest(i) ==
  /\ talking # {}
  /\ \A n \in DOMAIN delivered : delivered[n] # i
  /\ \A n \in DOMAIN pendingUserInputs : pendingUserInputs[n] # i
  /\ phasesCounter' = Recharged
  /\ pendingUserInputs' = Append(pendingUserInputs, i)
  /\ UNCHANGED <<quietInTurn, templateLoaded, at, talking>>

\* The turn is over; the agent starts a build when none is running.
EndTurn(t) ==
  /\ t \in talking
  /\ talking' = talking \ {t}
  /\ GenerateAllFiles
  /\ UNCHANGED <<quietInTurn, templateLoaded, phasesCounter, pendingUserInputs>>

\* The turn throws; what its tools have queued stays queued.
TurnFails(t) ==
  /\ t \in talking
  /\ talking' = talking \ {t}
  /\ UNCHANGED <<quietInTurn, templateLoaded, phasesCounter, pendingUserInputs,
                 at>>

-----------------------------------------------------------------------------
AllCompleted == DOMAIN unfinished = {}

Latest == CHOOSE n \in DOMAIN unfinished : \A m \in DOMAIN unfinished : m <= n

\* createNewIncompletePhase(): it comes last.
CreateNewIncompletePhase(p) ==
  LET place == IF AllCompleted THEN 1 ELSE Latest + 1
  IN  unfinished' = [n \in DOMAIN unfinished \cup {place} |->
                       IF n = place THEN p ELSE unfinished[n]]

\* markPhaseComplete(): every phase of that name.
MarkPhaseComplete(name) ==
  LET others == {n \in DOMAIN unfinished : unfinished[n].name # name}
  IN  unfinished' = [n \in others |-> unfinished[n]]

-----------------------------------------------------------------------------
(* The machine.  Its states that do not await are operators: a step that   *)
(* ends in one of them runs it too.                                        *)
quietInMachine == <<templateLoaded, talking, row>>

\* launchStateMachine() returns, and buildWrapper() awaits updateApp().
Leave ==
  /\ at' = "updating"
  /\ final' = FALSE /\ phase' = NoPhase
  /\ UNCHANGED <<mvpGenerated, reviewingInitiated>>

\* executeReviewCycle() up to its await.
StartReview ==
  /\ at' = IF reviewingInitiated THEN "updating" ELSE "reviewing"
  /\ reviewingInitiated' = TRUE
  /\ final' = FALSE /\ phase' = NoPhase

Review == StartReview /\ UNCHANGED mvpGenerated

\* executeFinalizing(): setMVPGenerated() is true the first time, and the
\* final phase is for the other times.
Finalize ==
  \/ /\ ~mvpGenerated
     /\ mvpGenerated' = TRUE
     /\ StartReview
  \/ /\ mvpGenerated
     /\ at' = "inspecting"
     /\ final' = TRUE /\ phase' = NoPhase
     /\ UNCHANGED <<mvpGenerated, reviewingInitiated>>

\* Mutant: that there are phases decides, not whether one is unfinished.
EnterMachinePlanning ==
  /\ at = "template"
  /\ templateLoaded' = TRUE
  /\ \/ started /\ at' = "inspecting"
        /\ UNCHANGED <<phase, started, unfinished>>
     \/ ~started
        /\ started' = TRUE
        /\ phase' \in Phases
        /\ CreateNewIncompletePhase(phase')
        /\ at' = "implementing"
  /\ UNCHANGED <<mvpGenerated, reviewingInitiated, phasesCounter,
                 pendingUserInputs, final, talking, delivered, row>>

\* launchStateMachine() up to its first await.
EnterMachine ==
  /\ at = "template"
  /\ templateLoaded' = TRUE
  /\ \/ ~AllCompleted
        /\ phase' = unfinished[Latest]
        /\ at' = "implementing"
        /\ UNCHANGED <<started, unfinished>>
     \/ AllCompleted /\ started
        /\ at' = "inspecting"
        /\ UNCHANGED <<phase, started, unfinished>>
     \/ ~started
        /\ started' = TRUE
        /\ phase' \in Phases                \* blueprint.initialPhase
        /\ CreateNewIncompletePhase(phase')
        /\ at' = "implementing"
  /\ UNCHANGED <<mvpGenerated, reviewingInitiated, phasesCounter,
                 pendingUserInputs, final, talking, delivered, row>>

\* ensureTemplateDetails() rejects outside buildWrapper()'s try.
TemplateFails ==
  /\ at = "template" /\ ~templateLoaded
  /\ at' = "wedged"
  /\ UNCHANGED <<persisted, templateLoaded, final, phase, talking, delivered, row>>

\* Mutant: the queue is read and not emptied.
StartPlanKeepingQueue ==
  /\ at = "inspecting"
  /\ at' = "planning"
  /\ delivered' = delivered \o pendingUserInputs
  /\ Len(delivered') <= 4     \* bound of the mutant's state space
  /\ UNCHANGED <<mvpGenerated, reviewingInitiated, phasesCounter, started,
                 unfinished, pendingUserInputs, final, phase, quietInMachine>>

\* executePhaseGeneration() has the issues, and takes what is queued now.
StartPlan ==
  /\ at = "inspecting"
  /\ at' = "planning"
  /\ delivered' = delivered \o pendingUserInputs
  /\ pendingUserInputs' = <<>>
  /\ UNCHANGED <<mvpGenerated, reviewingInitiated, phasesCounter, started,
                 unfinished, final, phase, quietInMachine>>

\* The plan has files: createNewIncompletePhase(), and on to implement it.
Planned ==
  /\ at = "planning"
  /\ phase' \in Phases
  /\ CreateNewIncompletePhase(phase')
  /\ started' = TRUE
  /\ at' = "implementing"
  /\ UNCHANGED <<mvpGenerated, reviewingInitiated, phasesCounter,
                 pendingUserInputs, final, quietInMachine, delivered>>

\* The plan has no files, which is also what a plan is after all retries
\* failed: there is nothing left to do.
NothingPlanned ==
  /\ at = "planning"
  /\ IF final THEN Review ELSE Finalize
  /\ UNCHANGED <<phasesCounter, pendingUserInputs, started, unfinished,
                 quietInMachine, delivered>>

\* The issues or the plan throw: the machine stops, unless this was the
\* final phase, which is then given up.
PlanFails ==
  /\ at \in {"inspecting", "planning"}
  /\ \/ Leave
     \/ final /\ Review
  /\ UNCHANGED <<phasesCounter, pendingUserInputs, started, unfinished,
                 quietInMachine, delivered>>

\* Mutant: the counter is not decremented.
PhaseImplementedForFree ==
  /\ at = "implementing"
  /\ MarkPhaseComplete(phase.name)
  /\ UNCHANGED phasesCounter
  /\ \/ final /\ Review
     \/ /\ ~final /\ pendingUserInputs = <<>>
        /\ phase.lastPhase \/ phasesCounter <= 0
        /\ Finalize
     \/ /\ ~final
        /\ pendingUserInputs # <<>> \/ (~phase.lastPhase /\ phasesCounter > 0)
        /\ at' = "inspecting"
        /\ UNCHANGED <<mvpGenerated, reviewingInitiated, final, phase>>
  /\ UNCHANGED <<pendingUserInputs, started, quietInMachine, delivered>>

\* Mutant: only the planner's `lastPhase` ends the loop.
PhaseImplementedUncounted ==
  /\ at = "implementing"
  /\ MarkPhaseComplete(phase.name)
  /\ phasesCounter' = phasesCounter - 1
  /\ \/ final /\ Review
     \/ ~final /\ phase.lastPhase /\ pendingUserInputs = <<>> /\ Finalize
     \/ /\ ~final /\ (~phase.lastPhase \/ pendingUserInputs # <<>>)
        /\ at' = "inspecting"
        /\ UNCHANGED <<mvpGenerated, reviewingInitiated, final, phase>>
  /\ UNCHANGED <<pendingUserInputs, started, quietInMachine, delivered>>

\* executePhaseImplementation() after implementPhase(); executeFinalizing()
\* does not look at what it returns.
PhaseImplemented ==
  /\ at = "implementing"
  /\ MarkPhaseComplete(phase.name)
  /\ phasesCounter' = phasesCounter - 1
  /\ \/ final /\ Review
     \/ /\ ~final /\ pendingUserInputs = <<>>
        /\ phase.lastPhase \/ phasesCounter' <= 0
        /\ Finalize
     \/ /\ ~final
        /\ pendingUserInputs # <<>> \/ (~phase.lastPhase /\ phasesCounter' > 0)
        /\ at' = "inspecting"
        /\ UNCHANGED <<mvpGenerated, reviewingInitiated, final, phase>>
  /\ UNCHANGED <<pendingUserInputs, started, quietInMachine, delivered>>

\* Mutant: an error of the phase ends the loop as its success does.
ImplementFailsFinalizing ==
  /\ at = "implementing"
  /\ IF final THEN Review ELSE Finalize
  /\ UNCHANGED <<phasesCounter, pendingUserInputs, started, unfinished,
                 quietInMachine, delivered>>

\* Anything of the phase throws: it stays unfinished.
ImplementFails ==
  /\ at = "implementing"
  /\ \/ Leave
     \/ final /\ Review
  /\ UNCHANGED <<phasesCounter, pendingUserInputs, started, unfinished,
                 quietInMachine, delivered>>

\* The issues are there, or fetching them threw: the machine is idle, and
\* nobody looks at the queue again.
Reviewed ==
  /\ at = "reviewing"
  /\ Leave
  /\ UNCHANGED <<phasesCounter, pendingUserInputs, started, unfinished,
                 quietInMachine, delivered>>

AppUpdated ==
  /\ at = "updating"
  /\ at' = "idle"
  /\ UNCHANGED <<persisted, final, phase, quietInMachine, delivered>>

-----------------------------------------------------------------------------
(* The row. One upsert waits for the one before, so what the row holds is  *)
(* a state that was set as a whole, and a later one is never overwritten   *)
(* by an earlier one. (An upsert of a process that died lands before the   *)
(* next one reads the row, or not at all.)                                 *)
RowWritten ==
  /\ row' = Stored
  /\ UNCHANGED <<persisted, templateLoaded, at, final, phase, talking, delivered>>

(* The process ends and another boots from the row: what was set since is  *)
(* forgotten. A shutdown, which flushes, is a RowWritten before it.        *)
Restart ==
  /\ mvpGenerated' = row.mvpGenerated
  /\ reviewingInitiated' = row.reviewingInitiated
  /\ phasesCounter' = row.phasesCounter
  /\ pendingUserInputs' = row.pendingUserInputs
  /\ started' = row.started /\ unfinished' = row.unfinished
  /\ delivered' = row.delivered
  /\ templateLoaded' = FALSE
  /\ at' = "idle" /\ final' = FALSE /\ phase' = NoPhase
  /\ talking' = {}
  /\ UNCHANGED row

MachineProgress ==
  \/ EnterMachine \/ TemplateFails
  \/ StartPlan \/ Planned \/ NothingPlanned \/ PlanFails
  \/ PhaseImplemented \/ ImplementFails
  \/ Reviewed \/ AppUpdated

Next ==
  \/ Generate
  \/ \E t \in Turns : BeginTurn(t) \/ EndTurn(t) \/ TurnFails(t)
  \/ \E i \in Inputs : QueueUserRequest(i)
  \/ MachineProgress
  \/ RowWritten \/ Restart

\* Every await of the machine settles in the end; nobody owes it a request.
Spec == Init /\ [][Next]_vars /\ WF_vars(MachineProgress)

-----------------------------------------------------------------------------
(* The types.  The counter goes below zero at most once: a final phase     *)
(* spends from it too, and no final phase follows without a request.       *)
TypeOK ==
  /\ mvpGenerated \in BOOLEAN /\ reviewingInitiated \in BOOLEAN
  /\ phasesCounter \in -1..MaxPhases
  /\ pendingUserInputs \in Seq(Inputs)
  /\ started \in BOOLEAN
  /\ DOMAIN unfinished \subseteq Nat /\ unfinished \in [DOMAIN unfinished -> Phases]
  /\ templateLoaded \in BOOLEAN
  /\ at \in Awaits \cup {"idle", "wedged"}
  /\ final \in BOOLEAN /\ phase \in Phases \cup {NoPhase}
  /\ talking \subseteq Turns
  /\ delivered \in Seq(Inputs)
  /\ row.phasesCounter \in -1..MaxPhases /\ row.pendingUserInputs \in Seq(Inputs)

Queue == INSTANCE SavedQueue
  WITH Requests <- Inputs, waiting <- pendingUserInputs, served <- delivered,
       saved <- [waiting |-> row.pendingUserInputs, served |-> row.delivered]

(* Through failed plans and the recharging of the budget the machine takes *)
(* every request once and in order, as the other behavior does; and a      *)
(* process that dies takes the queue back to one moment, the queue and     *)
(* what was planned from it alike.                                         *)
IsSavedQueue == Queue!SavedSpec

(* Through errors, restarts and phases of the same name there is never     *)
(* more than one phase to resume, and none while another is planned.       *)
OneUnfinishedPhase ==
  /\ \A m, n \in DOMAIN unfinished : m = n
  /\ at \in {"inspecting", "planning"} => AllCompleted

(* A request waits with budget left for it: when it is planned, the phase  *)
(* that implements it is not the one that exhausts the counter.            *)
PendingHasBudget == pendingUserInputs # <<>> => phasesCounter >= RechargedTo - 1

(* The project is declared generated only with no phase left unfinished,   *)
(* and by a build: no restart finds it declared, as the row is never ahead. *)
MVPMeansPhasesDone ==
  [][~mvpGenerated /\ mvpGenerated' => AllCompleted' /\ IsCodeGenerating']_vars

(* Whatever the planner answers, a build comes to its end: the counter     *)
(* stops a planner that never marks a phase as the last.                   *)
BuildEnds == at \in Awaits ~> at \notin Awaits
=============================================================================
