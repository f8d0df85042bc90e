-------------------------- MODULE PhasicBuild_proofs ---------------------------
(***************************************************************************)
(* What PhasicBuild guarantees for every counter budget, any phases, any   *)
(* requests and any number of conversation turns, proved with TLAPS.       *)
(***************************************************************************)
EXTENDS PhasicBuild, SequenceTheorems, TLAPS

InLoop == {"inspecting", "planning", "implementing"}

(***************************************************************************)
(* The inductive invariant.  The counter is what needs it: a request that  *)
(* waits has recharged it, at most one phase is implemented before the     *)
(* request is taken, and a launch that finds the project generated finds a *)
(* request too, so a build never starts without budget; only the final     *)
(* phase may spend below zero, and it is the last thing a build does.  A   *)
(* restart goes on from the row, which holds of an earlier state what      *)
(* these parts say of any state between builds.                            *)
(***************************************************************************)
Machine ==
  /\ DOMAIN unfinished \subseteq {1}
  /\ at \in {"inspecting", "planning"} => AllCompleted
  /\ at = "implementing" => 1 \in DOMAIN unfinished /\ unfinished[1] = phase
  /\ final => mvpGenerated /\ at \in InLoop
  /\ ~started => AllCompleted /\ ~mvpGenerated /\ at \notin InLoop

Budget ==
  /\ phasesCounter \in Int /\ -1 <= phasesCounter /\ phasesCounter <= MaxPhases
  /\ ~started => phasesCounter >= RechargedTo
  /\ ~mvpGenerated => phasesCounter >= 1
  /\ at = "template" => ~mvpGenerated \/ pendingUserInputs # <<>>
  /\ at \in InLoop => phasesCounter >= 0
  /\ at \in InLoop /\ ~final => phasesCounter >= 1
  /\ pendingUserInputs # <<>> => phasesCounter >= RechargedTo - 1
  /\ pendingUserInputs # <<>> /\ (~AllCompleted \/ at = "planning")
       => phasesCounter >= RechargedTo

Row ==
  /\ row.mvpGenerated \in BOOLEAN /\ row.reviewingInitiated \in BOOLEAN
  /\ row.started \in BOOLEAN
  /\ row.pendingUserInputs \in Seq(Inputs) /\ row.delivered \in Seq(Inputs)
  /\ DOMAIN row.unfinished \subseteq {1}
  /\ row.unfinished \in [DOMAIN row.unfinished -> Phases]
  /\ row.mvpGenerated => mvpGenerated
  /\ ~row.started => DOMAIN row.unfinished = {} /\ ~row.mvpGenerated

RowBudget ==
  /\ row.phasesCounter \in Int
  /\ -1 <= row.phasesCounter /\ row.phasesCounter <= MaxPhases
  /\ ~row.started => row.phasesCounter >= RechargedTo
  /\ ~row.mvpGenerated => row.phasesCounter >= 1
  /\ row.pendingUserInputs # <<>> => row.phasesCounter >= RechargedTo - 1
  /\ row.pendingUserInputs # <<>> /\ DOMAIN row.unfinished # {}
       => row.phasesCounter >= RechargedTo

-----------------------------------------------------------------------------
\* Types without the counter, whose range is part of Budget.
Types ==
  /\ mvpGenerated \in BOOLEAN /\ reviewingInitiated \in BOOLEAN
  /\ pendingUserInputs \in Seq(Inputs)
  /\ started \in BOOLEAN
  /\ DOMAIN unfinished \subseteq Nat /\ unfinished \in [DOMAIN unfinished -> Phases]
  /\ templateLoaded \in BOOLEAN
  /\ at \in Awaits \cup {"idle", "wedged"}
  /\ final \in BOOLEAN /\ phase \in Phases \cup {NoPhase}
  /\ talking \subseteq Turns
  /\ delivered \in Seq(Inputs)

\* The phase that a launch resumes is the only one there is.
LEMMA LatestFacts == Machine /\ ~AllCompleted => Latest = 1 /\ DOMAIN unfinished = {1}
<1> SUFFICES ASSUME Machine, ~AllCompleted PROVE Latest = 1 /\ DOMAIN unfinished = {1}
  OBVIOUS
<1>1. DOMAIN unfinished = {1}
  BY DEF Machine, AllCompleted
<1> QED
  BY <1>1 DEF Latest

\* Where none is unfinished, the new phase is the only one.
LEMMA CreateFacts ==
  ASSUME AllCompleted, NEW p \in Phases, CreateNewIncompletePhase(p)
  PROVE  /\ DOMAIN unfinished' = {1} /\ unfinished'[1] = p
         /\ unfinished' \in [DOMAIN unfinished' -> Phases]
<1>1. unfinished' = [n \in {1} |-> p]
  BY DEF AllCompleted, CreateNewIncompletePhase
<1> QED
  BY <1>1

\* Completing by name leaves the phases of other names.
LEMMA MarkFacts ==
  ASSUME Types, NEW name, MarkPhaseComplete(name)
  PROVE  /\ DOMAIN unfinished' \subseteq DOMAIN unfinished
         /\ unfinished' \in [DOMAIN unfinished' -> Phases]
         /\ \A n \in DOMAIN unfinished' : unfinished[n].name # name
  BY DEF Types, MarkPhaseComplete

\* Every step keeps the types.
LEMMA TypesStep == Types /\ Machine /\ Row /\ [Next]_vars => Types'
<1> SUFFICES ASSUME Types, Machine, Row, [Next]_vars PROVE Types'
  OBVIOUS
<1> USE DEF Types, Awaits
<1>1. CASE Generate
  BY <1>1 DEF Generate, GenerateAllFiles, persisted
<1>2. ASSUME NEW t \in Turns, BeginTurn(t) PROVE Types'
  BY <1>2 DEF BeginTurn, quietInTurn
<1>3. ASSUME NEW t \in Turns, EndTurn(t) PROVE Types'
  BY <1>3 DEF EndTurn, GenerateAllFiles, quietInTurn
<1>4. ASSUME NEW t \in Turns, TurnFails(t) PROVE Types'
  BY <1>4 DEF TurnFails, quietInTurn
<1>5. ASSUME NEW i \in Inputs, QueueUserRequest(i) PROVE Types'
  BY <1>5 DEF QueueUserRequest, quietInTurn
<1>6. CASE EnterMachine
  <2>1. CASE UNCHANGED <<started, unfinished>>
    <3>1. phase' \in Phases \cup {NoPhase}
      BY <1>6, <2>1, LatestFacts DEF EnterMachine
    <3> QED
      BY <1>6, <2>1, <3>1 DEF EnterMachine
  <2>2. CASE /\ ~started /\ started' = TRUE /\ phase' \in Phases
             /\ CreateNewIncompletePhase(phase') /\ at' = "implementing"
    <3>1. AllCompleted
      BY <2>2 DEF Machine
    <3> QED
      BY <1>6, <2>2, <3>1, CreateFacts DEF EnterMachine
  <2> QED
    BY <1>6, <2>1, <2>2 DEF EnterMachine
<1>7. CASE TemplateFails
  BY <1>7 DEF TemplateFails, persisted
<1>8. CASE StartPlan
  BY <1>8, ConcatProperties, EmptySeq DEF StartPlan, quietInMachine
<1>9. CASE Planned
  <2>1. AllCompleted
    BY <1>9 DEF Planned, Machine
  <2> QED
    BY <1>9, <2>1, CreateFacts DEF Planned, quietInMachine
<1>10. CASE NothingPlanned
  BY <1>10 DEF NothingPlanned, Review, Finalize, StartReview, quietInMachine
<1>11. CASE PlanFails
  BY <1>11 DEF PlanFails, Leave, Review, StartReview, quietInMachine
<1>12. CASE PhaseImplemented
  <2>1. /\ DOMAIN unfinished' \subseteq Nat
        /\ unfinished' \in [DOMAIN unfinished' -> Phases]
    BY <1>12, MarkFacts DEF PhaseImplemented
  <2> QED
    BY <1>12, <2>1
    DEF PhaseImplemented, Review, Finalize, StartReview, quietInMachine
<1>13. CASE ImplementFails
  BY <1>13 DEF ImplementFails, Leave, Review, StartReview, quietInMachine
<1>14. CASE Reviewed
  BY <1>14 DEF Reviewed, Leave, quietInMachine
<1>15. CASE AppUpdated
  BY <1>15 DEF AppUpdated, quietInMachine, persisted
<1>16. CASE Restart
  <2>1. /\ mvpGenerated' \in BOOLEAN /\ reviewingInitiated' \in BOOLEAN
        /\ started' \in BOOLEAN /\ templateLoaded' \in BOOLEAN
        /\ final' \in BOOLEAN
    BY <1>16, Zenon DEF Restart, Row
  <2>2. /\ DOMAIN unfinished' \subseteq Nat
        /\ unfinished' \in [DOMAIN unfinished' -> Phases]
    BY <1>16 DEF Restart, Row
  <2>3. /\ pendingUserInputs' \in Seq(Inputs) /\ delivered' \in Seq(Inputs)
        /\ at' = "idle" /\ phase' = NoPhase /\ talking' = {}
    BY <1>16 DEF Restart, Row
  <2> QED
    BY <2>1, <2>2, <2>3
<1>17. CASE RowWritten
  BY <1>17 DEF RowWritten, persisted
<1>18. CASE UNCHANGED vars
  BY <1>18 DEF vars, persisted
<1> QED
  BY <1>1, <1>2, <1>3, <1>4, <1>5, <1>6, <1>7, <1>8, <1>9, <1>10, <1>11, <1>12,
     <1>13, <1>14, <1>15, <1>16, <1>17, <1>18
  DEF Next, MachineProgress

\* Every step keeps one phase to resume at most.
LEMMA MachineStep == Types /\ Machine /\ Row /\ [Next]_vars => Machine'
<1> SUFFICES ASSUME Types, Machine, Row, [Next]_vars PROVE Machine'
  OBVIOUS
<1> USE DEF Machine, InLoop, AllCompleted
<1>1. CASE Generate
  BY <1>1 DEF Generate, GenerateAllFiles, IsCodeGenerating, persisted
<1>2. ASSUME NEW t \in Turns, BeginTurn(t) PROVE Machine'
  BY <1>2 DEF BeginTurn, quietInTurn
<1>3. ASSUME NEW t \in Turns, EndTurn(t) PROVE Machine'
  BY <1>3 DEF EndTurn, GenerateAllFiles, IsCodeGenerating, quietInTurn
<1>4. ASSUME NEW t \in Turns, TurnFails(t) PROVE Machine'
  BY <1>4 DEF TurnFails, quietInTurn
<1>5. ASSUME NEW i \in Inputs, QueueUserRequest(i) PROVE Machine'
  BY <1>5 DEF QueueUserRequest, quietInTurn
<1>6. CASE EnterMachine
  <2>1. ~final /\ final' = FALSE
    BY <1>6 DEF EnterMachine, Types
  <2>2. CASE /\ ~AllCompleted /\ phase' = unfinished[Latest]
             /\ at' = "implementing" /\ UNCHANGED <<started, unfinished>>
    BY <1>6, <2>1, <2>2, LatestFacts DEF EnterMachine
  <2>3. CASE /\ AllCompleted /\ started /\ at' = "inspecting"
             /\ UNCHANGED <<phase, started, unfinished>>
    BY <1>6, <2>1, <2>3 DEF EnterMachine
  <2>4. CASE /\ ~started /\ started' = TRUE /\ phase' \in Phases
             /\ CreateNewIncompletePhase(phase') /\ at' = "implementing"
    BY <1>6, <2>1, <2>4, CreateFacts DEF EnterMachine
  <2> QED
    BY <1>6, <2>2, <2>3, <2>4 DEF EnterMachine
<1>7. CASE TemplateFails
  BY <1>7 DEF TemplateFails, persisted
<1>8. CASE StartPlan
  BY <1>8 DEF StartPlan, quietInMachine
<1>9. CASE Planned
  <2>1. DOMAIN unfinished' = {1} /\ unfinished'[1] = phase'
    BY <1>9, CreateFacts DEF Planned
  <2> QED
    BY <1>9, <2>1 DEF Planned, quietInMachine
<1>10. CASE NothingPlanned
  BY <1>10 DEF NothingPlanned, Review, Finalize, StartReview, quietInMachine, Types
<1>11. CASE PlanFails
  BY <1>11 DEF PlanFails, Leave, Review, StartReview, quietInMachine, Types
<1>12. CASE PhaseImplemented
  <2>1. DOMAIN unfinished' = {}
    BY <1>12, MarkFacts DEF PhaseImplemented
  <2> QED
    BY <1>12, <2>1
    DEF PhaseImplemented, Review, Finalize, StartReview, quietInMachine, Types
<1>13. CASE ImplementFails
  BY <1>13 DEF ImplementFails, Leave, Review, StartReview, quietInMachine, Types
<1>14. CASE Reviewed
  BY <1>14 DEF Reviewed, Leave, quietInMachine
<1>15. CASE AppUpdated
  BY <1>15 DEF AppUpdated, quietInMachine, persisted
<1>16. CASE Restart
  BY <1>16 DEF Restart, Row
<1>17. CASE RowWritten
  BY <1>17 DEF RowWritten, persisted
<1>18. CASE UNCHANGED vars
  BY <1>18 DEF vars, persisted
<1> QED
  BY <1>1, <1>2, <1>3, <1>4, <1>5, <1>6, <1>7, <1>8, <1>9, <1>10, <1>11, <1>12,
     <1>13, <1>14, <1>15, <1>16, <1>17, <1>18
  DEF Next, MachineProgress

\* A request recharges the counter to RechargedTo at least.
LEMMA RechargedFacts ==
  phasesCounter \in Int /\ phasesCounter <= MaxPhases =>
    /\ Recharged \in Int /\ Recharged >= RechargedTo /\ Recharged <= MaxPhases
    /\ Recharged >= phasesCounter
  BY BudgetAssumption DEF Recharged

LEMMA BudgetStep ==
  Types /\ Machine /\ Budget /\ RowBudget /\ [Next]_vars => Budget'
<1> SUFFICES ASSUME Types, Machine, Budget, RowBudget, [Next]_vars PROVE Budget'
  OBVIOUS
<1> USE BudgetAssumption DEF Budget, InLoop, AllCompleted
<1>1. CASE Generate
  BY <1>1 DEF Generate, GenerateAllFiles, IsCodeGenerating, persisted
<1>2. ASSUME NEW t \in Turns, BeginTurn(t) PROVE Budget'
  BY <1>2 DEF BeginTurn, quietInTurn
<1>3. ASSUME NEW t \in Turns, EndTurn(t) PROVE Budget'
  BY <1>3 DEF EndTurn, GenerateAllFiles, IsCodeGenerating, quietInTurn
<1>4. ASSUME NEW t \in Turns, TurnFails(t) PROVE Budget'
  BY <1>4 DEF TurnFails, quietInTurn
<1>5. ASSUME NEW i \in Inputs, QueueUserRequest(i) PROVE Budget'
  <2>1. /\ phasesCounter' \in Int /\ phasesCounter' >= RechargedTo
        /\ phasesCounter' <= MaxPhases /\ phasesCounter' >= phasesCounter
    BY <1>5, RechargedFacts DEF QueueUserRequest
  <2>2. /\ pendingUserInputs' # <<>>
        /\ UNCHANGED <<started, mvpGenerated, at, final, unfinished>>
    BY <1>5, AppendProperties DEF QueueUserRequest, quietInTurn, Types
  <2> QED
    BY <2>1, <2>2
\* A build enters the loop with budget.
<1>6. CASE EnterMachine
  <2>1. ~final /\ UNCHANGED <<phasesCounter, mvpGenerated, pendingUserInputs, final>>
    BY <1>6 DEF EnterMachine, Machine
  <2>2. phasesCounter >= 1
    BY <1>6 DEF EnterMachine
  <2>3. at' \in {"inspecting", "implementing"}
    BY <1>6 DEF EnterMachine
  <2>4. \/ started' = started /\ unfinished' = unfinished
        \/ ~started /\ started' = TRUE
    BY <1>6 DEF EnterMachine
  <2> QED
    BY <2>1, <2>2, <2>3, <2>4
<1>7. CASE TemplateFails
  BY <1>7 DEF TemplateFails, persisted
<1>8. CASE StartPlan
  BY <1>8 DEF StartPlan, quietInMachine
<1>9. CASE Planned
  BY <1>9 DEF Planned, quietInMachine
<1>10. CASE NothingPlanned
  BY <1>10 DEF NothingPlanned, Review, Finalize, StartReview, quietInMachine, Machine
<1>11. CASE PlanFails
  BY <1>11 DEF PlanFails, Leave, Review, StartReview, quietInMachine, Machine
\* A request that waits has budget for the phase and one more to spare.
<1>12. CASE PhaseImplemented
  <2>1. DOMAIN unfinished' = {} /\ ~AllCompleted /\ started
    BY <1>12, MarkFacts DEF PhaseImplemented, Machine
  <2>2. /\ phasesCounter' = phasesCounter - 1 /\ phasesCounter' \in Int
        /\ UNCHANGED <<pendingUserInputs, started>>
        /\ pendingUserInputs # <<>> => phasesCounter >= RechargedTo
    BY <1>12, <2>1 DEF PhaseImplemented
  <2>3. CASE final /\ Review
    BY <1>12, <2>1, <2>2, <2>3 DEF Review, StartReview, Machine
  <2>4. CASE ~final /\ Finalize
    BY <1>12, <2>1, <2>2, <2>4 DEF Finalize, StartReview, PhaseImplemented
  <2>5. CASE /\ ~final
             /\ pendingUserInputs # <<>> \/ phasesCounter' > 0
             /\ at' = "inspecting"
             /\ UNCHANGED <<mvpGenerated, reviewingInitiated, final, phase>>
    BY <1>12, <2>1, <2>2, <2>5
  <2> QED
    BY <1>12, <2>3, <2>4, <2>5 DEF PhaseImplemented
<1>13. CASE ImplementFails
  BY <1>13 DEF ImplementFails, Leave, Review, StartReview, quietInMachine, Machine
<1>14. CASE Reviewed
  BY <1>14 DEF Reviewed, Leave, quietInMachine
<1>15. CASE AppUpdated
  BY <1>15 DEF AppUpdated, quietInMachine, persisted
<1>16. CASE Restart
  BY <1>16 DEF Restart, RowBudget
<1>17. CASE RowWritten
  BY <1>17 DEF RowWritten, persisted
<1>18. CASE UNCHANGED vars
  BY <1>18 DEF vars, persisted
<1> QED
  BY <1>1, <1>2, <1>3, <1>4, <1>5, <1>6, <1>7, <1>8, <1>9, <1>10, <1>11, <1>12,
     <1>13, <1>14, <1>15, <1>16, <1>17, <1>18
  DEF Next, MachineProgress

\* The row is a state of this session, and not a later one than the state.
LEMMA RowStep == Types /\ Machine /\ Row /\ [Next]_vars => Row'
<1> SUFFICES ASSUME Types, Machine, Row, [Next]_vars PROVE Row'
  OBVIOUS
<1>1. CASE RowWritten
  <2>1. row' = Stored /\ mvpGenerated' = mvpGenerated
    BY <1>1 DEF RowWritten, persisted
  <2> QED
    BY <2>1 DEF Row, Stored, Types, Machine, AllCompleted
<1>2. CASE Restart
  BY <1>2 DEF Restart, Row
<1>3. CASE row' = row /\ (mvpGenerated' = mvpGenerated \/ mvpGenerated' = TRUE)
  BY <1>3 DEF Row
<1> QED
  BY <1>1, <1>2, <1>3
  DEF Next, MachineProgress, Generate, BeginTurn, EndTurn, TurnFails,
      QueueUserRequest, EnterMachine, TemplateFails, StartPlan, Planned,
      NothingPlanned, PlanFails, PhaseImplemented, ImplementFails, Reviewed,
      AppUpdated, Leave, Review, Finalize, StartReview, persisted, quietInTurn,
      quietInMachine, vars

LEMMA RowBudgetStep == Types /\ Budget /\ RowBudget /\ [Next]_vars => RowBudget'
<1> SUFFICES ASSUME Types, Budget, RowBudget, [Next]_vars PROVE RowBudget'
  OBVIOUS
<1>1. CASE RowWritten
  <2>1. row' = Stored
    BY <1>1 DEF RowWritten
  <2> QED
    BY <2>1 DEF RowBudget, Stored, Budget, AllCompleted
<1>2. CASE row' = row
  BY <1>2 DEF RowBudget
<1> QED
  BY <1>1, <1>2
  DEF Next, MachineProgress, Generate, BeginTurn, EndTurn, TurnFails,
      QueueUserRequest, EnterMachine, TemplateFails, StartPlan, Planned,
      NothingPlanned, PlanFails, PhaseImplemented, ImplementFails, Reviewed,
      AppUpdated, Restart, quietInTurn, quietInMachine, vars

IInv == Types /\ Machine /\ Budget /\ Row /\ RowBudget

LEMMA Initially == Init => IInv
<1> SUFFICES ASSUME Init PROVE IInv
  OBVIOUS
<1>1. DOMAIN unfinished = {} /\ unfinished \in [DOMAIN unfinished -> Phases]
  BY DEF Init
<1>2. Types
  BY <1>1, EmptySeq DEF Init, Types
<1>3. Machine
  BY <1>1 DEF Init, Machine, InLoop, AllCompleted
<1>4. Budget
  BY <1>1, BudgetAssumption DEF Init, Budget, InLoop, AllCompleted
<1>5. row = Stored
  BY DEF Init
<1>6. Row
  BY <1>2, <1>3, <1>5 DEF Row, Stored, Types, Machine, AllCompleted
<1>7. RowBudget
  BY <1>4, <1>5 DEF RowBudget, Stored, Budget, AllCompleted
<1> QED
  BY <1>2, <1>3, <1>4, <1>6, <1>7 DEF IInv

LEMMA Invariant == Spec => []IInv
<1>1. Init => IInv
  BY Initially
<1>2. IInv /\ [Next]_vars => IInv'
  BY TypesStep, MachineStep, BudgetStep, RowStep, RowBudgetStep DEF IInv
<1> QED
  BY <1>1, <1>2, PTL DEF Spec

-----------------------------------------------------------------------------
(* The types, and with them that the counter never goes below -1.          *)
THEOREM TypeCorrect == Spec => []TypeOK
<1>1. IInv => TypeOK
  BY BudgetAssumption DEF IInv, Types, Budget, Row, RowBudget, TypeOK
<1> QED
  BY <1>1, Invariant, PTL

(* There is never more than one phase to resume.                           *)
THEOREM AlwaysOneUnfinishedPhase == Spec => []OneUnfinishedPhase
<1>1. IInv => OneUnfinishedPhase
  BY DEF IInv, Machine, OneUnfinishedPhase
<1> QED
  BY <1>1, Invariant, PTL

(* A request that waits always has budget left for it.                     *)
THEOREM PendingAlwaysHasBudget == Spec => []PendingHasBudget
<1>1. IInv => PendingHasBudget
  BY DEF IInv, Budget, PendingHasBudget
<1> QED
  BY <1>1, Invariant, PTL

(* The project is never declared generated with a phase unfinished, nor    *)
(* by a restart.                                                           *)
THEOREM MVPAlwaysMeansPhasesDone == Spec => MVPMeansPhasesDone
<1>1. ASSUME Types, Machine, Row, Next, ~mvpGenerated, mvpGenerated'
      PROVE  AllCompleted' /\ IsCodeGenerating'
  <2>1. CASE NothingPlanned
    BY <1>1, <2>1 DEF NothingPlanned, Review, Finalize, StartReview, Machine,
                      AllCompleted, IsCodeGenerating
  <2>2. CASE PhaseImplemented
    <3>1. AllCompleted'
      BY <1>1, <2>2, MarkFacts DEF PhaseImplemented, Machine, AllCompleted
    <3>2. Finalize
      BY <1>1, <2>2 DEF PhaseImplemented, Review
    <3> QED
      BY <1>1, <3>1, <3>2 DEF Finalize, StartReview, IsCodeGenerating
  <2>3. ~Restart
    BY <1>1 DEF Restart, Row
  <2>4. NothingPlanned \/ PhaseImplemented
    BY <1>1, <2>3
    DEF Next, MachineProgress, Generate, BeginTurn, EndTurn, TurnFails,
        QueueUserRequest, EnterMachine, TemplateFails, StartPlan, Planned,
        PlanFails, ImplementFails, Reviewed, AppUpdated, RowWritten, Leave,
        Review, StartReview, persisted, quietInTurn
  <2> QED
    BY <2>1, <2>2, <2>4
<1>2. IInv /\ [Next]_vars
      => [~mvpGenerated /\ mvpGenerated' => AllCompleted' /\ IsCodeGenerating']_vars
  BY <1>1 DEF IInv
<1> QED
  BY <1>2, Invariant, PTL DEF Spec, MVPMeansPhasesDone

-----------------------------------------------------------------------------
(***************************************************************************)
(* The machine implements the abstract queue with a process that may die:  *)
(* the tool of a turn accepts, a plan serves whatever waits, an upsert     *)
(* saves, a restart is the crash, and every other step is a stutter.       *)
(***************************************************************************)
(* Queues of requests are closed under the two operations of the model, and *)
(* queueing commutes with prefixing what was delivered before.             *)
LEMMA QueueFacts ==
  ASSUME NEW s \in Seq(Inputs), NEW t \in Seq(Inputs), NEW i \in Inputs
  PROVE  /\ s \o t \in Seq(Inputs)
         /\ Append(s, i) \in Seq(Inputs)
         /\ Append(s \o t, i) = s \o Append(t, i)
<1>1. s \o t \in Seq(Inputs) /\ Append(s, i) \in Seq(Inputs)
  BY ConcatProperties, AppendProperties
<1>2. <<i>> \in Seq(Inputs)
  OBVIOUS
<1>3. (s \o t) \o <<i>> = s \o (t \o <<i>>)
  BY <1>2, ConcatAssociative
<1>4. Append(s \o t, i) = (s \o t) \o <<i>> /\ Append(t, i) = t \o <<i>>
  BY <1>1, AppendIsConcat
<1> QED
  BY <1>1, <1>3, <1>4

(* Queueing what does not occur keeps a queue free of repetitions. *)
LEMMA AppendOnce ==
  ASSUME NEW s \in Seq(Inputs), NEW i \in Inputs,
         Queue!NoRepeats(s), ~Queue!Occurs(i, s)
  PROVE  Queue!NoRepeats(Append(s, i))
<1>1. /\ Len(Append(s, i)) = Len(s) + 1 /\ Append(s, i)[Len(s) + 1] = i
      /\ \A n \in 1..Len(s) : Append(s, i)[n] = s[n]
      /\ DOMAIN Append(s, i) = 1..(Len(s) + 1) /\ DOMAIN s = 1..Len(s)
  BY AppendProperties
<1>2. \A n \in 1..Len(s) : s[n] # i
  BY <1>1 DEF Queue!Occurs
<1> QED
  BY <1>1, <1>2 DEF Queue!NoRepeats

LEMMA QueueStep ==
  Types /\ [Next]_vars
    => [Queue!SavedNext]_<<Queue!vars,
         [waiting |-> row.pendingUserInputs, served |-> row.delivered]>>
<1> DEFINE kept == [waiting |-> row.pendingUserInputs, served |-> row.delivered]
<1> SUFFICES ASSUME Types, [Next]_vars
             PROVE  \/ Queue!SavedNext
                    \/ UNCHANGED <<pendingUserInputs, delivered, kept>>
  BY DEF Queue!vars
<1> USE DEF Queue!SavedNext, Queue!Next
<1>1. ASSUME NEW i \in Inputs, QueueUserRequest(i)
      PROVE  Queue!Next /\ UNCHANGED kept
  <2>1. ~Queue!Occurs(i, delivered) /\ ~Queue!Occurs(i, pendingUserInputs)
    BY <1>1 DEF QueueUserRequest, Queue!Occurs
  <2>2. /\ pendingUserInputs' = Append(pendingUserInputs, i)
        /\ delivered' = delivered /\ row' = row
    BY <1>1 DEF QueueUserRequest, quietInTurn
  <2> QED
    BY <2>1, <2>2 DEF Queue!Accept
<1>2. CASE UNCHANGED <<pendingUserInputs, delivered, row>>
  BY <1>2
<1>3. CASE StartPlan
  <2>1. /\ delivered' = delivered \o pendingUserInputs
        /\ pendingUserInputs' = <<>> /\ row' = row
    BY <1>3 DEF StartPlan, quietInMachine
  <2>2. CASE pendingUserInputs = <<>>
    BY <1>2, <2>1, <2>2, ConcatEmptySeq DEF Types
  <2>3. CASE pendingUserInputs # <<>>
    BY <2>1, <2>3 DEF Queue!Serve
  <2> QED
    BY <2>2, <2>3
<1>4. CASE RowWritten
  <2>1. /\ UNCHANGED <<pendingUserInputs, delivered>>
        /\ kept' = [waiting |-> pendingUserInputs, served |-> delivered]
    BY <1>4 DEF RowWritten, persisted, Stored
  <2> QED
    BY <2>1 DEF Queue!Save, Queue!Now, Queue!vars
<1>5. CASE Restart
  BY <1>5 DEF Restart, Queue!Crash
<1> QED
  BY <1>1, <1>2, <1>3, <1>4, <1>5
  DEF Next, MachineProgress, Generate, BeginTurn, EndTurn, TurnFails,
      EnterMachine, TemplateFails, Planned, NothingPlanned, PlanFails,
      PhaseImplemented, ImplementFails, Reviewed, AppUpdated,
      persisted, quietInTurn, quietInMachine, vars

(* The phasic behavior, with its failures and with a row that lags,        *)
(* implements the request queue of a process that may die.                 *)
THEOREM Refinement == Spec => IsSavedQueue
<1>1. Init => Queue!SavedInit
  BY EmptySeq DEF Init, Stored, Queue!SavedInit, Queue!Now, Queue!Init,
                  Queue!NoRepeats
<1>2. IInv /\ [Next]_vars
        => [Queue!SavedNext]_<<Queue!vars,
             [waiting |-> row.pendingUserInputs, served |-> row.delivered]>>
  BY QueueStep DEF IInv
<1> QED
  BY <1>1, <1>2, Invariant, PTL DEF Spec, IsSavedQueue, Queue!SavedSpec

(* Of the two histories, the one of the state and the one of the row:      *)
(* nothing in them was taken up twice or is taken up and waits.            *)
Unrepeated(served, waiting) ==
  /\ served \in Seq(Inputs) /\ waiting \in Seq(Inputs)
  /\ Queue!NoRepeats(served \o waiting)

BothUnrepeated ==
  /\ Unrepeated(delivered, pendingUserInputs)
  /\ Unrepeated(row.delivered, row.pendingUserInputs)

\* Accepting what is neither served nor waiting repeats nothing.
LEMMA AcceptUnrepeated ==
  ASSUME NEW served, NEW waiting, Unrepeated(served, waiting), NEW i \in Inputs,
         ~Queue!Occurs(i, served), ~Queue!Occurs(i, waiting)
  PROVE  Unrepeated(served, Append(waiting, i))
<1> USE DEF Unrepeated
<1>1. ASSUME NEW n \in 1..(Len(served) + Len(waiting))
      PROVE  (served \o waiting)[n] # i
  <2>1. CASE n <= Len(served)
    BY <2>1, ConcatProperties DEF Queue!Occurs
  <2>2. CASE n > Len(served)
    <3>1. n - Len(served) \in DOMAIN waiting
      BY <2>2
    <3>2. (served \o waiting)[n] = waiting[n - Len(served)]
      BY <2>2, ConcatProperties
    <3> QED
      BY <3>1, <3>2 DEF Queue!Occurs
  <2> QED
    BY <2>1, <2>2
<1>2. ~Queue!Occurs(i, served \o waiting)
  BY <1>1, ConcatProperties DEF Queue!Occurs
<1>3. served \o Append(waiting, i) = Append(served \o waiting, i)
  BY QueueFacts
<1>4. served \o waiting \in Seq(Inputs) /\ Append(waiting, i) \in Seq(Inputs)
  BY QueueFacts
<1> QED
  BY <1>2, <1>3, <1>4, AppendOnce

LEMMA UnrepeatedStep == BothUnrepeated /\ [Next]_vars => BothUnrepeated'
<1> SUFFICES ASSUME BothUnrepeated, [Next]_vars PROVE BothUnrepeated'
  OBVIOUS
<1> USE DEF BothUnrepeated
<1>1. ASSUME NEW i \in Inputs, QueueUserRequest(i) PROVE BothUnrepeated'
  <2>1. ~Queue!Occurs(i, delivered) /\ ~Queue!Occurs(i, pendingUserInputs)
    BY <1>1 DEF QueueUserRequest, Queue!Occurs
  <2>2. Unrepeated(delivered, Append(pendingUserInputs, i))
    BY <2>1, AcceptUnrepeated
  <2>3. /\ pendingUserInputs' = Append(pendingUserInputs, i)
        /\ delivered' = delivered /\ row' = row
    BY <1>1 DEF QueueUserRequest, quietInTurn
  <2> QED
    BY <2>2, <2>3
<1>2. CASE StartPlan
  <2>1. /\ delivered' = delivered \o pendingUserInputs
        /\ pendingUserInputs' = <<>> /\ row' = row
    BY <1>2 DEF StartPlan, quietInMachine
  <2>2. /\ delivered \o pendingUserInputs \in Seq(Inputs) /\ <<>> \in Seq(Inputs)
        /\ (delivered \o pendingUserInputs) \o <<>> = delivered \o pendingUserInputs
    BY ConcatProperties, ConcatEmptySeq, EmptySeq DEF Unrepeated
  <2>3. Unrepeated(delivered \o pendingUserInputs, <<>>)
    BY <2>2 DEF Unrepeated
  <2> QED
    BY <2>1, <2>3
<1>3. CASE RowWritten
  BY <1>3 DEF RowWritten, Stored, persisted
<1>4. CASE Restart
  BY <1>4 DEF Restart
<1>5. CASE UNCHANGED <<pendingUserInputs, delivered, row>>
  BY <1>5
<1> QED
  BY <1>1, <1>2, <1>3, <1>4, <1>5
  DEF Next, MachineProgress, Generate, BeginTurn, EndTurn, TurnFails,
      EnterMachine, TemplateFails, Planned, NothingPlanned, PlanFails,
      PhaseImplemented, ImplementFails, Reviewed, AppUpdated,
      persisted, quietInTurn, quietInMachine, vars

(* In what a state remembers no request is planned twice, whatever builds  *)
(* and restarts it went through: a request is planned again only by a      *)
(* process that was restored to a state from before it was planned.        *)
THEOREM EachServedOnce == Spec => []Queue!ServedOnce
<1>1. Init => BothUnrepeated
  <2> SUFFICES ASSUME Init PROVE BothUnrepeated
    OBVIOUS
  <2>1. delivered = <<>> /\ pendingUserInputs = <<>> /\ row = Stored
    BY DEF Init
  <2>2. Unrepeated(<<>>, <<>>)
    BY EmptySeq DEF Unrepeated, Queue!NoRepeats
  <2> QED
    BY <2>1, <2>2 DEF BothUnrepeated, Stored
<1>2. BothUnrepeated => Queue!ServedOnce
  <2> SUFFICES ASSUME BothUnrepeated PROVE Queue!ServedOnce
    OBVIOUS
  <2>1. \A n \in DOMAIN delivered :
          /\ n \in DOMAIN (delivered \o pendingUserInputs)
          /\ (delivered \o pendingUserInputs)[n] = delivered[n]
    BY ConcatProperties DEF BothUnrepeated, Unrepeated
  <2> QED
    BY <2>1 DEF BothUnrepeated, Unrepeated, Queue!NoRepeats, Queue!ServedOnce
<1> QED
  BY <1>1, <1>2, UnrepeatedStep, PTL DEF Spec

=============================================================================
