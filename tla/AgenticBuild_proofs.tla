------------------------ MODULE AgenticBuild_proofs -------------------------
(***************************************************************************)
(* What AgenticBuild guarantees for any number of build slots and any set  *)
(* of inputs, proved with TLAPS.                                           *)
(***************************************************************************)
EXTENDS AgenticBuild, SequenceTheorems, TLAPS

(* Queues of inputs are closed under the two operations of the model, and  *)
(* queueing commutes with prefixing what was delivered before.             *)
LEMMA QueueFacts ==
  ASSUME NEW s \in Seq(Inputs), NEW t \in Seq(Inputs), NEW i \in Inputs
  PROVE  /\ s \o t \in Seq(Inputs)
         /\ Append(s, i) \in Seq(Inputs)
         /\ Append(s \o t, i) = s \o Append(t, i)
<1>1. s \o t \in Seq(Inputs) /\ Append(s, i) \in Seq(Inputs)
  BY ConcatProperties, AppendProperties
<1>2. <<i>> \in Seq(Inputs)
  OBVIOUS
<1>3. (s \o t) \o <<i>> = s \o (t \o <<i>>)
  BY <1>2, ConcatAssociative
<1>4. Append(s \o t, i) = (s \o t) \o <<i>> /\ Append(t, i) = t \o <<i>>
  BY <1>1, AppendIsConcat
<1> QED
  BY <1>1, <1>3, <1>4

(* The initial states have the right types. *)
LEMMA TypeInitial == Init => TypeOK
<1> SUFFICES ASSUME Init PROVE TypeOK
  OBVIOUS
<1>0. <<>> \in Seq(Inputs)
  OBVIOUS
<1>1. /\ pendingUserInputs \in Seq(Inputs)
      /\ input \in [Inputs -> InputStep]
      /\ mvpGenerated \in BOOLEAN /\ shouldBeGenerating \in BOOLEAN
      /\ templateLoaded \in BOOLEAN /\ booted \in BOOLEAN
  <2>1. CASE InitFresh
    <3>1. /\ pendingUserInputs = <<>>
          /\ input = [i \in Inputs |-> "unsent"]
      BY <2>1, Zenon DEF InitFresh
    <3>2. /\ mvpGenerated \in BOOLEAN /\ shouldBeGenerating \in BOOLEAN
          /\ templateLoaded \in BOOLEAN /\ booted \in BOOLEAN
      BY <2>1, Zenon DEF InitFresh
    <3> QED
      BY <3>1, <3>2, <1>0 DEF InputStep
  <2>2. CASE InitRestored
    <3>1. /\ mvpGenerated \in BOOLEAN /\ shouldBeGenerating \in BOOLEAN
          /\ templateLoaded \in BOOLEAN /\ booted \in BOOLEAN
      BY <2>2, Zenon DEF InitRestored
    <3>2. PICK left \in {<<>>} \cup {<<i>> : i \in Inputs} :
            /\ pendingUserInputs = left
            /\ input = [i \in Inputs |-> IF left = <<i>> THEN "handled" ELSE "unsent"]
      BY <2>2, Zenon DEF InitRestored
    <3>3. left \in Seq(Inputs)
      <4>1. CASE left = <<>>
        BY <4>1, <1>0
      <4>2. ASSUME NEW i \in Inputs, left = <<i>> PROVE left \in Seq(Inputs)
        BY <4>2
      <4> QED
        BY <4>1, <4>2
    <3>4. input \in [Inputs -> InputStep]
      BY <3>2 DEF InputStep
    <3> QED
      BY <3>1, <3>2, <3>3, <3>4
  <2> QED
    BY <2>1, <2>2 DEF Init
<1> QED
  BY <1>0, <1>1 DEF Init, TypeOK, BuildStep

(* Each action preserves the types. *)
LEMMA TypeStep == TypeOK /\ [Next]_vars => TypeOK'
<1> SUFFICES ASSUME TypeOK, [Next]_vars PROVE TypeOK'
  OBVIOUS
<1> USE DEF TypeOK, BuildStep, InputStep
<1>1. CASE StartInitialGeneration
  BY <1>1 DEF StartInitialGeneration, GenerateAllFiles, Start, generating
<1>2. CASE GenerateAll
  BY <1>2 DEF GenerateAll, Start, generating
<1>3. CASE ResumeGeneration
  BY <1>3 DEF ResumeGeneration, GenerateAllFiles, Start, generating
<1>4. CASE StopGeneration
  BY <1>4 DEF StopGeneration, CancelCurrentInference, generating
<1>5. ASSUME NEW i \in Inputs, ReceiveInput(i) PROVE TypeOK'
  BY <1>5 DEF ReceiveInput, quietForInput, generating
<1>6. ASSUME NEW i \in Inputs, RejectInput(i) PROVE TypeOK'
  BY <1>6 DEF RejectInput, quietForInput, generating
<1>7. ASSUME NEW i \in Inputs, QueueUserRequest(i) PROVE TypeOK'
  <2>1. /\ pendingUserInputs' \in Seq(Inputs)
        /\ accepted' \in Seq(Inputs)
    BY <1>7, QueueFacts DEF QueueUserRequest
  <2> QED
    BY <1>7, <2>1 DEF QueueUserRequest, Start, quietForInput, generating
<1> DEFINE LoopTypes ==
      /\ pendingUserInputs' \in Seq(Inputs) /\ delivered' \in Seq(Inputs)
      /\ controller' \subseteq Builds /\ aborted' \subseteq Builds
      /\ build' \in [Builds -> BuildStep]
      /\ interrupted' \in BOOLEAN
<1>a. ASSUME NEW b \in Builds, NEW held \in SUBSET Builds, StartIteration(b, held)
      PROVE  LoopTypes
  <2>1. delivered \o pendingUserInputs \in Seq(Inputs) /\ <<>> \in Seq(Inputs)
    BY ConcatProperties
  <2>2. controller' \subseteq Builds /\ aborted' \subseteq Builds
    BY <1>a DEF StartIteration, TakeSignal
  <2>3. build' \in [Builds -> BuildStep]
    BY <1>a DEF StartIteration
  <2>4. interrupted' \in BOOLEAN
    BY <1>a, Zenon DEF StartIteration
  <2>5. delivered' = delivered \o pendingUserInputs /\ pendingUserInputs' = <<>>
    BY <1>a, Zenon DEF StartIteration
  <2> QED
    BY <2>1, <2>2, <2>3, <2>4, <2>5
<1>b. ASSUME NEW b \in Builds, LeaveLoop(b) PROVE LoopTypes
  BY <1>b DEF LeaveLoop
<1>8. ASSUME NEW b \in Builds, EnterLoop(b) PROVE TypeOK'
  <2>1. LoopTypes
    BY <1>8, <1>a, <1>b DEF EnterLoop
  <2> QED
    BY <1>8, <2>1 DEF EnterLoop, quietInBuild
<1>9. ASSUME NEW b \in Builds, TemplateFails(b) PROVE TypeOK'
  BY <1>9 DEF TemplateFails, Settle, quietInBuild
<1>10. ASSUME NEW b \in Builds, MarkGenerationComplete(b) PROVE TypeOK'
  BY <1>10 DEF MarkGenerationComplete, generating
<1>11. ASSUME NEW b \in Builds, InferenceReturns(b) PROVE TypeOK'
  BY <1>11 DEF InferenceReturns, TakeSignal, quietInBuild
<1>12. ASSUME NEW b \in Builds, Compacted(b) PROVE TypeOK'
  <2>1. LoopTypes
    BY <1>12, <1>a, <1>b DEF Compacted
  <2> QED
    BY <1>12, <2>1 DEF Compacted, quietInBuild
<1>13. ASSUME NEW b \in Builds, InferenceFails(b) PROVE TypeOK'
  BY <1>13 DEF InferenceFails, quietInBuild
<1>14. ASSUME NEW b \in Builds, AppUpdated(b) PROVE TypeOK'
  BY <1>14 DEF AppUpdated, Settle, quietInBuild
<1>15. ASSUME NEW b \in Builds, ClearIntent(b) PROVE TypeOK'
  BY <1>15 DEF ClearIntent, history, IsCodeGenerating
<1>16. CASE UNCHANGED vars
  BY <1>16 DEF vars, persisted, history
<1> QED
  BY <1>1, <1>2, <1>3, <1>4, <1>5, <1>6, <1>7, <1>8, <1>9, <1>10, <1>11,
     <1>12, <1>13, <1>14, <1>15, <1>16
  DEF Next, Client, Handler, BuildProgress

(* Types of the state, for every set of slots and inputs. *)
THEOREM TypeCorrect == Spec => []TypeOK
  BY TypeInitial, TypeStep, PTL DEF Spec

-----------------------------------------------------------------------------
(***************************************************************************)
(* User inputs are taken exactly once and in the order they were accepted. *)
(* Two steps touch the three sequences: queueing appends the same input to *)
(* both sides, and an iteration moves the whole queue across.              *)
(***************************************************************************)
LEMMA ConservedStep == TypeOK /\ InputsConserved /\ [Next]_vars => InputsConserved'
<1> SUFFICES ASSUME TypeOK, InputsConserved, [Next]_vars PROVE InputsConserved'
  OBVIOUS
<1> USE DEF InputsConserved
<1>1. ASSUME NEW i \in Inputs, QueueUserRequest(i) PROVE InputsConserved'
  <2>1. /\ pendingUserInputs' = Append(pendingUserInputs, i)
        /\ accepted' = Append(accepted, i)
        /\ delivered' = delivered
    BY <1>1 DEF QueueUserRequest, quietForInput
  <2> QED
    BY <2>1, QueueFacts DEF TypeOK
<1>2. ASSUME NEW b \in Builds, NEW held, StartIteration(b, held), accepted' = accepted
      PROVE InputsConserved'
  <2>1. delivered' = delivered \o pendingUserInputs /\ pendingUserInputs' = <<>>
    BY <1>2 DEF StartIteration
  <2>2. delivered \o pendingUserInputs \in Seq(Inputs)
    BY DEF TypeOK
  <2> QED
    BY <1>2, <2>1, <2>2
<1>3. CASE UNCHANGED <<accepted, delivered, pendingUserInputs>>
  BY <1>3
<1>4. ASSUME NEW b \in Builds, EnterLoop(b) \/ Compacted(b) PROVE InputsConserved'
  BY <1>2, <1>3, <1>4 DEF EnterLoop, Compacted, LeaveLoop, quietInBuild
<1>5. CASE StartInitialGeneration \/ Client
  BY <1>3, <1>5
  DEF Client, StartInitialGeneration, GenerateAll, ResumeGeneration,
      StopGeneration, ReceiveInput, quietForInput
<1>6. ASSUME NEW i \in Inputs, RejectInput(i) PROVE InputsConserved'
  BY <1>3, <1>6 DEF RejectInput, quietForInput
<1>7. ASSUME NEW b \in Builds,
             \/ TemplateFails(b) \/ MarkGenerationComplete(b)
             \/ InferenceReturns(b) \/ InferenceFails(b)
             \/ AppUpdated(b) \/ ClearIntent(b)
      PROVE InputsConserved'
  BY <1>3, <1>7
  DEF TemplateFails, MarkGenerationComplete, InferenceReturns, InferenceFails,
      AppUpdated, ClearIntent, quietInBuild, history
<1>8. CASE UNCHANGED vars
  BY <1>3, <1>8 DEF vars, persisted, history
<1> QED
  BY <1>1, <1>4, <1>5, <1>6, <1>7, <1>8 DEF Next, Handler, BuildProgress

(* No input is lost, duplicated or reordered by any number of builds. *)
THEOREM InputsAlwaysConserved == Spec => []InputsConserved
<1>1. Init => InputsConserved
  <2> SUFFICES ASSUME Init PROVE InputsConserved
    OBVIOUS
  <2>1. pendingUserInputs \in Seq(Inputs)
    BY TypeInitial DEF TypeOK
  <2> QED
    BY <2>1 DEF Init, InputsConserved
<1> QED
  BY <1>1, ConservedStep, TypeCorrect, PTL DEF Spec

-----------------------------------------------------------------------------
(***************************************************************************)
(* The wake-up argument.  A handler that finds generationPromise set       *)
(* relies on some build to look at the queue again.  Three facts together  *)
(* are inductive:                                                          *)
(*   - the promise is set although nothing is left to do only while some   *)
(*     build is between the start and the end of an iteration, at whose    *)
(*     end the loop condition is evaluated again;                          *)
(*   - the promise is set although something is left to do only while some *)
(*     build will still evaluate the loop condition, or the template       *)
(*     lookup failed;                                                      *)
(*   - a non-empty queue has such a build, or an error explains it.        *)
(***************************************************************************)
Iterating == \E b \in Builds : build[b] \in {"infer", "compact"}

WillLook == \E b \in Builds : build[b] \in {"template", "infer", "compact"}

WakeUp ==
  /\ IsCodeGenerating /\ NothingToDo => Iterating
  /\ IsCodeGenerating => WillLook \/ templateFailed
  /\ pendingUserInputs # <<>> => WillLook \/ interrupted \/ templateFailed

LEMMA WakeUpStep == TypeOK /\ WakeUp /\ [Next]_vars => WakeUp'
<1> SUFFICES ASSUME TypeOK, WakeUp, [Next]_vars PROVE WakeUp'
  OBVIOUS
<1> USE NoBuildAssumption
    DEF WakeUp, Iterating, WillLook, IsCodeGenerating, NothingToDo
\* A build that starts will look at the queue, and starts only if it must.
<1>1. ASSUME NEW b \in Builds, Start(b), ~(mvpGenerated' /\ pendingUserInputs' = <<>>)
      PROVE  WakeUp'
  <2>1. build'[b] = "template"
    BY <1>1 DEF Start, TypeOK
  <2> QED
    BY <1>1, <2>1
\* A step that starts nothing and leaves the queue and the flag alone.
<1>2. CASE /\ UNCHANGED <<generationPromise, build, templateFailed, interrupted>>
           /\ UNCHANGED <<mvpGenerated, pendingUserInputs>>
  BY <1>2
<1>3. CASE StartInitialGeneration
  BY <1>1, <1>2, <1>3 DEF StartInitialGeneration, GenerateAllFiles, generating
<1>4. CASE GenerateAll
  <2>1. ASSUME NEW b \in Builds, NothingToDo, build[b] = "idle", ~IsCodeGenerating,
               build' = [build EXCEPT ![b] = "finally"],
               UNCHANGED <<generationPromise, mvpGenerated, pendingUserInputs>>
        PROVE  WakeUp'
    BY <2>1
  <2> QED
    BY <1>1, <1>2, <1>4, <2>1 DEF GenerateAll, generating
<1>5. CASE ResumeGeneration
  BY <1>1, <1>2, <1>5 DEF ResumeGeneration, GenerateAllFiles, generating
<1>6. CASE StopGeneration
  BY <1>2, <1>6 DEF StopGeneration, generating
<1>7. ASSUME NEW i \in Inputs, ReceiveInput(i) \/ RejectInput(i) PROVE WakeUp'
  BY <1>2, <1>7 DEF ReceiveInput, RejectInput, quietForInput, generating
<1>8. ASSUME NEW i \in Inputs, QueueUserRequest(i) PROVE WakeUp'
  <2>1. pendingUserInputs' # <<>>
    BY <1>8, AppendProperties DEF QueueUserRequest, TypeOK
  <2>2. CASE IsCodeGenerating /\ UNCHANGED generating
    BY <1>8, <2>1, <2>2 DEF QueueUserRequest, quietForInput, generating
  <2> QED
    BY <1>1, <1>8, <2>1, <2>2 DEF QueueUserRequest
\* An iteration that starts is one that will end; a loop that is left had
\* nothing to do.
<1>9. ASSUME NEW b \in Builds, NEW held, StartIteration(b, held) PROVE WakeUp'
  <2>1. build'[b] = "infer" /\ pendingUserInputs' = <<>>
    BY <1>9 DEF StartIteration, TypeOK
  <2> QED
    BY <2>1
<1>10. ASSUME NEW b \in Builds, EnterLoop(b) PROVE WakeUp'
  <2>1. CASE LeaveLoop(b)
    <3>1. /\ generationPromise' = generationPromise /\ NothingToDo
          /\ mvpGenerated' = mvpGenerated /\ pendingUserInputs' = pendingUserInputs
          /\ build' = [build EXCEPT ![b] = "updating"] /\ build[b] = "template"
      BY <1>10, <2>1 DEF EnterLoop, LeaveLoop, quietInBuild
    <3>2. Iterating => Iterating'
      BY <3>1 DEF TypeOK
    <3> QED
      BY <3>1, <3>2
  <2> QED
    BY <1>9, <1>10, <2>1 DEF EnterLoop
<1>11. ASSUME NEW b \in Builds, Compacted(b) PROVE WakeUp'
  <2>1. CASE LeaveLoop(b)
    BY <1>11, <2>1 DEF Compacted, LeaveLoop, quietInBuild
  <2> QED
    BY <1>9, <1>11, <2>1 DEF Compacted
<1>12. ASSUME NEW b \in Builds, InferenceFails(b) PROVE WakeUp'
  BY <1>12 DEF InferenceFails, quietInBuild
<1>13. ASSUME NEW b \in Builds, TemplateFails(b) PROVE WakeUp'
  <2>1. Iterating => Iterating'
    BY <1>13 DEF TemplateFails, Settle, TypeOK
  <2> QED
    BY <1>13, <2>1 DEF TemplateFails, quietInBuild
<1>14. ASSUME NEW b \in Builds, MarkGenerationComplete(b) PROVE WakeUp'
  BY <1>14 DEF MarkGenerationComplete, generating
<1>15. ASSUME NEW b \in Builds, InferenceReturns(b) PROVE WakeUp'
  <2>1. build'[b] = "compact"
    BY <1>15 DEF InferenceReturns, TypeOK
  <2> QED
    BY <1>15, <2>1 DEF InferenceReturns, quietInBuild
\* A build that settles was past its last look already.
<1>16. ASSUME NEW b \in Builds, AppUpdated(b) PROVE WakeUp'
  <2>1. WillLook => WillLook'
    BY <1>16 DEF AppUpdated, Settle, TypeOK
  <2> QED
    BY <1>16, <2>1 DEF AppUpdated, quietInBuild
<1>17. ASSUME NEW b \in Builds, ClearIntent(b) PROVE WakeUp'
  <2>1. (WillLook => WillLook') /\ (Iterating => Iterating')
    BY <1>17 DEF ClearIntent, TypeOK
  <2> QED
    BY <1>17, <2>1 DEF ClearIntent, history
<1>18. CASE UNCHANGED vars
  BY <1>2, <1>18 DEF vars, persisted, history
<1> QED
  BY <1>3, <1>4, <1>5, <1>6, <1>7, <1>8, <1>10, <1>11, <1>12, <1>13, <1>14,
     <1>15, <1>16, <1>17, <1>18
  DEF Next, Client, Handler, BuildProgress

(* No handler's wake-up is lost: only an error leaves inputs in the queue  *)
(* with no build alive to take them.                                       *)
THEOREM NeverStrandedInput == Spec => []NoStrandedInput
<1>1. Init => WakeUp
  BY DEF Init, WakeUp, IsCodeGenerating
<1>2. WakeUp => NoStrandedInput
  BY DEF WakeUp, NoStrandedInput, WillLook, Alive
<1> QED
  BY <1>1, <1>2, WakeUpStep, TypeCorrect, PTL DEF Spec

-----------------------------------------------------------------------------
(***************************************************************************)
(* The promise that isCodeGenerating() tests never outlives its build: the *)
(* build it stands for is alive until a step of that build clears it.      *)
(***************************************************************************)
LEMMA PromiseStep ==
  TypeOK /\ GeneratingMeansAlive /\ [Next]_vars => GeneratingMeansAlive'
<1> SUFFICES ASSUME TypeOK, GeneratingMeansAlive, [Next]_vars
             PROVE  GeneratingMeansAlive'
  OBVIOUS
<1> USE NoBuildAssumption DEF GeneratingMeansAlive, IsCodeGenerating, Alive
\* The build that starts is alive, and a step that keeps the promise and takes
\* no build from the living keeps the fact.
<1>1. ASSUME NEW b \in Builds, Start(b) PROVE GeneratingMeansAlive'
  BY <1>1 DEF Start, TypeOK
<1>2. ASSUME generationPromise' = generationPromise, Alive \subseteq Alive',
             templateFailed' = templateFailed
      PROVE  GeneratingMeansAlive'
  BY <1>2
<1>3. ASSUME generationPromise' = NoBuild PROVE GeneratingMeansAlive'
  BY <1>3
<1>4. CASE UNCHANGED generating /\ UNCHANGED templateFailed
  BY <1>2, <1>4 DEF generating
<1>5. CASE StartInitialGeneration
  BY <1>1, <1>4, <1>5 DEF StartInitialGeneration, GenerateAllFiles
<1>6. CASE GenerateAll
  <2>1. ASSUME NEW b \in Builds, build[b] = "idle",
               build' = [build EXCEPT ![b] = "finally"]
        PROVE  Alive \subseteq Alive'
    BY <2>1 DEF TypeOK
  <2> QED
    BY <1>1, <1>2, <1>4, <1>6, <2>1 DEF GenerateAll
<1>7. CASE ResumeGeneration
  BY <1>1, <1>4, <1>7 DEF ResumeGeneration, GenerateAllFiles
<1>8. CASE StopGeneration
  BY <1>4, <1>8 DEF StopGeneration
<1>9. ASSUME NEW i \in Inputs, ReceiveInput(i) \/ RejectInput(i) \/ QueueUserRequest(i)
      PROVE  GeneratingMeansAlive'
  BY <1>1, <1>4, <1>9 DEF ReceiveInput, RejectInput, QueueUserRequest, quietForInput
<1>10. ASSUME NEW b \in Builds, EnterLoop(b) PROVE GeneratingMeansAlive'
  <2>1. Alive \subseteq Alive'
    BY <1>10 DEF EnterLoop, StartIteration, LeaveLoop, TypeOK
  <2> QED
    BY <1>2, <1>10, <2>1 DEF EnterLoop
<1>11. ASSUME NEW b \in Builds, TemplateFails(b) PROVE GeneratingMeansAlive'
  BY <1>11 DEF TemplateFails
<1>12. ASSUME NEW b \in Builds, MarkGenerationComplete(b) PROVE GeneratingMeansAlive'
  BY <1>4, <1>12 DEF MarkGenerationComplete
<1>13. ASSUME NEW b \in Builds, InferenceReturns(b) PROVE GeneratingMeansAlive'
  <2>1. Alive \subseteq Alive'
    BY <1>13 DEF InferenceReturns, TypeOK
  <2> QED
    BY <1>2, <1>13, <2>1 DEF InferenceReturns
<1>14. ASSUME NEW b \in Builds, Compacted(b) \/ InferenceFails(b) \/ AppUpdated(b)
       PROVE  GeneratingMeansAlive'
  BY <1>3, <1>14 DEF Compacted, InferenceFails, AppUpdated
<1>15. ASSUME NEW b \in Builds, ClearIntent(b) PROVE GeneratingMeansAlive'
  <2>1. Alive \subseteq Alive'
    BY <1>15 DEF ClearIntent, TypeOK
  <2> QED
    BY <1>2, <1>15, <2>1 DEF ClearIntent, history
<1>16. CASE UNCHANGED vars
  BY <1>4, <1>16 DEF vars, generating, history
<1> QED
  BY <1>5, <1>6, <1>7, <1>8, <1>9, <1>10, <1>11, <1>12, <1>13, <1>14, <1>15, <1>16
  DEF Next, Client, Handler, BuildProgress

(* The agent never refuses to generate for want of a build that is gone,   *)
(* except after the await outside buildWrapper()'s try has rejected.       *)
THEOREM GeneratingAlwaysMeansAlive == Spec => []GeneratingMeansAlive
<1>1. Init => GeneratingMeansAlive
  BY DEF Init, GeneratingMeansAlive, IsCodeGenerating
<1> QED
  BY <1>1, PromiseStep, TypeCorrect, PTL DEF Spec

-----------------------------------------------------------------------------
(***************************************************************************)
(* STOP finds the signal of the inference that runs: as long as no two     *)
(* builds have been alive together, only the build itself replaces or      *)
(* drops the controller.                                                   *)
(***************************************************************************)
Stoppable ==
  ~overlapped =>
    /\ \A b, c \in Alive : b = c
    /\ \A b \in Builds :
         build[b] \in {"infer", "compact"} => b \in controller \cup aborted

LEMMA StoppableStep == TypeOK /\ Stoppable /\ [Next]_vars => Stoppable'
<1> SUFFICES ASSUME TypeOK, Stoppable, [Next]_vars PROVE Stoppable'
  OBVIOUS
<1> USE DEF Stoppable, Alive
\* A start with another build alive is an overlap.
<1>1. ASSUME NEW b \in Builds, Start(b), UNCHANGED <<controller, aborted>>
      PROVE  Stoppable'
  <2>1. CASE Alive # {}
    BY <1>1, <2>1 DEF Start
  <2>2. CASE Alive = {}
    <3>1. \A c \in Builds : c # b => build'[c] \in {"idle", "finally"}
      BY <1>1, <2>2 DEF Start, TypeOK
    <3>2. build'[b] = "template"
      BY <1>1 DEF Start, TypeOK
    <3> QED
      BY <3>1, <3>2
  <2> QED
    BY <2>1, <2>2
\* A step that brings no build to life, and no other build to an inference.
<1>2. ASSUME overlapped' = overlapped, Alive' \subseteq Alive,
             \A b \in Builds : build'[b] \in {"infer", "compact"}
                                => b \in controller' \cup aborted'
      PROVE  Stoppable'
  BY <1>2
<1>3. CASE UNCHANGED <<build, overlapped, controller, aborted>>
  BY <1>3
<1>4. CASE StartInitialGeneration
  BY <1>1, <1>3, <1>4 DEF StartInitialGeneration, GenerateAllFiles, generating
<1>5. CASE GenerateAll
  <2>1. ASSUME NEW b \in Builds, build[b] = "idle",
               build' = [build EXCEPT ![b] = "finally"],
               UNCHANGED <<overlapped, controller, aborted>>
        PROVE  Stoppable'
    <3>1. \A c \in Builds : build'[c] = build[c] \/ build'[c] = "finally"
      BY <2>1 DEF TypeOK
    <3> QED
      BY <2>1, <3>1
  <2> QED
    BY <1>1, <1>3, <1>5, <2>1 DEF GenerateAll, generating
<1>6. CASE ResumeGeneration
  BY <1>1, <1>3, <1>6 DEF ResumeGeneration, GenerateAllFiles, generating
<1>7. CASE StopGeneration
  BY <1>7 DEF StopGeneration, CancelCurrentInference, generating
<1>8. ASSUME NEW i \in Inputs, ReceiveInput(i) \/ RejectInput(i) \/ QueueUserRequest(i)
      PROVE  Stoppable'
  BY <1>1, <1>3, <1>8
  DEF ReceiveInput, RejectInput, QueueUserRequest, quietForInput, generating
\* The only build alive holds the signal it takes, or drops the controller.
<1>9. ASSUME NEW b \in Builds, b \in Alive, overlapped' = overlapped,
             \E held : StartIteration(b, held)
      PROVE  Stoppable'
  <2>1. build' = [build EXCEPT ![b] = "infer"] /\ b \in controller'
    BY <1>9 DEF StartIteration, TakeSignal
  <2>2. CASE overlapped
    BY <1>9, <2>2
  <2>3. CASE ~overlapped
    <3>1. \A c \in Builds : c # b => build'[c] \in {"idle", "finally"}
      BY <1>9, <2>1, <2>3 DEF TypeOK
    <3> QED
      BY <2>1, <3>1
  <2> QED
    BY <2>2, <2>3
<1>10. ASSUME NEW b \in Builds, b \in Alive, overlapped' = overlapped,
              build' = [build EXCEPT ![b] = "updating"]
       PROVE  Stoppable'
  <2>1. CASE overlapped
    BY <1>10, <2>1
  <2>2. CASE ~overlapped
    <3>1. \A c \in Builds : c # b => build'[c] \in {"idle", "finally"}
      BY <1>10, <2>2 DEF TypeOK
    <3>2. build'[b] = "updating"
      BY <1>10 DEF TypeOK
    <3> QED
      BY <3>1, <3>2
  <2> QED
    BY <2>1, <2>2
<1>11. ASSUME NEW b \in Builds, EnterLoop(b) \/ Compacted(b) PROVE Stoppable'
  <2>1. b \in Alive /\ overlapped' = overlapped
    BY <1>11 DEF EnterLoop, Compacted, quietInBuild
  <2>2. (\E held : StartIteration(b, held)) \/ LeaveLoop(b)
    BY <1>11 DEF EnterLoop, Compacted
  <2> QED
    BY <1>9, <1>10, <2>1, <2>2 DEF LeaveLoop
<1>12. ASSUME NEW b \in Builds, InferenceFails(b) PROVE Stoppable'
  BY <1>10, <1>12 DEF InferenceFails, quietInBuild
<1>13. ASSUME NEW b \in Builds, InferenceReturns(b) PROVE Stoppable'
  <2>1. /\ b \in Alive /\ overlapped' = overlapped
        /\ build' = [build EXCEPT ![b] = "compact"] /\ b \in controller'
    BY <1>13 DEF InferenceReturns, TakeSignal, quietInBuild
  <2>2. CASE overlapped
    BY <2>1, <2>2
  <2>3. CASE ~overlapped
    <3>1. \A c \in Builds : c # b => build'[c] \in {"idle", "finally"}
      BY <2>1, <2>3 DEF TypeOK
    <3> QED
      BY <2>1, <3>1
  <2> QED
    BY <2>2, <2>3
<1>14. ASSUME NEW b \in Builds, TemplateFails(b) \/ AppUpdated(b) \/ ClearIntent(b)
       PROVE  Stoppable'
  <2>1. \A c \in Builds : build'[c] = build[c] \/ build'[c] \in {"idle", "finally"}
    BY <1>14 DEF TemplateFails, AppUpdated, ClearIntent, Settle, TypeOK
  <2>2. UNCHANGED <<overlapped, controller, aborted>>
    BY <1>14 DEF TemplateFails, AppUpdated, ClearIntent, quietInBuild, history
  <2> QED
    BY <2>1, <2>2
<1>15. ASSUME NEW b \in Builds, MarkGenerationComplete(b) PROVE Stoppable'
  BY <1>3, <1>15 DEF MarkGenerationComplete, generating
<1>16. CASE UNCHANGED vars
  BY <1>3, <1>16 DEF vars, history
<1> QED
  BY <1>4, <1>5, <1>6, <1>7, <1>8, <1>11, <1>12, <1>13, <1>14, <1>15, <1>16
  DEF Next, Client, Handler, BuildProgress

(* While builds have not overlapped, STOP aborts the inference that runs.  *)
THEOREM InferenceAlwaysStoppable == Spec => []InferenceIsStoppable
<1>1. Init => Stoppable
  BY DEF Init, Stoppable, Alive
<1>2. Stoppable => InferenceIsStoppable
  BY DEF Stoppable, InferenceIsStoppable
<1> QED
  BY <1>1, <1>2, StoppableStep, TypeCorrect, PTL DEF Spec

-----------------------------------------------------------------------------
(***************************************************************************)
(* The builds and their queue implement the abstract request queue.  A     *)
(* step maps to Accept when an input is queued, to Serve when an iteration *)
(* takes what waits, and to a stutter otherwise.  That no request is       *)
(* accepted twice rests on where the input is: one that was accepted has   *)
(* been handled, and a handler handles only what it has received.          *)
(***************************************************************************)
Handled == \A n \in DOMAIN accepted : input[accepted[n]] = "handled"

LEMMA HandledStep == TypeOK /\ Handled /\ [Next]_vars => Handled'
<1> SUFFICES ASSUME TypeOK, Handled, [Next]_vars PROVE Handled'
  OBVIOUS
<1> USE DEF Handled
<1>0. \A n \in DOMAIN accepted : accepted[n] \in Inputs
  BY DEF TypeOK
\* An input that moves was not handled yet, so it is none of the accepted.
<1>1. ASSUME NEW i \in Inputs, input[i] # "handled", accepted' = accepted,
             NEW to, input' = [input EXCEPT ![i] = to]
      PROVE  Handled'
  BY <1>0, <1>1 DEF TypeOK
<1>2. ASSUME NEW i \in Inputs, ReceiveInput(i) \/ RejectInput(i) PROVE Handled'
  BY <1>1, <1>2 DEF ReceiveInput, RejectInput
<1>3. ASSUME NEW i \in Inputs, QueueUserRequest(i) PROVE Handled'
  <2>1. /\ accepted' = Append(accepted, i) /\ accepted \in Seq(Inputs)
        /\ input' = [input EXCEPT ![i] = "handled"]
    BY <1>3 DEF QueueUserRequest, TypeOK
  <2>2. ASSUME NEW n \in DOMAIN accepted' PROVE input'[accepted'[n]] = "handled"
    <3>1. CASE n \in DOMAIN accepted
      <4>1. accepted'[n] = accepted[n]
        BY <2>1, <3>1
      <4> QED
        BY <1>0, <2>1, <3>1, <4>1 DEF TypeOK
    <3>2. CASE n \notin DOMAIN accepted
      <4>1. accepted'[n] = i
        BY <2>1, <2>2, <3>2
      <4> QED
        BY <2>1, <4>1 DEF TypeOK
    <3> QED
      BY <3>1, <3>2
  <2> QED
    BY <2>2
<1>4. CASE UNCHANGED <<input, accepted>>
  BY <1>4
<1>5. CASE StartInitialGeneration \/ GenerateAll \/ ResumeGeneration \/ StopGeneration
  BY <1>4, <1>5 DEF StartInitialGeneration, GenerateAll, ResumeGeneration, StopGeneration
<1>6. ASSUME NEW b \in Builds, BuildProgress(b) \/ MarkGenerationComplete(b)
      PROVE  Handled'
  BY <1>4, <1>6
  DEF BuildProgress, EnterLoop, TemplateFails, InferenceReturns, InferenceFails,
      Compacted, AppUpdated, ClearIntent, MarkGenerationComplete, quietInBuild, history
<1>7. CASE UNCHANGED vars
  BY <1>4, <1>7 DEF vars, history
<1> QED
  BY <1>2, <1>3, <1>5, <1>6, <1>7 DEF Next, Client, Handler

(* What occurs in two queues that are joined. *)
LEMMA OccursFacts ==
  ASSUME NEW s \in Seq(Inputs), NEW t \in Seq(Inputs), NEW i
  PROVE  Queue!Occurs(i, s) \/ Queue!Occurs(i, t) => Queue!Occurs(i, s \o t)
<1>1. /\ s \o t \in Seq(Inputs) /\ Len(s \o t) = Len(s) + Len(t)
      /\ \A n \in 1..Len(s) : (s \o t)[n] = s[n]
      /\ \A n \in 1..Len(t) : (s \o t)[Len(s) + n] = t[n]
  BY ConcatProperties
<1>2. ASSUME NEW n \in DOMAIN s, s[n] = i PROVE Queue!Occurs(i, s \o t)
  BY <1>1, <1>2 DEF Queue!Occurs
<1>3. ASSUME NEW n \in DOMAIN t, t[n] = i PROVE Queue!Occurs(i, s \o t)
  <2>1. /\ Len(s) + n \in DOMAIN (s \o t) /\ (s \o t)[Len(s) + n] = i
    BY <1>1, <1>3
  <2> QED
    BY <2>1 DEF Queue!Occurs
<1> QED
  BY <1>2, <1>3 DEF Queue!Occurs

(* Queueing what does not occur keeps a queue free of repetitions. *)
LEMMA AppendOnce ==
  ASSUME NEW s \in Seq(Inputs), NEW i \in Inputs,
         Queue!NoRepeats(s), ~Queue!Occurs(i, s)
  PROVE  Queue!NoRepeats(Append(s, i))
<1>1. /\ Len(Append(s, i)) = Len(s) + 1 /\ Append(s, i)[Len(s) + 1] = i
      /\ \A n \in 1..Len(s) : Append(s, i)[n] = s[n]
      /\ DOMAIN Append(s, i) = 1..(Len(s) + 1) /\ DOMAIN s = 1..Len(s)
  BY AppendProperties
<1>2. \A n \in 1..Len(s) : s[n] # i
  BY <1>1 DEF Queue!Occurs
<1> QED
  BY <1>1, <1>2 DEF Queue!NoRepeats

\* A queue of at most one input has no repetitions.
LEMMA QueueInitial == Init => Queue!Init
<1> SUFFICES ASSUME Init PROVE Queue!Init
  OBVIOUS
<1>1. pendingUserInputs \in {<<>>} \cup {<<i>> : i \in Inputs}
  <2>1. CASE InitFresh
    BY <2>1 DEF InitFresh
  <2>2. CASE InitRestored
    BY <2>2, Zenon DEF InitRestored
  <2> QED
    BY <2>1, <2>2 DEF Init
<1>2. Queue!NoRepeats(pendingUserInputs)
  <2>1. CASE pendingUserInputs = <<>>
    BY <2>1 DEF Queue!NoRepeats
  <2>2. ASSUME NEW i \in Inputs, pendingUserInputs = <<i>>
        PROVE  Queue!NoRepeats(pendingUserInputs)
    BY <2>2 DEF Queue!NoRepeats
  <2> QED
    BY <1>1, <2>1, <2>2
<1>3. pendingUserInputs \in Seq(Inputs) /\ delivered = <<>>
  BY TypeInitial DEF TypeOK, Init
<1> QED
  BY <1>2, <1>3 DEF Queue!Init

LEMMA QueueStep ==
  TypeOK /\ InputsConserved /\ Handled /\ [Next]_vars => [Queue!Next]_(Queue!vars)
<1> SUFFICES ASSUME TypeOK, InputsConserved, Handled, [Next]_vars
             PROVE  [Queue!Next]_(Queue!vars)
  OBVIOUS
<1>1. ASSUME NEW i \in Inputs, QueueUserRequest(i) PROVE Queue!Accept
  <2>1. ~Queue!Occurs(i, accepted)
    BY <1>1 DEF QueueUserRequest, Handled, Queue!Occurs
  <2>2. ~Queue!Occurs(i, delivered) /\ ~Queue!Occurs(i, pendingUserInputs)
    BY <2>1, OccursFacts DEF InputsConserved, TypeOK
  <2>3. pendingUserInputs' = Append(pendingUserInputs, i) /\ delivered' = delivered
    BY <1>1 DEF QueueUserRequest, quietForInput
  <2> QED
    BY <2>2, <2>3 DEF Queue!Accept
<1>2. CASE UNCHANGED <<pendingUserInputs, delivered>>
  BY <1>2 DEF Queue!vars
<1>3. ASSUME NEW b \in Builds, NEW held, StartIteration(b, held)
      PROVE  [Queue!Next]_(Queue!vars)
  <2>1. delivered' = delivered \o pendingUserInputs /\ pendingUserInputs' = <<>>
    BY <1>3 DEF StartIteration
  <2>2. CASE pendingUserInputs = <<>>
    BY <1>2, <2>1, <2>2, ConcatEmptySeq DEF TypeOK
  <2>3. CASE pendingUserInputs # <<>>
    BY <2>1, <2>3 DEF Queue!Serve, Queue!Next
  <2> QED
    BY <2>2, <2>3
<1>4. ASSUME NEW b \in Builds, EnterLoop(b) \/ Compacted(b)
      PROVE  [Queue!Next]_(Queue!vars)
  BY <1>2, <1>3, <1>4 DEF EnterLoop, Compacted, LeaveLoop
<1>5. CASE StartInitialGeneration \/ Client
  BY <1>2, <1>5
  DEF Client, StartInitialGeneration, GenerateAll, ResumeGeneration,
      StopGeneration, ReceiveInput, quietForInput
<1>6. ASSUME NEW i \in Inputs, RejectInput(i) PROVE [Queue!Next]_(Queue!vars)
  BY <1>2, <1>6 DEF RejectInput, quietForInput
<1>7. ASSUME NEW b \in Builds,
             \/ TemplateFails(b) \/ MarkGenerationComplete(b)
             \/ InferenceReturns(b) \/ InferenceFails(b)
             \/ AppUpdated(b) \/ ClearIntent(b)
      PROVE  [Queue!Next]_(Queue!vars)
  BY <1>2, <1>7
  DEF TemplateFails, MarkGenerationComplete, InferenceReturns, InferenceFails,
      AppUpdated, ClearIntent, quietInBuild, history
<1>8. CASE UNCHANGED vars
  BY <1>2, <1>8 DEF vars, persisted, history
<1> QED
  BY <1>1, <1>4, <1>5, <1>6, <1>7, <1>8 DEF Next, Handler, BuildProgress, Queue!Next

LEMMA HandledAlways == Spec => []Handled
<1>1. Init => Handled
  <2> SUFFICES ASSUME Init, NEW n \in DOMAIN accepted
               PROVE  input[accepted[n]] = "handled"
    BY DEF Handled
  <2>1. accepted = pendingUserInputs
    BY DEF Init
  <2>2. ~InitFresh
    BY <2>1 DEF InitFresh
  <2>3. PICK left \in {<<>>} \cup {<<i>> : i \in Inputs} :
          /\ pendingUserInputs = left
          /\ input = [i \in Inputs |-> IF left = <<i>> THEN "handled" ELSE "unsent"]
    BY <2>2, Zenon DEF Init, InitRestored
  <2>4. PICK i \in Inputs : left = <<i>>
    BY <2>1, <2>3
  <2>5. accepted[n] = i
    BY <2>1, <2>3, <2>4
  <2> QED
    BY <2>3, <2>4, <2>5
<1> QED
  BY <1>1, HandledStep, TypeCorrect, PTL DEF Spec

(* The agentic behavior implements the request queue. *)
THEOREM Refinement == Spec => IsRequestQueue
<1> QED
  BY QueueInitial, QueueStep, TypeCorrect, InputsAlwaysConserved, HandledAlways, PTL
  DEF Spec, IsRequestQueue, Queue!Spec

(* Of a request queue, and therefore of the builds: nothing that was taken *)
(* up is taken up again.                                                   *)
Unrepeated ==
  /\ delivered \in Seq(Inputs) /\ pendingUserInputs \in Seq(Inputs)
  /\ Queue!NoRepeats(delivered \o pendingUserInputs)

LEMMA UnrepeatedStep == Unrepeated /\ [Queue!Next]_(Queue!vars) => Unrepeated'
<1> SUFFICES ASSUME Unrepeated, [Queue!Next]_(Queue!vars) PROVE Unrepeated'
  OBVIOUS
<1> USE DEF Unrepeated
<1>1. CASE Queue!Accept
  <2>1. PICK i \in Inputs :
          /\ ~Queue!Occurs(i, pendingUserInputs) /\ ~Queue!Occurs(i, delivered)
          /\ pendingUserInputs' = Append(pendingUserInputs, i)
    BY <1>1 DEF Queue!Accept
  <2>2. delivered' = delivered
    BY <1>1 DEF Queue!Accept
  <2>3. ~Queue!Occurs(i, delivered \o pendingUserInputs)
    <3>1. ASSUME NEW n \in 1..(Len(delivered) + Len(pendingUserInputs))
          PROVE  (delivered \o pendingUserInputs)[n] # i
      <4>1. CASE n <= Len(delivered)
        BY <2>1, <4>1, ConcatProperties DEF Queue!Occurs
      <4>2. CASE n > Len(delivered)
        <5>1. n - Len(delivered) \in DOMAIN pendingUserInputs
          BY <4>2
        <5>2. (delivered \o pendingUserInputs)[n] = pendingUserInputs[n - Len(delivered)]
          BY <4>2, ConcatProperties
        <5> QED
          BY <2>1, <5>1, <5>2 DEF Queue!Occurs
      <4> QED
        BY <4>1, <4>2
    <3> QED
      BY <3>1, ConcatProperties DEF Queue!Occurs
  <2>4. delivered' \o pendingUserInputs' = Append(delivered \o pendingUserInputs, i)
    BY <2>1, <2>2, QueueFacts
  <2>5. delivered \o pendingUserInputs \in Seq(Inputs)
    BY QueueFacts
  <2>6. Queue!NoRepeats(delivered' \o pendingUserInputs')
    BY <2>3, <2>4, <2>5, AppendOnce
  <2>7. delivered' \in Seq(Inputs) /\ pendingUserInputs' \in Seq(Inputs)
    BY <2>1, <2>2, QueueFacts
  <2> QED
    BY <2>6, <2>7 DEF Queue!NoRepeats
<1>2. CASE Queue!Serve
  <2>1. /\ delivered' = delivered \o pendingUserInputs /\ pendingUserInputs' = <<>>
        /\ delivered \o pendingUserInputs \in Seq(Inputs) /\ <<>> \in Seq(Inputs)
    BY <1>2, ConcatProperties, EmptySeq DEF Queue!Serve
  <2>2. delivered' \o pendingUserInputs' = delivered \o pendingUserInputs
    BY <2>1, ConcatEmptySeq
  <2> QED
    BY <2>1, <2>2 DEF Queue!NoRepeats
<1>3. CASE UNCHANGED Queue!vars
  BY <1>3 DEF Queue!vars, Queue!NoRepeats
<1> QED
  BY <1>1, <1>2, <1>3 DEF Queue!Next

(* No input is taken by a build twice, nor by two builds. *)
THEOREM EachServedOnce == Spec => []Queue!ServedOnce
<1>1. Queue!Init => Unrepeated
  <2> SUFFICES ASSUME Queue!Init PROVE Unrepeated
    OBVIOUS
  <2>1. delivered = <<>> /\ pendingUserInputs \in Seq(Inputs)
    BY DEF Queue!Init
  <2>2. delivered \o pendingUserInputs = pendingUserInputs
    BY <2>1, ConcatEmptySeq
  <2> QED
    BY <2>1, <2>2, EmptySeq DEF Queue!Init, Unrepeated
<1>2. Unrepeated => Queue!ServedOnce
  <2> SUFFICES ASSUME Unrepeated PROVE Queue!ServedOnce
    OBVIOUS
  <2>1. \A n \in DOMAIN delivered :
          /\ n \in DOMAIN (delivered \o pendingUserInputs)
          /\ (delivered \o pendingUserInputs)[n] = delivered[n]
    BY ConcatProperties DEF Unrepeated
  <2> QED
    BY <2>1 DEF Unrepeated, Queue!NoRepeats, Queue!ServedOnce
<1> QED
  BY <1>1, <1>2, UnrepeatedStep, Refinement, PTL DEF IsRequestQueue, Queue!Spec

=============================================================================
