---------------------------- MODULE AgenticBuild ----------------------------
(***************************************************************************)
(* The life of a generation in one agent process whose behavior is         *)
(* `agentic`: the websocket commands that start, resume and stop it, the   *)
(* user inputs queued for it, and the build loop itself.                   *)
(*                                                                         *)
(* The process is one JavaScript event loop, so an action is the code      *)
(* from one await on the outside world (an inference, the database, an     *)
(* upload, the template store) to the next; awaits on promises the process *)
(* has already settled only continue the running turn of the loop.         *)
(*                                                                         *)
(* A member of Builds is one call of buildWrapper() that has not settled.  *)
(* A slot is used again when its call has settled, so Builds bounds how    *)
(* many are alive at once and not how many are ever started.               *)
(***************************************************************************)
EXTENDS Naturals, Sequences, FiniteSets

CONSTANTS
  Builds,      \* slots for buildWrapper() calls that are alive together
  Inputs,      \* user inputs, each sent by the client at most once
  NoBuild      \* generationPromise === null

ASSUME NoBuildAssumption == NoBuild \notin Builds

VARIABLES
  mvpGenerated,        \* state.mvpGenerated
  pendingUserInputs,   \* state.pendingUserInputs
  shouldBeGenerating,  \* state.shouldBeGenerating
  generationPromise,   \* the build it stands for, or NoBuild
  controller,          \* calls that hold the signal of currentAbortController
  aborted,             \* calls whose signal has been aborted
  templateLoaded,      \* templateDetailsCache is set
  build,               \* where each build is
  clearsIntent,        \* builds that GENERATE_ALL's .finally() waits for
  input,               \* where each user input is
  booted,              \* selectBehavior has returned
  \* history: what the properties compare the state with
  accepted,            \* inputs in the order queueUserRequest took them
  delivered,           \* inputs in the order a build took them
  interrupted,         \* a build threw (or the process died) since the last take
  templateFailed,      \* ensureTemplateDetails() has rejected in a build
  overlapped           \* two builds have been alive together

persisted == <<mvpGenerated, pendingUserInputs, shouldBeGenerating>>
history   == <<accepted, delivered, interrupted, templateFailed, overlapped>>
vars == <<persisted, generationPromise, controller, aborted, templateLoaded,
          build, clearsIntent, input, booted, history>>

BuildStep == {"idle", "template", "infer", "compact", "updating", "finally"}
InputStep == {"unsent", "received", "handled", "rejected"}

\* Calls of buildWrapper() that have not settled.
Alive == {b \in Builds : build[b] \notin {"idle", "finally"}}

\* base.ts isCodeGenerating()
IsCodeGenerating == generationPromise # NoBuild

\* Mutant: the queue is not looked at, only whether the project is complete.
NothingToDoButQueued == mvpGenerated

\* The first test of generateAllFiles(), and the exit test of build()'s loop.
NothingToDo == mvpGenerated /\ pendingUserInputs = <<>>

-----------------------------------------------------------------------------
(* A fresh session is about to auto-start its first generation; a session  *)
(* restored from its row may hold inputs that no build is working on.      *)
InitFresh ==
  /\ booted = FALSE /\ templateLoaded = TRUE
  /\ mvpGenerated = FALSE /\ shouldBeGenerating = FALSE
  /\ pendingUserInputs = <<>>
  /\ input = [i \in Inputs |-> "unsent"]

InitRestored ==
  /\ booted = TRUE /\ templateLoaded = FALSE
  /\ mvpGenerated \in BOOLEAN /\ shouldBeGenerating \in BOOLEAN
  /\ \E left \in {<<>>} \cup {<<i>> : i \in Inputs} :
       /\ pendingUserInputs = left
       /\ input = [i \in Inputs |-> IF left = <<i>> THEN "handled" ELSE "unsent"]

Init ==
  /\ InitFresh \/ InitRestored
  /\ generationPromise = NoBuild
  /\ controller = {} /\ aborted = {} /\ clearsIntent = {}
  /\ build = [b \in Builds |-> "idle"]
  /\ accepted = pendingUserInputs /\ delivered = <<>>
  /\ interrupted = (pendingUserInputs # <<>>)
  /\ templateFailed = FALSE /\ overlapped = FALSE

-----------------------------------------------------------------------------
(* generateAllFiles(), past its two guards: buildWrapper() runs as far as  *)
(* `await ensureTemplateDetails()`.                                        *)
Start(b) ==
  /\ build[b] = "idle"
  /\ build' = [build EXCEPT ![b] = "template"]
  /\ generationPromise' = b
  /\ overlapped' = (overlapped \/ Alive # {})

generating == <<generationPromise, build, overlapped>>

\* generateAllFiles() called by a command that does not wait for the result.
GenerateAllFiles ==
  \/ (NothingToDo \/ IsCodeGenerating) /\ UNCHANGED generating
  \/ ~NothingToDo /\ ~IsCodeGenerating /\ \E b \in Builds : Start(b)

\* standaloneAgent.ts startInitialGeneration(), the end of a fresh boot.
StartInitialGeneration ==
  /\ ~booted
  /\ booted' = TRUE
  /\ shouldBeGenerating' = TRUE
  /\ GenerateAllFiles
  /\ UNCHANGED <<mvpGenerated, pendingUserInputs, controller, aborted,
                 templateLoaded, clearsIntent, input, accepted, delivered,
                 interrupted, templateFailed>>

\* websocket GENERATE_ALL: a promise that returns early settles at once, and
\* its .finally() runs all the same.
GenerateAll ==
  /\ booted
  /\ shouldBeGenerating' = TRUE
  /\ \/ IsCodeGenerating /\ UNCHANGED <<generating, clearsIntent>>
     \/ /\ ~IsCodeGenerating
        /\ \E b \in Builds :
             /\ clearsIntent' = clearsIntent \cup {b}
             /\ \/ ~NothingToDo /\ Start(b)
                \/ /\ NothingToDo /\ build[b] = "idle"
                   /\ build' = [build EXCEPT ![b] = "finally"]
                   /\ UNCHANGED <<generationPromise, overlapped>>
  /\ UNCHANGED <<mvpGenerated, pendingUserInputs, controller, aborted,
                 templateLoaded, input, booted, accepted, delivered,
                 interrupted, templateFailed>>

\* websocket RESUME_GENERATION: as GENERATE_ALL, with no .finally().
ResumeGeneration ==
  /\ booted
  /\ shouldBeGenerating' = TRUE
  /\ \/ IsCodeGenerating /\ UNCHANGED generating
     \/ ~IsCodeGenerating /\ GenerateAllFiles
  /\ UNCHANGED <<mvpGenerated, pendingUserInputs, controller, aborted,
                 templateLoaded, clearsIntent, input, booted, accepted,
                 delivered, interrupted, templateFailed>>

\* cancelCurrentInference(): only calls that hold the current signal notice.
CancelCurrentInference ==
  /\ aborted' = aborted \cup controller
  /\ controller' = {}

\* websocket STOP_GENERATION
StopGeneration ==
  /\ booted
  /\ CancelCurrentInference
  /\ shouldBeGenerating' = FALSE
  /\ UNCHANGED <<mvpGenerated, pendingUserInputs, generating, templateLoaded,
                 clearsIntent, input, booted, accepted, delivered,
                 interrupted, templateFailed>>

-----------------------------------------------------------------------------
(* USER_SUGGESTION: the usage check and the image uploads are awaited, so  *)
(* inputs may be queued in another order than they were sent.              *)
quietForInput == <<mvpGenerated, shouldBeGenerating, controller, aborted,
                   templateLoaded, clearsIntent, booted, delivered,
                   interrupted, templateFailed>>

ReceiveInput(i) ==
  /\ booted /\ input[i] = "unsent"
  /\ input' = [input EXCEPT ![i] = "received"]
  /\ UNCHANGED <<quietForInput, pendingUserInputs, accepted, generating>>

\* Over the usage limit, the check failed, or an upload did.
RejectInput(i) ==
  /\ input[i] = "received"
  /\ input' = [input EXCEPT ![i] = "rejected"]
  /\ UNCHANGED <<quietForInput, pendingUserInputs, accepted, generating>>

\* Mutant: the list itself becomes an element, `[pendingUserInputs, request]`.
QueueUserRequestNested(i) ==
  /\ input[i] = "received"
  /\ input' = [input EXCEPT ![i] = "handled"]
  /\ pendingUserInputs' = <<pendingUserInputs, i>>
  /\ accepted' = Append(accepted, i)
  /\ \/ IsCodeGenerating /\ UNCHANGED generating
     \/ ~IsCodeGenerating /\ \E b \in Builds : Start(b)
  /\ UNCHANGED quietForInput

\* Mutant: the handler leaves the start of a build to the client.
QueueUserRequestOnly(i) ==
  /\ input[i] = "received"
  /\ input' = [input EXCEPT ![i] = "handled"]
  /\ pendingUserInputs' = Append(pendingUserInputs, i)
  /\ accepted' = Append(accepted, i)
  /\ UNCHANGED <<quietForInput, generating>>

\* agentic.ts handleUserInput() queues the request, and standaloneAgent.ts
\* handleUserInput() starts a build when it returns and none is running.
QueueUserRequest(i) ==
  /\ input[i] = "received"
  /\ input' = [input EXCEPT ![i] = "handled"]
  /\ pendingUserInputs' = Append(pendingUserInputs, i)
  /\ accepted' = Append(accepted, i)
  /\ \/ IsCodeGenerating /\ UNCHANGED generating
     \/ ~IsCodeGenerating /\ \E b \in Builds : Start(b)
  /\ UNCHANGED quietForInput

-----------------------------------------------------------------------------
(* buildWrapper(), build() and executeGeneration() of one build.           *)

\* Mutant: a controller is made for the call and never stored.
TakeSignalUnshared(b, held) == controller' = held /\ aborted' = aborted \ {b}

\* getOrCreateAbortController(): the call joins those that hold the current
\* controller's signal, `held`; with none it gets a new controller.
TakeSignal(b, held) == controller' = held \cup {b} /\ aborted' = aborted \ {b}

\* Mutant: fetchPendingUserRequests() does not empty the queue.
StartIterationKeepingQueue(b, held) ==
  /\ ~NothingToDo
  /\ build' = [build EXCEPT ![b] = "infer"]
  /\ TakeSignal(b, held)
  /\ delivered' = delivered \o pendingUserInputs
  /\ interrupted' = FALSE
  /\ Len(delivered') <= 4     \* bound of the mutant's state space
  /\ UNCHANGED pendingUserInputs

\* executeGeneration() up to the first await of operation.execute().
StartIteration(b, held) ==
  /\ ~NothingToDo
  /\ build' = [build EXCEPT ![b] = "infer"]
  /\ TakeSignal(b, held)
  /\ delivered' = delivered \o pendingUserInputs
  /\ pendingUserInputs' = <<>>
  /\ interrupted' = FALSE

\* build() returns; the finally block clears the controller and awaits
\* updateApp().
LeaveLoop(b) ==
  /\ NothingToDo
  /\ build' = [build EXCEPT ![b] = "updating"]
  /\ controller' = {}
  /\ UNCHANGED <<aborted, delivered, pendingUserInputs, interrupted>>

quietInBuild == <<mvpGenerated, shouldBeGenerating, clearsIntent, input, booted,
                  accepted, overlapped>>

EnterLoop(b) ==
  /\ build[b] = "template"
  /\ templateLoaded' = TRUE
  /\ StartIteration(b, controller) \/ LeaveLoop(b)
  /\ UNCHANGED <<quietInBuild, generationPromise, templateFailed>>

\* The promise of buildWrapper() settles and its caller's .finally() is due.
Settle(b) ==
  build' = [build EXCEPT ![b] = IF b \in clearsIntent THEN "finally" ELSE "idle"]

\* ensureTemplateDetails() is awaited outside the try: generationPromise stays.
TemplateFails(b) ==
  /\ build[b] = "template" /\ ~templateLoaded
  /\ Settle(b)
  /\ templateFailed' = TRUE
  /\ UNCHANGED <<quietInBuild, generationPromise, controller, aborted,
                 templateLoaded, delivered, pendingUserInputs, interrupted>>

\* The tool mark_generation_complete calls setMVPGenerated().
MarkGenerationComplete(b) ==
  /\ build[b] = "infer"
  /\ mvpGenerated' = TRUE
  /\ UNCHANGED <<pendingUserInputs, shouldBeGenerating, generating, controller,
                 aborted, templateLoaded, clearsIntent, input, booted,
                 accepted, delivered, interrupted, templateFailed>>

\* The operation returns, also when onToolComplete broke the tool chain off
\* because inputs are queued; compactifyIfNeeded() then takes a signal.
InferenceReturns(b) ==
  /\ build[b] = "infer"
  /\ build' = [build EXCEPT ![b] = "compact"]
  /\ TakeSignal(b, controller)
  /\ UNCHANGED <<quietInBuild, generationPromise, templateLoaded,
                 templateFailed, delivered, pendingUserInputs, interrupted>>

\* compactifyContext() swallows its errors, the abort of its call included.
\* executeGeneration()'s finally block then clears the promise and the
\* controller although build()'s loop goes on.
Compacted(b) ==
  /\ build[b] = "compact"
  /\ generationPromise' = NoBuild
  /\ StartIteration(b, {}) \/ LeaveLoop(b)
  /\ UNCHANGED <<quietInBuild, templateLoaded, templateFailed>>

\* The operation throws: cancelled, or the inference failed.  The error goes
\* through the same finally block to buildWrapper(), which reports it.
InferenceFails(b) ==
  /\ build[b] = "infer"
  /\ build' = [build EXCEPT ![b] = "updating"]
  /\ generationPromise' = NoBuild
  /\ controller' = {}
  /\ interrupted' = TRUE
  /\ UNCHANGED <<quietInBuild, aborted, templateLoaded, templateFailed,
                 delivered, pendingUserInputs>>

\* Mutant: the promise is left for executeGeneration()'s finally to clear.
AppUpdatedKeepingPromise(b) ==
  /\ build[b] = "updating"
  /\ Settle(b)
  /\ UNCHANGED <<quietInBuild, generationPromise, controller, aborted,
                 templateLoaded, templateFailed, delivered, pendingUserInputs,
                 interrupted>>

AppUpdated(b) ==
  /\ build[b] = "updating"
  /\ generationPromise' = NoBuild
  /\ Settle(b)
  /\ UNCHANGED <<quietInBuild, controller, aborted, templateLoaded,
                 templateFailed, delivered, pendingUserInputs, interrupted>>

\* GENERATE_ALL's .finally()
ClearIntent(b) ==
  /\ build[b] = "finally"
  /\ build' = [build EXCEPT ![b] = "idle"]
  /\ clearsIntent' = clearsIntent \ {b}
  /\ shouldBeGenerating' = (shouldBeGenerating /\ IsCodeGenerating)
  /\ UNCHANGED <<mvpGenerated, pendingUserInputs, generationPromise, controller,
                 aborted, templateLoaded, input, booted, history>>

-----------------------------------------------------------------------------
Client ==
  \/ GenerateAll \/ ResumeGeneration \/ StopGeneration
  \/ \E i \in Inputs : ReceiveInput(i)

Handler(i) == RejectInput(i) \/ QueueUserRequest(i)

BuildProgress(b) ==
  \/ EnterLoop(b) \/ TemplateFails(b)
  \/ InferenceReturns(b) \/ InferenceFails(b) \/ Compacted(b)
  \/ AppUpdated(b) \/ ClearIntent(b)

Next ==
  \/ StartInitialGeneration
  \/ Client
  \/ \E i \in Inputs : Handler(i)
  \/ \E b \in Builds : BuildProgress(b) \/ MarkGenerationComplete(b)

(* The requests that are awaited are assumed to be answered or to fail,    *)
(* and the event loop runs what is due.  The client owes nothing, and the  *)
(* language model need not ever mark the project complete.                 *)
Fairness ==
  /\ WF_vars(StartInitialGeneration)
  /\ \A i \in Inputs : WF_vars(Handler(i))
  /\ \A b \in Builds : WF_vars(BuildProgress(b))

Spec == Init /\ [][Next]_vars /\ Fairness

-----------------------------------------------------------------------------
TypeOK ==
  /\ mvpGenerated \in BOOLEAN /\ shouldBeGenerating \in BOOLEAN
  /\ pendingUserInputs \in Seq(Inputs)
  /\ generationPromise \in Builds \cup {NoBuild}
  /\ controller \subseteq Builds /\ aborted \subseteq Builds
  /\ clearsIntent \subseteq Builds
  /\ templateLoaded \in BOOLEAN /\ booted \in BOOLEAN
  /\ build \in [Builds -> BuildStep]
  /\ input \in [Inputs -> InputStep]
  /\ accepted \in Seq(Inputs) /\ delivered \in Seq(Inputs)
  /\ interrupted \in BOOLEAN /\ templateFailed \in BOOLEAN
  /\ overlapped \in BOOLEAN

(* No user input is lost, taken twice or taken out of turn, however many   *)
(* builds take from the queue: what builds have taken, followed by what    *)
(* is queued, is what queueUserRequest accepted.                           *)
InputsConserved == accepted = delivered \o pendingUserInputs

Queue == INSTANCE RequestQueue
  WITH Requests <- Inputs, waiting <- pendingUserInputs, served <- delivered

(* To the user the queue and the builds that come and go are a request     *)
(* queue: an input is accepted once, taken up once, and in its turn.       *)
IsRequestQueue == Queue!Spec

(* No lost wake-up: an input left in the queue with no build alive was     *)
(* left there by an error (of a build, or of the template lookup), never   *)
(* by a handler that found generation running while its loop had already   *)
(* decided to stop.                                                        *)
NoStrandedInput ==
  pendingUserInputs # <<>> /\ Alive = {} => interrupted \/ templateFailed

(* isCodeGenerating() answers true only while a build is alive: otherwise  *)
(* the agent would refuse to generate for ever.  The one exception is the  *)
(* await outside buildWrapper()'s try.                                     *)
GeneratingMeansAlive ==
  IsCodeGenerating => generationPromise \in Alive \/ templateFailed

(* STOP reaches the running inference: its signal is the current           *)
(* controller's, or already aborted, unless two builds have overlapped     *)
(* and one cleared the controller of the other.                            *)
InferenceIsStoppable ==
  ~overlapped =>
    \A b \in Builds :
      build[b] \in {"infer", "compact"} => b \in controller \cup aborted

(* startInitialGeneration's comment: the isCodeGenerating() guard lets no  *)
(* second generation start, so at most one build() is generating.          *)
AtMostOneBuild ==
  Cardinality({b \in Builds : build[b] \in {"infer", "compact"}}) <= 1

(* A queued input is taken by a build in the end, or an error left it for  *)
(* the next command of the client.                                         *)
InputTaken ==
  \A i \in Inputs :
    (\E k \in DOMAIN pendingUserInputs : pendingUserInputs[k] = i)
      ~> \/ interrupted \/ templateFailed
         \/ \E k \in DOMAIN delivered : delivered[k] = i

=============================================================================
