# Formal models of the Supervibe agent runtime

Supervibe turns a prompt into a running application. A *session* is one agent
process (`agent-runtime/`) that hosts the coding behaviors of `worker/agents/`,
talks to the browser over a Realtime channel, keeps its state and conversation
in Postgres and builds in a sandbox. This directory holds TLA+ models of the
parts of that process whose correctness depends on the order in which things
happen, the TLC configurations that check them, and TLAPS proofs of the
invariants for all values of the constants.

All paths below are relative to the repository. (Its front end is a directory
`src` of the repository, which `PROJECT.json` names `src/src/`.)

## 1. The system

| Component | State it keeps | Operations | Talks to |
|---|---|---|---|
| Agentic build (`behaviors/agentic.ts`) | input queue, `mvpGenerated`, `generationPromise`, `currentAbortController` | `handleUserInput`, `build`, `executeGeneration`, `compactifyIfNeeded` | base behavior, conversation, inference, tools |
| Phasic build (`behaviors/phasic.ts`) | phases, `phasesCounter`, `reviewingInitiated` | the phase machine: plan, implement, finalize, review | base behavior, deployment, inference |
| Base behavior (`behaviors/base.ts`) | promise, abort controller, template cache | `generateAllFiles`, `buildWrapper`, `cancelCurrentInference`, `queueUserRequest` | all of them |
| Websocket commands (`core/websocket.ts`) | none | GENERATE_ALL, RESUME, STOP, USER_SUGGESTION, CLEAR_CONVERSATION, ... | behavior, agent |
| Standalone agent (`agent-runtime/src/standaloneAgent.ts`) | `_state`, `conversationCache` | `boot`, `setState`, conversation methods, `shutdown` | both stores, behavior |
| State store (`agent-runtime/src/stateStore.ts`) | `pending`, `timer`, `inflight`; the row in `agent_state` | `load`, `persist`, `flush` | Postgres |
| Conversation store (`agent-runtime/src/conversationStore.ts`) | rows of `agent_conversations` | `loadAll`, `replaceAll`, `clear` | Postgres |
| Runtime entry (`agent-runtime/src/main.ts`) | pre-boot message buffer | boot, drain, signals | transport, agent |
| Realtime transport (`agent-runtime/src/transport.ts`) | the joined channel | `ready`, `broadcast`, delivery to `onClientMessage` | Supabase Realtime |
| Agent API (`worker/api/controllers/agent`, `services/sandbox/agentSandboxBoot.ts`) | the session's row with its `init_args` | `startCodeGeneration`, `connectToAgent`, `bootAgentSandbox` | Postgres, sandbox host |
| Deployment manager (`services/implementations/DeploymentManager.ts`) | deployment promise, recorded instance, health-check interval | `deployToSandbox`, `executeDeploymentWithRetry`, `ensureInstance` | sandbox client |
| Local sandbox (`agent-runtime/src/localSandbox.ts`) | metadata, current monitor | `createInstance`, `getInstanceStatus`, `writeFiles` | process monitor, disk |
| Process monitor (`container/process-monitor.ts`) | state, child, restart and health timers, restart counter | `start`, `stop`, `cleanup`, restarts, health kills | OS |
| Inference (`inferutils/infer.ts`, `inferutils/core.ts`, `operations/common.ts`) | attempts, messages, the chain's tool context | `executeInference`, `infer`, `runToolInference` | model providers, tools |
| Tool execution (`inferutils/toolExecution.ts`, `tools/resources.ts`) | none | merge and conflicts of declarations, plan of parallel groups, execution | tools |
| Rate limits | buckets | check, then count | Postgres, KV |
| Chat front end (`src/routes/chat`) | connection, restored state, messages, phases, files | joining, `reliableSend`, reducer over server messages | API, Realtime |
| Compaction, operations, file manager and git, output formats, database services, HTTP API and provisioning, space workers | | | see `PROJECT.json` |

The process is one JavaScript event loop. Code between two `await`s on the
outside world is atomic; everything else interleaves: websocket commands are
dispatched without waiting for one another, a build is an un-awaited promise,
`setConversationState()` sends its database requests and does not wait, and
`persist()` arms a timer. What is hard here is therefore:

* commands and inputs that arrive between two awaits of a build, and two builds
  that overlap (`generationPromise`, `currentAbortController`, the input queue);
* state read before an inference and written after it (the conversation);
* two-request database writes that overlap, fail in the middle, or are cut off
  by the death of the process;
* debounced persistence, crashes, and restarts that resume from an older row;
* limits and flags (`phasesCounter`, `mvpGenerated`, `reviewingInitiated`) that
  long legal histories bring into odd combinations;
* timeouts whose late work goes on: deployment attempts and whole retry loops
  outlive the callers who stopped waiting for them;
* a supervised process that exits, restarts, is killed and is stopped at once;
* an inference that is stopped, fails, runs out of attempts or is declared
  complete while its tools run in parallel;
* browsers that come before, during and after the boot of the session they talk
  to, over a channel that drops what nobody listens to.

`PROJECT.json` lists each hazard with its line and the property that covers it.

### What makes each component correct

* Agentic build: every accepted input is taken exactly once and in order; no
  input waits with nobody to take it; the agent never believes for ever that it
  is generating; STOP reaches the running inference; one build at a time.
* Phasic build: at most one phase to resume, none while another is planned; a
  request finds budget left; the project is declared generated only when no
  phase is unfinished; every build ends; requests are planned once and in order,
  and a crash takes back the queue and the plans made of it together.
* State store: the row moves forward only; a graceful stop loses nothing; a
  state that stays is saved; as a whole, a durable cell that may lose its tail.
* Conversation store: what is stored is a history, and one that was given to it;
  a quiet write repairs the table; what the model sees is part of what the user
  sees; a restart finds what the user saw; the full history is never truncated.
* Deployment: to its callers it is one shared call, every caller is answered,
  a deployed instance stays recorded and watched.
* Process monitor: one child at a time, none without supervision, a bounded number
  of restarts that stable runs renew, and a stop that returns.
* Inference and tool execution: conflicting calls run in their order; a completion
  ends the chain; after a STOP nothing is sent; requests are bounded; every call
  ends; what tools returned can reach the model.
* Session start: what the channel delivers reaches the agent once, in order and
  not before its project is there; a project is initialised once; a fresh session
  generates without any client; a tab that joins is restored.

## 2. Modules

`AgenticBuild`, `PhasicBuild`, `StateStore`, `ConversationStore`, `Deployment`
and `ProcessMonitor` each model one component with the code around it that
decides when it runs. `Inference` composes the retry loop, the chain of requests
and the execution of tools, whose plan is in `ToolResources`. `SessionStart`
composes the API, the runtime's entry point, the channel and the chat page.
`MCx` extends `x` for TLC, and `x_proofs` extends `x` with its theorems. A
definition marked *Mutant* is a plausible bug of the one that follows it: the
mutation table in `PROJECT.json` says which property catches it.

Five abstract specifications say what a component promises to those who use it.
The detailed module instantiates its own with a refinement mapping, TLC checks
the implementation as a property of a run, and TLAPS proves it for every value
of the constants:

| Abstract | Implemented by | It promises | Mapping |
|---|---|---|---|
| `DurableCell` | `StateStore` | a value that survives its process, may lose its tail and never goes back | the cell is the state of the live process, or the row; `unsaved` are the versions since the row's |
| `RequestQueue` | `AgenticBuild` | as long as its process lives, accepted requests are taken up in order, each once, all that wait at a time | `pendingUserInputs` is the queue; what iterations have taken is what was served |
| `SavedQueue`, which extends it | `PhasicBuild` | a request queue whose process may die: a crash takes the queue and what was served back to one earlier moment, both to the same | `pendingUserInputs` is the queue and what plans have taken is what was served; the row's are what was saved |
| `Supervisor` | `ProcessMonitor` | one process at a time, replaced when it ends on an allowance of restarts that a stable run renews, and none after it was retired | `live` and `launched` are the children; it has retired when it is `Down`: `stop()` or `cleanup()` has returned, and no restart was past its test |
| `SharedCall` | `Deployment` | callers are given the run under way, its end answers all of them, and a run that was given up is joined by nobody | the promise is the current run; the loops that are alive are the runs |

### AgenticBuild

A member of `Builds` is one unsettled call of `buildWrapper()`, and `build[b]`
the await at which it is: `template` (`ensureTemplateDetails`), `infer`
(`operation.execute`), `compact` (`compactifyIfNeeded`), `updating`
(`updateApp`), `finally` (GENERATE_ALL's `.finally()`). `controller` is the set
of calls that hold the signal of `currentAbortController`; a call that is in
neither `controller` nor `aborted` cannot be stopped.

| Action | Code |
|---|---|
| `StartInitialGeneration` | standaloneAgent.ts `startInitialGeneration` at the end of a fresh boot |
| `GenerateAll`, `ResumeGeneration`, `StopGeneration` | websocket.ts |
| `ReceiveInput`, `RejectInput`, `QueueUserRequest` | USER_SUGGESTION: received; refused by the usage check or an upload; queued, and a build started when none runs |
| `EnterLoop`, `TemplateFails` | `buildWrapper()` up to and into `build()` |
| `InferenceReturns`, `InferenceFails`, `Compacted` | `executeGeneration()`, its `finally` block, and the next turn of `build()`'s loop |
| `MarkGenerationComplete` | the tool of that name |
| `AppUpdated`, `ClearIntent` | the end of `buildWrapper()`, GENERATE_ALL's `.finally()` |

The initial states are a fresh session about to start its first generation and
every session restored from a row, with or without an input left in its queue.

### PhasicBuild

`at` is the await at which the one build is. `unfinished` holds the phases of
`generatedPhases` that are not completed; completed ones are only ever tested for
being there (`started`). States of the machine that do not await (`Leave`,
`StartReview`, `Review`, `Finalize`) are operators that the step before runs.
`implementPhase()`, its deployment and its code fixers are the await
`implementing`: they end with `markPhaseComplete()` (`PhaseImplemented`) or throw
before it (`ImplementFails`). `BeginTurn`/`EndTurn` are a conversation turn
during which the `queue_request` tool may call `queueUserRequest()`.

`row` is the session's row in `agent_state`. `RowWritten` brings it up to the state
of the moment, whenever the debounced store gets to it (`StateStore` has its
timer), and `Restart` kills the process at any moment and boots from the row,
which may lag any time behind. A crash just after a plan has taken the queue thus
brings the requests back to be planned again, and one just after
`queueUserRequest()` loses the request (docs/agent-runtime.md:226-228 admits a
window of state lost in a crash). The row holds `delivered` with the rest: it is
the history that leads to the state, and a state that is restored comes with its own. So
"planned once and in order" is said of what a process remembers, and `SavedQueue`
says what a crash may do to it: take queue and plans back to one moment, and
never one without the other. An upsert of a process that has died lands before
the next one reads the row, or never.

Left out: `state.currentPhase` (read only when a machine implements nothing,
which a launch and a plan rule out) and images.

### StateStore and DurableCell

A state is its version. `issued`, `bootedAt`, `saveTarget` and `failed`
are history variables. Time is counted in ticks; `DebounceTicks` of them are
`debounceMs`. `Crash` and `Exit` let the upsert that runs land or be lost.
That the database executes it only after the next process has read the row is not
modelled.
The refinement maps the cell to the state of the live process, or to the row when
there is none; what the owner may lose are the versions since the row's, and a
lost version is never seen again.

### ConversationStore

`cache` is `conversationCache`; `table` maps each kind to its rows by index;
`jobs` are `replaceAll()` and `clear()` calls between their requests. Each
request is executed and answered, executed and answered with an error, or not
executed and answered with an error; the INSERT is one statement and fails as a
whole on a primary-key conflict. `snapshot[u]` is what an update read before it
awaited a model (`compactifyIfNeeded()`, the phasic `handleUserInput()`).
`Compactions` is the set of results of `compactifyContext()`: a summary and the
recent messages, or after an error only recent ones. A message is a model value:
each has a fresh conversation id, so `addConversationMessage()` appends.

### Deployment

`at[l]` is the await of a call `l` of `executeDeploymentWithRetry()`: `creating`
(`createInstance`), `writing` (`writeFiles` and the clearing of logs), `setup`
(`executeSetupCommands`), `backoff`. `waits[c]` is the loop whose promise a call
`c` of `deployToSandbox()` awaits; `creators` are those that made it and clear it
in their `finally`. `late` counts attempts that timed out in `createInstance()`
and still run. The standalone runtime gives the same `LocalSandboxService` for
every session id, so resetting the session is forgetting the instance.
The awaits of `getClient()` and `getInstanceStatus()` settle within the turn of
the event loop and are no awaits of the model.

| Action | Code |
|---|---|
| `Deploy` (`Create`, `Join`) | `deployToSandbox()` by the agent or the client, as creator or joiner |
| `HealthCheckFails` | the interval's callback: drop the interval, deploy |
| `Created`, `CreateFails` | `createInstance()` answers and `ensureInstance()` records it, or it fails |
| `AttemptTimesOut`, `LateAttemptEnds` | `PER_ATTEMPT_TIMEOUT_MS`; the deploy() it left running |
| `Written`, `SetupEnds`, `WriteOrSetupFails`, `BackoffEnds` | the rest of an attempt, its catch and the next one |
| `CreatorTimesOut`, `JoinerTimesOut` | `MASTER_DEPLOYMENT_TIMEOUT_MS` |
| `ServerChanges` | the monitor's state as `getInstanceStatus()` reports it |

Left out: what the files are (a joiner's are dropped), and the callbacks.

### ProcessMonitor

One `ProcessMonitor` and its owner, from `start()` to `cleanup()`. `child` numbers
the children; `alive` are those that live, reported or not. `resumes` and
`starts` count restart callbacks and `start()` calls between their awaits of a log
append, and `healthKill` where health-triggered kills are. A run longer than
`STABILITY_THRESHOLD_MS` is `stableRun = 1` when it ends.

| Action | Code |
|---|---|
| `Start`, `Spawn`, `SpawnFails` | `start()` before and after its log appends |
| `ChildExits` | the `exit` handler, with the waits of `killProcess()` it ends |
| `TimerFires`, `Restart` | the callback of `scheduleRestart()` before and after its log append |
| `Stop`, `Cleanup`, `StopProceeds`, `StopTimesOut` | `stop()` and `cleanup()`; `killTimeout` |
| `FatalOutput` | `handleFatalError()` |
| `StartProbe`, `ProbeAnswered`, `ProbeFails`, `HealthKills`, `HealthKillTimesOut` | `performHealthCheck()` |

The owner stops a monitor once and may clean up after that, which is how both
owners use it. Left out: the child's `error` event (it follows a signal that could
not be sent), streams and the log file.

### Inference and ToolResources

One call of `executeInference()`. `phase` is what it awaits: the time before a
request (`request`), the model, tools, or the delay before a retry. `depth` is
`toolCallContext.depth`, and `stripped` says that the level's `modelName` has lost
its provider, as it does when `isDirect`. Whether a request goes through a gateway
or directly is chosen anew by each `Send`: the model and the deployment decide, and
`runtimeOverrides`, which a nested `infer()` is not given. `PreparationFails` is any
ordinary error before the request: a failing query, no direct endpoint
(core.ts:511-516), no key (core.ts:825), a name that is not in `AI_MODEL_CONFIG`. It
looks at no signal, so a stopped call may fail like this as well. A declaration of a tool call is what
`tool.resources(args)` returns; `ToolResources` has its merge, the test for
conflicts and `NextGroup`, the plan. `Clash` reads the declarations on their own:
it is what `HasResourceConflict` is compared with, in `ConflictsInOrder` and in the
assumption `MergeChecked` of `MCInference`, over all declarations of two paths.

| Action | Code |
|---|---|
| `TooManyMessages`, `MaxDepthReached`, `RateLimited`, `PreparationFails`, `RefusedAborted`, `Send` | `infer()` up to its request: limits, rate limit, configuration and client, `create()` |
| `CancelledWaiting`, `RequestFails`, `ParseFails` | the request rejects, the stream breaks, or the content does not parse |
| `TextRepeats` | the stream callback of `runToolInference()` |
| `Answer`, `AnswerWithTools` | an answer, and the first group of its tool calls |
| `ToolReturns` | a tool settles; with the last one, the next group, the next level, or the end |
| `ToolAborts`, `LeftoverSettles` | `Promise.all()` rejects with an AbortError; the rest of the group goes on |
| `InferErrorCaught`, `OtherErrorCaught`, `Throw`, `Backoff` | the catch block of `executeInference()` and its delay |
| `Stop` | `cancelCurrentInference()` aborts the signal the call was given |

Left out: what messages and arguments say, chunks, and which model and provider
a name stands for. Callers pass a schema or tools, never both. Tool calls
are told apart by position, as their ids do in the code when they differ; two
calls with one id would keep `buildExecutionPlan()` from ending (its loop counts
calls and collects ids), which is listed as a hazard.

### SessionStart

`creation` is where `startCodeGeneration()` is, `proc` what `main()` awaits, and
`page[t]` where tab `t` is. `state` and `row` keep of the agent's state what a
start depends on. `received` and `handled` are histories of the process's inbox, and
`begun` says that this process has started a generation.
The Realtime service is external: a broadcast reaches who has joined, or is lost
(`lost` bounds this), and an acknowledgement may be missing with the message
delivered. `Restart` is external as well: nothing in the repository starts a
process again for a session.
As in `StateStore`, an upsert lands before its process dies or never.

| Action | Code |
|---|---|
| `CreateSession`, `BootAgentSandbox`, `AnswerCreation` | `startCodeGeneration()`; it may answer 502 with the process running |
| `LoadInitArgs`, `TransportReady`, `LoadState` | `main()` up to and into `StandaloneAgent.boot()` |
| `InitializeProject` | `initializeProject()` up to the behavior's `setState()`, with its commit pending |
| `BootFresh`, `BootResumed` | the end of `boot()`, with `startInitialGeneration()` or without; agent_connected; the drain of the buffer |
| `Dies`, `Shutdown`, `Persist` | a rejected boot or a kill; SIGTERM; the state store writes |
| `GenerationEnds` | the build settles with its promise cleared, and GENERATE_ALL's `.finally()`. One whose template cannot be loaded rejects with the promise set (base.ts:498): `.finally()` clears nothing, and it is a build that never ends |
| `OpenNew`, `OpenExisting`, `Subscribed`, `Leave`, `ChannelFails` | use-chat.ts: the init effect, `connectChannel()`, unmounting |
| `SendAcknowledged`, `SendUnacknowledged` | an attempt of `reliableSend()`, with `onClientMessage` at the other end |
| `AgentConnected` | the `agent_connected` case of the page's message handler |

Left out: other commands (they take the same way as these two), the preview, and
the sign-in.

## 3. Runs

| Run | Result | Bounds |
|---|---|---|
| `agentic_build` | passes, 157,783 states | 2 builds alive at once, 2 inputs |
| `agentic_double_build` | `AtMostOneBuild` violated | same |
| `state_store` | passes, 52,632 states | debounce of 2 ticks, 4 `setState()` calls, any number of crashes |
| `conversation_store` | passes, 1,455,030 states | 3 messages, 2 updates under way, 3 writes |
| `conversation_write_through` | `WriteThrough` violated | same |
| `phasic_build` | passes, 190,472 states | 2 phase names, 2 requests, 2 turns, counter 4, recharged to 3, any number of crashes |
| `deployment` | passes, 360,126 states | 3 callers, 2 loops alive at once, 1 late attempt |
| `process_monitor` | passes, 152,798 states | 2 restarts, 2 stable runs, threshold 2, failures counted to 3 |
| `inference` | passes, 44,494 states | 3 attempts of at most 2 requests, 7 tools, 8 answers with up to 3 calls, 3 messages |
| `inference_follow_up` | `FollowUpCanBeSent` violated | same |
| `session_start` | passes, 1,694,200 states | 2 tabs, 2 page loads, 2 processes, 2 send attempts, 1 loss |
| `session_reconnect` | `JoiningRestores` violated | 2 tabs, 2 page loads, 1 process, 1 send attempt, no loss |

*Why the bounds are enough.* Two builds are the least that overlap, and every
wrong interaction of the promise or the controller is between two of them; slots
are used again, so how many builds ever run is not bounded. Two inputs have an
order. Four versions let two processes each have a saved and an unsaved state.
Two writes of the conversation overlap, a third can then run alone and repair or
not. `MaxPhases` of 4 over a recharge of 3 reaches every comparison of the
counter (`MAX_PHASES` is 10 and the recharge 3 in the code); two requests have an
order, and one may be planned and the other queued since the row was written (three
were checked as well, 1,297,918 states). Three callers are a
creator, a joiner and the health check; two loops are the least that overlap, and
slots are used again. A late attempt's answer does not depend on its attempt, so
one stands for several; `MaxLate` of 2 was checked as well (562,838 states).
Two restarts have a first and a last, and a second stable run shows that the
budget is renewed once per run; `PORT_FAILURE_THRESHOLD` is 2 in the code.
Three attempts are a first, a middle and a last one; two levels are a first and a
last; the answers have every kind of conflict, chains of three groups, a
completion first, last and among others, and a call without definition in the
first and in a later group. Two page loads are a new chat and one that joins it,
or a refresh; a second process is the least that can initialise again, and two
send attempts the least that can deliver a command twice.
Nothing but these bounds and the ones in guards (`MaxVersion`, `MaxWrites`,
`MaxLate`, `MaxStable`, `MaxFailures`, `MaxVisits`, `MaxLost`, `MaxBoots`) limits the models.

Deadlock is not checked where a quiet session has nothing left to do
(all but `StateStore`, where a process can always boot or die, and `Deployment`,
where a caller or a loop can always take a step).

### Fairness

Weak fairness of the steps with which an await settles (`BuildProgress`,
`Handler`, `MachineProgress`, `UpsertLands \/ UpsertFails`, `Attempt`, and those of
`ProcessMonitor!Fairness`) and of due timers:
the event loop runs what is due, and a request that is awaited is assumed to be
answered or to fail. The code sets no timeouts of its own on its database requests, so
a connection that never answers is outside this assumption. A child that was sent
SIGKILL dies; one that was sent SIGTERM need not. No command of the client, no crash, no boot and no `mark_generation_complete` is ever owed. An
action of choice (does the inference return or fail?) is fair only as a
disjunction. In `Inference` the disjunction is every step but the user's `Stop`:
the client library and the tools time out. In `SessionStart` it is the steps of
`main()` and `boot()` (each ends, or the process dies), and the page's handler of
a broadcast that was delivered; nothing is assumed of the API, of the tabs, or of
how long a build takes.

### What the violations mean

* **Two builds at once.** `executeGeneration()` clears `generationPromise` in its
  `finally` (agentic.ts:392) although `build()` may call it again. From the
  second iteration on `isCodeGenerating()` says no, and the next
  GENERATE_ALL, RESUME or user input starts another build on the same workspace.
  The comment at standaloneAgent.ts:380-382 relies on the opposite.
* **Not write-through.** Neither `addConversationMessage()` nor
  `clearConversation()` waits for its requests (standaloneAgent.ts:592-597, :618).
  A message is added and the conversation cleared while the two `replaceAll()` calls
  run; the DELETE of `clear()` comes between the DELETE and the INSERT of the
  compact history, and the INSERT puts the message back. No request has failed, the
  cache is empty, and a restart shows the cleared message to the model again. The
  section is headed "cache-at-boot, write-through" (standaloneAgent.ts:566).
* **Tool results cannot be sent.** After a request without a gateway `infer()` has
  shortened its own `modelName` (core.ts:818-823) and passes that to the next level
  (core.ts:1164, :1184), which cannot find it in `AI_MODEL_CONFIG`
  (docs/llm.md:4047: "If results exist: call LLM again with tool outputs"). The level
  has results, is not cancelled and is within its limits, and still cannot send
  them; the attempt fails, and the next one runs the tools again.
* **A tab that joins late is not restored.** `agent_connected` is broadcast once,
  at the end of `boot()` (standaloneAgent.ts:266); docs/llm.md:573 and :1296 have it
  sent on connect.

### Divergences that are modelled and have no run

Reading the code against its documents showed more disagreements. The modules
contain the behaviours; a run for each would add nothing to the description.

* `persist()` restarts its timer on every call (stateStore.ts:55), so a stream of
  `setState()` calls is not written before it pauses; docs/agent-runtime.md:226-228
  promises a window of about 300 ms.
* A snapshot of the full history read before an inference is written back over
  messages that came in the meantime (agentic.ts:202 and 221, base.ts:1725 and
  1771); docs/llm.md:1856-1859 says "Never truncated".
* The review ends in IDLE without a look at the queue (phasic.ts:465), and a
  request queued during it waits for the next input;
  UserConversationProcessor.ts:220 tells the model that phase generation follows.
* `start()` resets the restart counter after a stable run (process-monitor.ts:347,
  :414-424), but `shouldRestartAfterExit()` (:886) has refused the restart before
  that when the counter is at `maxRestarts`.
* `startInitialGeneration()` (standaloneAgent.ts:389) does not clear
  `shouldBeGenerating` when the generation completes, which docs/llm.md:1762-1766
  promises and GENERATE_ALL's handler does.
* On repeated text `runToolInference()` aborts its controller and throws an
  InferError "to trigger retry logic" (common.ts:218-225); the retry is given the
  same aborted signal, so its request is refused and the call ends as cancelled.
* Errors that come before the request, such as a missing key or endpoint
  (core.ts:511-516, :825), do not look at the signal and are not taken for a
  cancellation: after a STOP `executeInference()` goes on retrying them, up to
  `retryLimit` (infer.ts:214-246), while docs/llm.md:4062 lists "Cancelled operations"
  under "Does NOT retry". `CancelStopsRetries` counts them, and
  `NothingSentAfterStop` says that they send nothing.
* A build whose template cannot be loaded leaves `generationPromise` set
  (base.ts:498): the session counts as generating for ever (`TemplateFails`, which
  `GeneratingMeansAlive` excepts).

The passing runs keep to what holds in spite of these: `InferenceIsStoppable`
excludes histories in which builds overlapped, `RestartFindsCache` asks for a
write that ran alone, and `WholeHistories` holds through all of them.
`RunningWithinFull` says nothing any more once a process has died with requests
under way, or after writes that overlapped or failed and were not repaired since.
`InstanceIsRecorded` excludes overlapping loops (the failure of one forgets the
instance of the other), and `InstanceIsWatched` the one order in which the
health check is lost: a check that fails and joins a deployment in its setup.

## 4. Proofs

TLAPS proves, for every value of the constants that satisfies the named
assumptions of each module:

| Module | Theorems | Assumptions | Argument |
|---|---|---|---|
| `AgenticBuild_proofs` | `TypeOK`, `InputsConserved`, `IsRequestQueue` with `EachServedOnce`, `NoStrandedInput`, `GeneratingMeansAlive`, `InferenceIsStoppable` | `NoBuild` is not a build | Type correctness; conservation is inductive over `TypeOK`, since only `StartIteration` moves the whole queue from one side to the other; a step that does so is the queue's `Serve`, an accepted input its `Accept`, and all else leaves it alone; an input waits without a live build only after an error, because a build leaves its loop only with an empty queue and the handler starts one when the promise is clear. The strengthening ties the promise to a live build. |
| `StateStore_proofs` | `TypeOK`, `RowNeverGoesBack`, `ShutdownSaves`, `IsDurableCell`, `Cell!Latest` | `DebounceTicks > 0` | The upserts in flight are sorted, none is older than the row, and `pending` is the state while the timer is armed; a flushing process has its target in the row, in flight, or failed. The refinement maps every step to a write, a save, an end or a stutter. `Latest` is proved of the abstract cell's steps alone and holds of the store through the refinement. |
| `ConversationStore_proofs` | `TypeOK`, `WholeHistories`, `RestartFindsCache`, `RunningWithinFull`, `NoMessageTwice` | `Summary` is no message | Every job's history was given to its kind (`Given`); a write that runs alone has either a request left that will repair the kind, or the kind is right (`Repairing`); every history that is shown, stored or on its way keeps running within full (`Within`, `Shown`); none of them, nor a snapshot, holds a message twice, and a message that joins one is not in it (`Clean`). |
| `PhasicBuild_proofs` | `TypeOK`, `IsSavedQueue` with `EachServedOnce`, `OneUnfinishedPhase`, `PendingHasBudget`, `MVPMeansPhasesDone` | `2 <= RechargedTo <= MaxPhases` | `Machine` says, for each await, what is unfinished and which phase the machine holds; `Budget` bounds the counter by the flags and the queue, and is what keeps it from falling below -1. Both are also said of the row (`Row`, `RowBudget`), which is a state that was set, so that a restart keeps them; a step that writes the row is the queue's `Save`, a restart its `Crash`. |
| `ProcessMonitor_proofs` | `TypeOK`, `OneChild`, `LiveIsSupervised`, `RestartBudget`, `IsSupervisor`, `StoppedForGood` | `MaxRestarts`, the threshold and the bounds are naturals | A restart is at one place only, timer, callback or `start()`, and no child lives meanwhile (`OneRestart`), which is why `start()` never meets a child; `Accounted` says how many children the counter and the stable runs explain. |
| `Deployment_proofs` | `TypeOK`, `IsSharedCall`, `PromiseIsAttended`, `InstanceIsRecorded`, `InstanceIsWatched` | `NoLoop` is no loop, `MaxLate` is a natural | At most one caller answers for the promise (`OneCreator`), so that the end of a loop clears it just when it is that loop's, which is the step of the shared call; without an overlap one loop runs (`OneLoop`); as long as nobody watches a deployed instance, some loop has yet to write its files and will start a health check (`Started`). |
| `Inference_proofs` | `MergeHidesNoConflict`, `ConflictTestIsExact`, `PlanNeverStuck`, `TypeOK`, `ConflictsInOrder`, `CompletionIsFinal`, `CancelStopsRetries`, `RequestBudget`, `ToolsAreAwaited`, `AnsweredInFull`, `NoCallRunsTwice`, `NothingSentAfterStop`, `WholeAtFirst` | `RetryLimit`, `MaxDepth`, `MaxMessages` positive; `Batches` are sequences of `Calls` with declarations | A group holds only calls whose earlier conflicts are in the groups before, and the next group starts when none of those runs; the code's test for conflicts is equivalent to `Clash` when there are files. A call depends on earlier ones only, so the least call not planned is always ready: the plan is never stuck, no group is empty, a level that awaits tools has one that runs, and a level ends after all its calls, each run once. While a completion tool has run, the call is in its tools or over. A stopped call is aborted, so an attempt begun after the STOP either fails before its request, which `unsentStopped` counts, or ends the call (`Retried`); in neither case is anything sent. A level begins with a whole name unless tools of its own attempt came before. `requests` never exceeds `depth` by more than the level's own. |
| `SessionStart_proofs` | `TypeOK`, `CommandsWaitForAgent`, `ProjectInitialisedOnce`, `StoredIsKept`, `GenerationHasProject` | `SendAttempts` positive, the bounds are naturals | A process that is up has a project, because it found a query in the row or in `init_args` and the session's row is written before any process starts; `handled` and the buffer make up `received`; a process that initialises has loaded a row without a query, and only it writes the row. A process may write the row only when its state has the query, and is complete if the row is (`Kept`): it has loaded the row before. |

Each invariant was checked by TLC before it was proved. Only model-checked are
the liveness properties (`InputTaken`, `StateIsSaved`, `BuildEnds`,
`CallersAreAnswered`, `StopReturns`, `InferenceEnds`, `FreshSessionGenerates`),
because TLAPS does not do fairness or ENABLED; what a `RECURSIVE` or inductively
defined operator computes for every input is out of its reach too, and no
theorem here needs one. Some theorems are not repeated by a run, where a run
checks something that says as much: `RowNeverGoesBack` and `Cell!Latest`
(`IsDurableCell`), `InputsConserved` and `EachServedOnce` (`IsRequestQueue`, `IsSavedQueue`),
`OneChild`, `RestartBudget` and `StoppedForGood` (`IsSupervisor`), and
`PromiseIsAttended` (`IsSharedCall`). `PlanNeverStuck`, `ToolsAreAwaited`,
`AnsweredInFull`, `NoCallRunsTwice`, `ConflictTestIsExact`, `NothingSentAfterStop`, `WholeAtFirst`, `StoredIsKept` and
`GenerationHasProject` were checked once on the instances of `MCInference` and
`MCSessionStart`.

## 5. Not modelled

Prompts, file contents, git objects, streaming parsers, most HTTP routes, sign-in
and the front end's rendering, setup and deploy scripts: I/O, presentation or data
that no property here depends on; they are by far the larger part of the
repository's lines. Rate limits are an error an inference may get: their stores
admit that concurrent calls may pass a limit together. The Durable Object service
under `space/` is not used by the standalone runtime. The database is taken to
execute each statement atomically, and one process at a time serves a session (the
runtime does not enforce this).

## 6. What is left

1. A sandbox that composes `Deployment` with two monitors: `createInstance()`
   replaces the monitor without stopping it (localSandbox.ts:159), and a stop that
   falls inside the restart callback does not keep the process down.
2. `SessionStart` with the inner steps of `AgenticBuild`: a generation that is
   resumed after a restart, and its inputs.
3. The assembly of streamed tool calls, with the ids that providers repeat or
   leave out, before the plan.
4. The conversation store as a refinement of a register when writes do not
   overlap.

Commands, from this directory: `tlc -workers 2 -config AgenticBuild.cfg MCAgenticBuild`,
`tlapm AgenticBuild_proofs.tla`.
