------------------------------ MODULE Inference ------------------------------
(***************************************************************************)
(* One call of executeInference(): up to RetryLimit attempts, each of them *)
(* a chain of infer() levels. A level sends one request to the model, runs *)
(* the tool calls of its answer in groups, and hands their results to the  *)
(* next level. The user may stop the call at any moment, and the loop      *)
(* detector of an agent aborts the request whose text repeats itself.      *)
(*                                                                         *)
(* An action is the code from one await on the outside world (the model, a *)
(* tool, the delay before a retry) to the next. Callers pass either a      *)
(* schema or tools, never both, so a structured call has no tool calls and *)
(* its depth stays 0.                                                      *)
(***************************************************************************)
EXTENDS ToolResources

CONSTANTS
  RetryLimit,       \* retryLimit
  MaxDepth,         \* getMaxToolCallingDepth(actionKey)
  MaxMessages,      \* MAX_LLM_MESSAGES
  Calls,            \* tool calls the model may make
  Defined,          \* those whose tool has a definition
  CompletionTools,  \* those that signal completion to the detector
  Declares,         \* what each call's tool.resources(args) returns
  Batches           \* answers of the model: sequences of calls

ASSUME LimitsAssumption ==
  /\ RetryLimit \in Nat \ {0} /\ MaxDepth \in Nat \ {0}
  /\ MaxMessages \in Nat \ {0}
ASSUME CallsAssumption ==
  /\ Defined \subseteq Calls /\ CompletionTools \subseteq Defined
  /\ Declares \in [Calls -> Resources]
  /\ Batches \subseteq Seq(Calls)

VARIABLES
  structured,       \* a schema was given
  fallbackModel,    \* a fallback that differs from modelName is configured
  attempt,          \* attempts that have failed
  modelName,        \* "primary" or "fallback"
  useCheaperModel,
  messages,         \* messages.length of the caller's array
  phase,            \* what the call awaits, or how it ended
  depth,            \* toolCallContext.depth of the current level
  stripped,         \* the level's modelName has lost its provider
  batch,            \* tool calls of the last answer
  started,          \* indices of the calls whose group has been started
  running,          \* indices of the calls that have not settled
  results,          \* indices of the calls that gave a result
  aborted,          \* the signal of the requests is aborted
  \* history
  stopped,          \* the user has stopped the call
  retriedStopped,   \* attempts begun after that
  unsentStopped,    \* attempts that failed before their request after that
  requests,         \* requests sent in the current attempt
  completed         \* a completion tool has been started

setup   == <<structured, fallbackModel>>
retry   == <<attempt, modelName, useCheaperModel, messages>>
tools   == <<batch, started, running, results>>
level   == <<depth, stripped, requests>>
signal  == <<aborted, stopped, retriedStopped, unsentStopped>>
vars    == <<setup, retry, phase, tools, level, signal, completed>>

Ended   == {"returned", "thrown", "exhausted"}
Waiting == {"request", "model", "tools", "backoff"}

Init ==
  /\ structured \in BOOLEAN /\ fallbackModel \in BOOLEAN
  /\ attempt = 0 /\ modelName = "primary" /\ useCheaperModel = FALSE
  /\ messages \in 1..MaxMessages
  /\ phase = "request" /\ depth = 0 /\ stripped = FALSE /\ requests = 0
  /\ batch = <<>> /\ started = {} /\ running = {} /\ results = {}
  /\ aborted \in BOOLEAN /\ stopped = aborted
  /\ retriedStopped = 0 /\ unsentStopped = 0 /\ completed = FALSE

-----------------------------------------------------------------------------
(* The catch block of executeInference()'s loop.                           *)

\* RateLimitExceededError, or an InferError that says 'cancelled'.
Throw == phase' = "thrown" /\ UNCHANGED retry

\* Mutant: one attempt too many.
ExtraAttempt == attempt = RetryLimit

IsLastAttempt == attempt + 1 = RetryLimit

\* Mutant: failures of the fallback are not counted.
NextAttemptForFree ==
  /\ attempt' = IF modelName = "fallback" THEN attempt ELSE attempt + 1
  /\ phase' = IF IsLastAttempt THEN "exhausted" ELSE "backoff"

NextAttempt ==
  /\ attempt' = attempt + 1
  /\ phase' = IF IsLastAttempt THEN "exhausted" ELSE "backoff"

NewChain == depth' = 0 /\ stripped' = FALSE /\ requests' = 0

\* An InferError; a long partial response goes to the cheaper model.
InferErrorCaught ==
  /\ NextAttempt /\ NewChain
  /\ UNCHANGED modelName
  /\ \/ UNCHANGED <<messages, useCheaperModel>>
     \/ messages' = messages + 2 /\ useCheaperModel' = TRUE

\* Any other error: the fallback takes over, if there is one.
OtherErrorCaught ==
  /\ NextAttempt /\ NewChain
  /\ modelName' = IF fallbackModel THEN "fallback" ELSE modelName
  /\ UNCHANGED <<messages, useCheaperModel>>

\* The delay before the next attempt is over.
Backoff ==
  /\ phase = "backoff" /\ phase' = "request"
  /\ retriedStopped' = IF stopped THEN retriedStopped + 1 ELSE retriedStopped
  /\ UNCHANGED <<setup, retry, tools, level, aborted, stopped, unsentStopped,
                 completed>>

-----------------------------------------------------------------------------
(* infer(), up to its request.                                             *)

TooManyMessages ==
  /\ phase = "request" /\ messages > MaxMessages
  /\ Throw
  /\ UNCHANGED <<setup, tools, level, signal, completed>>

\* Mutant: the limit itself is still allowed.
DepthExceeded == depth > MaxDepth

DepthLimitReached == depth >= MaxDepth

MaxDepthReached ==
  /\ phase = "request" /\ messages <= MaxMessages /\ DepthLimitReached
  /\ phase' = "returned"
  /\ UNCHANGED <<setup, retry, tools, level, signal, completed>>

Admitted == phase = "request" /\ messages <= MaxMessages /\ ~DepthLimitReached

\* enforceLLMCallsRateLimit(): a name it cannot look up is let through.
RateLimited ==
  /\ Admitted /\ ~stripped
  /\ Throw
  /\ UNCHANGED <<setup, tools, level, signal, completed>>

(* The settings, the gateway or the client throw before there is a request *)
(* to abort: no provider to go to directly, no key, a failing query. So it *)
(* always is for a name without its provider: AI_MODEL_CONFIG has no entry *)
(* for it, and getConfigurationForModel() reads the provider of undefined. *)
PreparationFails ==
  /\ Admitted
  /\ OtherErrorCaught
  /\ unsentStopped' = IF stopped THEN unsentStopped + 1 ELSE unsentStopped
  /\ UNCHANGED <<setup, tools, aborted, stopped, retriedStopped, completed>>

\* Mutant: a cancelled request is retried like any failed one.
CancelledRetried == OtherErrorCaught

Cancelled == Throw /\ UNCHANGED level

\* create() refuses a signal that is aborted already.
RefusedAborted ==
  /\ Admitted /\ ~stripped /\ aborted
  /\ Cancelled
  /\ UNCHANGED <<setup, tools, signal, completed>>

\* The provider is called through a gateway or, under the bare name of the
\* model, directly. The model and the deployment decide which, and the
\* runtimeOverrides, which only the first level of a chain is given.
Send ==
  /\ Admitted /\ ~stripped /\ ~aborted
  /\ phase' = "model"
  /\ stripped' \in BOOLEAN
  /\ requests' = requests + 1
  /\ UNCHANGED <<setup, retry, tools, depth, signal, completed>>

-----------------------------------------------------------------------------
(* The model answers, or does not.                                         *)

\* create() was pending when the signal was aborted.
CancelledWaiting ==
  /\ phase = "model" /\ aborted
  /\ Cancelled
  /\ UNCHANGED <<setup, tools, signal, completed>>

RequestFails ==
  /\ phase = "model"
  /\ OtherErrorCaught
  /\ UNCHANGED <<setup, tools, signal, completed>>

\* runToolInference()'s stream callback aborts its own controller, whose
\* signal the later attempts hold as well, and throws an InferError.
TextRepeats ==
  /\ phase = "model" /\ ~structured
  /\ aborted' = TRUE
  /\ InferErrorCaught
  /\ UNCHANGED <<setup, tools, stopped, retriedStopped, unsentStopped, completed>>

\* The content does not parse, or not against the schema.
ParseFails ==
  /\ phase = "model" /\ structured
  /\ InferErrorCaught
  /\ UNCHANGED <<setup, tools, signal, completed>>

\* An answer without tool calls; a stream that is aborted also ends like this,
\* and the tool calls it had delivered are run.
Answer ==
  /\ phase = "model" /\ phase' = "returned"
  /\ UNCHANGED <<setup, retry, tools, level, signal, completed>>

-----------------------------------------------------------------------------
(* executeToolCallsWithDependencies().                                     *)

\* What buildExecutionPlan() sees of a sequence of calls.
Declared(b) ==
  [i \in DOMAIN b |-> IF b[i] \in Defined THEN Declares[b[i]] ELSE NoResources]

\* The group after `planned` is started as a whole. A call without definition
\* rejects the group's Promise.all() at once; infer() drops the error and all
\* results and returns, and the other calls of the group go on.
StartGroup(b, planned) ==
  LET group == NextGroup(Declared(b), planned)
  IN  /\ started' = planned \cup group
      /\ running' = {i \in group : b[i] \in Defined}
      /\ completed' = (completed \/ \E i \in group : b[i] \in CompletionTools)
      /\ phase' = IF \A i \in group : b[i] \in Defined
                  THEN "tools" ELSE "returned"

AnswerWithTools ==
  /\ phase = "model" /\ ~structured
  /\ \E b \in Batches : b # <<>> /\ batch' = b /\ StartGroup(b, {})
  /\ results' = {}
  /\ UNCHANGED <<setup, retry, level, signal>>

\* Mutant: any other result makes the chain go on past a completion.
AnyResultCounts(rs) == \E i \in rs : batch[i] \notin CompletionTools

\* The signal of a completion tool ends the chain; otherwise some call must
\* have returned a value.
ChainGoesOn(rs) ==
  /\ \A i \in DOMAIN batch : batch[i] \notin CompletionTools
  /\ rs # {}

\* updateToolCallContext() and the end of the level, after its last call.
LevelEnds(rs) ==
  /\ started = DOMAIN batch
  /\ running' = {} /\ depth' = depth + 1
  /\ phase' = IF ChainGoesOn(rs) THEN "request" ELSE "returned"
  /\ UNCHANGED <<started, completed>>

\* executeSingleTool() returns: with a result, with the error of the tool as
\* a result, or with undefined.
ToolReturns ==
  /\ phase = "tools"
  /\ \E i \in running :
       /\ results' \in {results, results \cup {i}}
       /\ \/ /\ running # {i} /\ running' = running \ {i}
             /\ UNCHANGED <<phase, started, depth, completed>>
          \/ /\ running = {i} /\ started # DOMAIN batch
             /\ StartGroup(batch, started) /\ UNCHANGED depth
          \/ running = {i} /\ LevelEnds(results')
  /\ UNCHANGED <<setup, retry, batch, stripped, requests, signal>>

\* A tool throws an AbortError: a nested inference was cancelled, or
\* onToolComplete() found a queued user input. infer() ends the chain and the
\* rest of the group goes on by itself.
ToolAborts ==
  /\ phase = "tools" /\ phase' = "returned"
  /\ \E i \in running : running' = running \ {i}
  /\ UNCHANGED <<setup, retry, batch, started, results, level, signal, completed>>

\* A call that was left behind settles; nobody looks at its result.
LeftoverSettles ==
  /\ phase = "returned"
  /\ \E i \in running : running' = running \ {i}
  /\ UNCHANGED <<setup, retry, phase, batch, started, results, level, signal,
                 completed>>

-----------------------------------------------------------------------------
\* STOP_GENERATION reaches the controller the call was given.
Stop ==
  /\ phase \in Waiting /\ ~stopped
  /\ stopped' = TRUE /\ aborted' = TRUE
  /\ UNCHANGED <<setup, retry, phase, tools, level, retriedStopped, unsentStopped,
                 completed>>

Progress ==
  \/ Backoff \/ TooManyMessages \/ MaxDepthReached \/ RateLimited
  \/ PreparationFails \/ RefusedAborted \/ Send \/ CancelledWaiting
  \/ RequestFails \/ TextRepeats \/ ParseFails \/ Answer
  \/ AnswerWithTools \/ ToolReturns \/ ToolAborts \/ LeftoverSettles

Next == Progress \/ Stop

\* Requests and tools settle: the client library and the tools time out.
Spec == Init /\ [][Next]_vars /\ WF_vars(Progress)

-----------------------------------------------------------------------------
\* The types, for every call and limit.
TypeOK ==
  /\ structured \in BOOLEAN /\ fallbackModel \in BOOLEAN
  /\ attempt \in 0..RetryLimit
  /\ modelName \in {"primary", "fallback"} /\ useCheaperModel \in BOOLEAN
  /\ messages \in Nat
  /\ phase \in Waiting \cup Ended
  /\ depth \in 0..MaxDepth /\ stripped \in BOOLEAN /\ requests \in Nat
  /\ batch \in Seq(Calls)
  /\ started \subseteq DOMAIN batch /\ running \subseteq started
  /\ results \subseteq started
  /\ aborted \in BOOLEAN /\ stopped \in BOOLEAN /\ completed \in BOOLEAN
  /\ retriedStopped \in Nat /\ unsentStopped \in Nat

\* Of two calls of one answer that must not run together, as their own
\* declarations read, the later one starts only when the earlier has settled
\* (buildExecutionPlan() and the groups of executeToolCallsWithDependencies());
\* and no tool of an answer runs beside a later request of the same call.
ConflictsInOrder ==
  /\ \A i, j \in DOMAIN batch :
       /\ i < j /\ j \in started
       /\ batch[i] \in Defined /\ batch[j] \in Defined
       /\ Clash(Declares[batch[i]], Declares[batch[j]])
       => i \in started /\ i \notin running
  /\ phase \in {"request", "model", "backoff"} => running = {}

\* Once a completion tool has run, the model is not asked again: neither by
\* the chain, whatever other calls were in the same answer and however they
\* ended, nor by a retry (the completion test of infer()).
CompletionIsFinal == completed => phase \in {"tools", "returned"}

\* An attempt begun after the user's STOP is the last one, unless it fails
\* before its request: wherever the call was (a backoff, a tool, a broken
\* stream, the next level), the client that sees the signal ends it (the
\* 'cancelled' test of executeInference()), and what throws before the client
\* is retried as if nobody had stopped.
CancelStopsRetries == retriedStopped <= 1 + unsentStopped

\* Tools that keep asking for more tools cost at most MaxDepth requests in an
\* attempt, and there are at most RetryLimit attempts.
RequestBudget ==
  /\ requests <= MaxDepth
  /\ phase \in Waiting => attempt < RetryLimit

\* Every call of executeInference() ends, though tools may always ask for
\* more tools and attempts may always fail.
InferenceEnds == <>(phase \in Ended)

\* docs/llm.md: "If results exist: call LLM again with tool outputs". A level
\* that has results, and is neither cancelled nor over a limit, can send them
\* (the recursive call of infer()), whatever else may go wrong on the way.
FollowUpCanBeSent == Admitted /\ depth > 0 /\ ~aborted => ENABLED Send
=============================================================================
