--------------------------- MODULE Inference_proofs ---------------------------
(* Proofs about Inference: the order of conflicting tool calls, what ends  *)
(* a chain, and the bounds on requests and retries, for every set of       *)
(* tools, every answer of the model and every limit.                       *)
EXTENDS Inference, WellFoundedInduction, TLAPS

-----------------------------------------------------------------------------
(* Conflicts of declarations                                               *)

\* hasResourceConflict() sees every clash that the declarations imply, in
\* either order of its arguments.
LEMMA ClashConflicts ==
  ASSUME NEW r \in Resources, NEW s \in Resources, Clash(r, s)
  PROVE  HasResourceConflict(s, r)
<1>1. CASE Written(r) \cap Touched(s) # {} \/ Written(s) \cap Touched(r) # {}
  BY <1>1 DEF HasResourceConflict, FileConflict, PathsOverlap, Written, Touched,
              Covered, Resources
<1>2. CASE \/ r.sandbox \in Exclusive /\ s.sandbox # "none"
           \/ s.sandbox \in Exclusive /\ r.sandbox # "none"
  BY <1>2 DEF HasResourceConflict, Exclusive
<1>3. CASE r.blueprint /\ s.blueprint
  BY <1>3 DEF HasResourceConflict
<1>4. CASE r.gitCommit /\ Written(s) # {}
  BY <1>4 DEF HasResourceConflict, Written
<1>5. CASE s.gitCommit /\ Written(r) # {}
  BY <1>5 DEF HasResourceConflict, Written
<1>6. \/ Written(r) \cap Touched(s) # {} \/ Written(s) \cap Touched(r) # {}
      \/ r.sandbox \in Exclusive /\ s.sandbox # "none"
      \/ s.sandbox \in Exclusive /\ r.sandbox # "none"
      \/ r.blueprint /\ s.blueprint
      \/ r.gitCommit /\ Written(s) # {}
      \/ s.gitCommit /\ Written(r) # {}
  BY DEF Clash
<1> QED
  BY <1>1, <1>2, <1>3, <1>4, <1>5, <1>6

\* In a project with files, hasResourceConflict() finds exactly the clashes
\* that the declarations imply: no two calls are serialised without need.
THEOREM ConflictTestIsExact ==
  ASSUME NEW r \in Resources, NEW s \in Resources, Paths # {}
  PROVE  HasResourceConflict(r, s) <=> Clash(r, s)
<1>1. ASSUME Clash(r, s) PROVE HasResourceConflict(r, s)
  <2>1. Clash(s, r)
    BY <1>1, Zenon DEF Clash
  <2> QED
    BY <2>1, ClashConflicts
<1>2. ASSUME NEW x \in Resources, x.mode # "none" PROVE Touched(x) # {}
  BY <1>2, Zenon DEF Touched, Covered
<1>3. ASSUME FileConflict(r, s) PROVE Clash(r, s)
  <2>1. Written(r) \cap Touched(s) # {} \/ Written(s) \cap Touched(r) # {}
    BY <1>3, <1>2 DEF FileConflict, PathsOverlap, Written, Touched, Covered,
                      Resources
  <2> QED
    BY <2>1, Zenon DEF Clash
<1>4. ASSUME \/ r.gitCommit /\ s.mode = "write"
             \/ s.gitCommit /\ r.mode = "write"
      PROVE  Clash(r, s)
  <2>1. \A x \in Resources : x.mode = "write" => Written(x) # {}
    BY Zenon DEF Written, Covered
  <2> QED
    BY <1>4, <2>1, Zenon DEF Clash
<1>5. ASSUME r.blueprint, s.blueprint PROVE Clash(r, s)
  BY <1>5, Zenon DEF Clash
<1>6. ASSUME r.sandbox # "none", s.sandbox # "none",
             r.sandbox \in Exclusive \/ s.sandbox \in Exclusive
      PROVE  Clash(r, s)
  BY <1>6, Zenon DEF Clash
<1> QED
  BY <1>1, <1>3, <1>4, <1>5, <1>6, Zenon DEF HasResourceConflict

\* A conflict that one of two merged declarations has, the merged one has too,
\* as long as the first names no sandbox operation (mergeResources()).
THEOREM MergeHidesNoConflict ==
  ASSUME NEW r \in Resources, NEW s \in Resources, NEW x \in Resources,
         r.sandbox = "none",
         HasResourceConflict(r, x) \/ HasResourceConflict(s, x)
  PROVE  HasResourceConflict(MergeResources(r, s), x)
<1> DEFINE m == MergeResources(r, s)
<1>1. CASE FileConflict(r, x) \/ FileConflict(s, x)
  <2>1. FileConflict(m, x)
    BY <1>1 DEF FileConflict, PathsOverlap, MergeResources, Resources
  <2> QED
    BY <2>1 DEF HasResourceConflict
<1>2. CASE /\ s.sandbox # "none" /\ x.sandbox # "none"
           /\ s.sandbox \in Exclusive \/ x.sandbox \in Exclusive
  BY <1>2 DEF HasResourceConflict, MergeResources
<1>3. CASE \/ r.blueprint /\ x.blueprint
           \/ s.blueprint /\ x.blueprint
           \/ r.gitCommit /\ x.mode = "write"
           \/ s.gitCommit /\ x.mode = "write"
  BY <1>3 DEF HasResourceConflict, MergeResources
<1>4. CASE x.gitCommit /\ (r.mode = "write" \/ s.mode = "write")
  BY <1>4 DEF HasResourceConflict, MergeResources, Resources
<1> QED
  BY <1>1, <1>2, <1>3, <1>4 DEF HasResourceConflict

-----------------------------------------------------------------------------
(* The groups of the execution plan                                        *)

\* A group holds calls not yet planned, and whatever its calls depend on has
\* been planned before, by either branch of NextGroup.
LEMMA GroupFacts ==
  ASSUME NEW b \in Seq(Calls), NEW planned \in SUBSET DOMAIN b
  PROVE  LET group == NextGroup(Declared(b), planned)
         IN  /\ group \subseteq DOMAIN b
             /\ group \cap planned = {}
             /\ \A j \in group : Dependencies(Declared(b), j) \subseteq planned
<1> DEFINE d == Declared(b)
           todo == DOMAIN d \ planned
           ready == {i \in todo : Dependencies(d, i) \subseteq planned}
           first == {i \in todo : \A j \in todo : i <= j}
           group == NextGroup(d, planned)
<1>1. DOMAIN d = DOMAIN b /\ DOMAIN b = 1..Len(b) /\ Len(b) \in Nat
  BY DEF Declared
<1>2. group = IF ready # {} THEN ready ELSE first
  BY DEF NextGroup
<1>3. group \subseteq todo
  BY <1>2
<1>4. ASSUME NEW j \in first
      PROVE  Dependencies(d, j) \subseteq planned
  <2>1. SUFFICES ASSUME NEW k \in 1..(j - 1), k \notin planned
                 PROVE  FALSE
    BY DEF Dependencies
  <2>2. k \in todo
    BY <1>1, <2>1, <1>4
  <2>3. j <= k
    BY <2>2, <1>4
  <2> QED
    BY <2>1, <2>3, <1>1, <1>4
<1>5. \A j \in group : Dependencies(d, j) \subseteq planned
  BY <1>2, <1>4
<1> HIDE DEF group
<1> QED
  BY <1>1, <1>3, <1>5 DEF group

LEMMA LeastElement ==
  ASSUME NEW S \in SUBSET Nat, S # {}
  PROVE  \E x \in S : \A y \in S : x <= y
<1> DEFINE R == OpToRel(<, Nat)
<1>1. IsWellFoundedOn(R, Nat)
  BY NatLessThanWellFounded, Zenon
<1> HIDE DEF R
<1>2. PICK x \in S : \A y \in S : ~ (<<y, x>> \in R)
  BY <1>1, WFMin
<1>3. \A y \in S : ~ (y < x)
  BY <1>2 DEF R, OpToRel
<1> QED
  BY <1>3

\* buildExecutionPlan() never meets a circular dependency: while calls are
\* left, one of them depends on planned calls only, so that its answer to a
\* circle is never taken, every group has a call, and its loop ends.
THEOREM PlanNeverStuck ==
  ASSUME NEW b \in Seq(Calls), NEW planned \in SUBSET DOMAIN b,
         planned # DOMAIN b
  PROVE  /\ \E i \in DOMAIN b \ planned :
              Dependencies(Declared(b), i) \subseteq planned
         /\ NextGroup(Declared(b), planned) =
              {i \in DOMAIN b \ planned :
                 Dependencies(Declared(b), i) \subseteq planned}
<1> DEFINE d == Declared(b)
           todo == DOMAIN d \ planned
           ready == {i \in todo : Dependencies(d, i) \subseteq planned}
<1>1. DOMAIN d = DOMAIN b /\ DOMAIN b = 1..Len(b) /\ Len(b) \in Nat
  BY DEF Declared
<1>2. PICK i \in todo : \A j \in todo : i <= j
  <2>1. todo \in SUBSET Nat
    BY <1>1
  <2>2. todo # {}
    BY <1>1, Zenon
  <2> HIDE DEF todo
  <2> QED
    BY <2>1, <2>2, LeastElement
<1>3. \A j \in 1..(i - 1) : j \in planned
  BY <1>1, <1>2
<1>4. i \in ready
  BY <1>2, <1>3 DEF Dependencies
<1>5. NextGroup(d, planned) = ready
  BY <1>4 DEF NextGroup
<1> HIDE DEF ready
<1> QED
  BY <1>1, <1>4, <1>5 DEF ready

-----------------------------------------------------------------------------
(* Type correctness. Numbers and flags are kept apart: each group of       *)
(* variables is closed under every action by itself.                       *)

TypeFlags ==
  /\ structured \in BOOLEAN /\ fallbackModel \in BOOLEAN
  /\ useCheaperModel \in BOOLEAN /\ stripped \in BOOLEAN
  /\ aborted \in BOOLEAN /\ stopped \in BOOLEAN /\ completed \in BOOLEAN

TypePhase ==
  /\ phase \in Waiting \cup Ended
  /\ modelName \in {"primary", "fallback"}

TypeCalls ==
  /\ batch \in Seq(Calls)
  /\ started \subseteq DOMAIN batch /\ running \subseteq started
  /\ results \subseteq started

\* Attempts, levels and requests of the current attempt.
Counts ==
  /\ attempt \in 0..RetryLimit /\ depth \in 0..MaxDepth
  /\ requests \in 0..MaxDepth /\ messages \in Nat
  /\ phase \in Waiting => attempt < RetryLimit
  /\ phase = "request" => requests = depth
  /\ phase \in {"model", "tools"} => requests = depth + 1 /\ depth < MaxDepth
  /\ phase = "backoff" => requests = 0 /\ depth = 0

LEMMA FlagsInitial == Init => TypeFlags /\ TypePhase /\ TypeCalls
<1> SUFFICES ASSUME Init PROVE TypeFlags /\ TypePhase /\ TypeCalls
  OBVIOUS
<1>1. TypeFlags
  BY Zenon DEF Init, TypeFlags
<1>2. TypePhase
  BY DEF Init, TypePhase, Waiting, Ended
<1>3. TypeCalls
  BY DEF Init, TypeCalls
<1> QED
  BY <1>1, <1>2, <1>3

LEMMA FlagsStep == TypeFlags /\ [Next]_vars => TypeFlags'
<1> SUFFICES ASSUME TypeFlags, [Next]_vars PROVE TypeFlags'
  OBVIOUS
<1> USE DEF TypeFlags, setup, retry, tools, level, signal
<1>1. CASE Backoff
  BY <1>1, Zenon DEF Backoff
<1>2. CASE TooManyMessages
  BY <1>2, Zenon DEF TooManyMessages, Throw
<1>3. CASE MaxDepthReached
  BY <1>3, Zenon DEF MaxDepthReached
<1>4. CASE RateLimited
  BY <1>4, Zenon DEF RateLimited, Throw
<1>5. CASE PreparationFails
  BY <1>5, Zenon DEF PreparationFails, OtherErrorCaught, NewChain
<1>6. CASE RefusedAborted
  BY <1>6, Zenon DEF RefusedAborted, Cancelled, Throw
<1>7. CASE Send
  BY <1>7, Zenon DEF Send
<1>8. CASE CancelledWaiting
  BY <1>8, Zenon DEF CancelledWaiting, Cancelled, Throw
<1>9. CASE RequestFails
  BY <1>9, Zenon DEF RequestFails, OtherErrorCaught, NewChain
<1>10. CASE TextRepeats
  BY <1>10, Zenon DEF TextRepeats, InferErrorCaught, NewChain
<1>11. CASE ParseFails
  BY <1>11, Zenon DEF ParseFails, InferErrorCaught, NewChain
<1>12. CASE Answer
  BY <1>12, Zenon DEF Answer
<1>13. CASE AnswerWithTools
  <2>1. UNCHANGED <<setup, retry, level, signal>>
    BY <1>13, Zenon DEF AnswerWithTools
  <2>2. PICK b \in Batches : StartGroup(b, {})
    BY <1>13, Zenon DEF AnswerWithTools
  <2>3. completed' \in BOOLEAN
    BY <2>2, Zenon DEF StartGroup
  <2> QED
    BY <2>1, <2>3, Zenon
<1>14. CASE ToolReturns
  <2>1. UNCHANGED <<setup, retry, stripped, signal>>
    BY <1>14, Zenon DEF ToolReturns
  <2>2. completed' = completed \/ StartGroup(batch, started)
    BY <1>14, Zenon DEF ToolReturns, LevelEnds
  <2>3. completed' \in BOOLEAN
    BY <2>2, Zenon DEF StartGroup
  <2> QED
    BY <2>1, <2>3, Zenon
<1>15. CASE ToolAborts
  BY <1>15, Zenon DEF ToolAborts
<1>16. CASE LeftoverSettles
  BY <1>16, Zenon DEF LeftoverSettles
<1>17. CASE Stop
  BY <1>17, Zenon DEF Stop
<1>18. CASE UNCHANGED vars
  BY <1>18, Zenon DEF vars
<1> QED
  BY <1>1, <1>2, <1>3, <1>4, <1>5, <1>6, <1>7, <1>8, <1>9, <1>10, <1>11,
     <1>12, <1>13, <1>14, <1>15, <1>16, <1>17, <1>18, Zenon DEF Next, Progress

\* What starting a group does to the calls of an answer.
LEMMA StartGroupFacts ==
  ASSUME NEW b \in Seq(Calls), NEW planned \in SUBSET DOMAIN b,
         StartGroup(b, planned)
  PROVE  /\ started' \subseteq DOMAIN b /\ planned \subseteq started'
         /\ running' \subseteq started' /\ running' \cap planned = {}
         /\ \A j \in started' \ planned :
              Dependencies(Declared(b), j) \subseteq planned
         /\ phase' \in {"tools", "returned"}
<1> DEFINE group == NextGroup(Declared(b), planned)
<1>1. /\ group \subseteq DOMAIN b /\ group \cap planned = {}
      /\ \A j \in group : Dependencies(Declared(b), j) \subseteq planned
  BY GroupFacts
<1>2. /\ started' = planned \cup group
      /\ running' = {i \in group : b[i] \in Defined}
      /\ phase' = IF \A i \in group : b[i] \in Defined
                  THEN "tools" ELSE "returned"
  BY Zenon DEF StartGroup
<1> HIDE DEF group
<1> QED
  BY <1>1, <1>2

\* The three ways a tool's return goes on.
LEMMA ToolReturnsCases ==
  ASSUME ToolReturns
  PROVE  /\ phase = "tools"
         /\ UNCHANGED <<setup, retry, batch, stripped, requests, signal>>
         /\ \E i \in running :
              /\ results' \in {results, results \cup {i}}
              /\ \/ /\ running # {i} /\ running' = running \ {i}
                    /\ UNCHANGED <<phase, started, depth, completed>>
                 \/ /\ running = {i} /\ started # DOMAIN batch
                    /\ StartGroup(batch, started) /\ UNCHANGED depth
                 \/ running = {i} /\ LevelEnds(results')
BY Zenon DEF ToolReturns

LEMMA CallsStep == TypeCalls /\ [Next]_vars => TypeCalls'
<1> SUFFICES ASSUME TypeCalls, [Next]_vars PROVE TypeCalls'
  OBVIOUS
<1> USE DEF TypeCalls
<1>1. CASE UNCHANGED tools
  BY <1>1 DEF tools
<1>2. CASE AnswerWithTools
  <2>1. PICK b \in Batches : batch' = b /\ StartGroup(b, {}) /\ results' = {}
    BY <1>2, Zenon DEF AnswerWithTools
  <2>2. b \in Seq(Calls)
    BY <2>1, CallsAssumption
  <2>3. started' \subseteq DOMAIN b /\ running' \subseteq started'
    BY <2>1, <2>2, StartGroupFacts
  <2> QED
    BY <2>1, <2>2, <2>3
<1>3. CASE ToolReturns
  <2>1. UNCHANGED batch
    BY <1>3, ToolReturnsCases
  <2>2. PICK i \in running :
          /\ results' \in {results, results \cup {i}}
          /\ \/ running' = running \ {i} /\ UNCHANGED started
             \/ StartGroup(batch, started)
             \/ running' = {} /\ UNCHANGED started
    BY <1>3, ToolReturnsCases, Zenon DEF LevelEnds
  <2>3. CASE StartGroup(batch, started)
    <3>1. /\ started' \subseteq DOMAIN batch /\ started \subseteq started'
          /\ running' \subseteq started'
      BY <2>3, StartGroupFacts
    <3> QED
      BY <2>1, <2>2, <3>1
  <2>4. CASE running' \subseteq running /\ UNCHANGED started
    BY <2>1, <2>2, <2>4
  <2> QED
    BY <2>2, <2>3, <2>4
<1>4. CASE /\ \E i \in running : running' = running \ {i}
           /\ UNCHANGED <<batch, started, results>>
  BY <1>4
<1> QED
  BY <1>1, <1>2, <1>3, <1>4, Zenon DEF Next, Progress, Backoff, TooManyMessages,
     MaxDepthReached, RateLimited, PreparationFails, RefusedAborted, Send,
     CancelledWaiting, RequestFails, TextRepeats, ParseFails, Answer, ToolAborts,
     LeftoverSettles, Stop, vars

\* Where each step may lead, and what it does to the counts.
LEMMA PhaseStep == TypePhase /\ [Next]_vars => TypePhase'
<1> SUFFICES ASSUME TypePhase, [Next]_vars PROVE TypePhase'
  OBVIOUS
<1> USE DEF TypePhase, Waiting, Ended, retry
<1>1. CASE Backoff \/ TooManyMessages \/ MaxDepthReached \/ RateLimited
  BY <1>1 DEF Backoff, TooManyMessages, MaxDepthReached, RateLimited, Throw
<1>2. CASE PreparationFails \/ RequestFails
  BY <1>2 DEF PreparationFails, RequestFails, OtherErrorCaught, NextAttempt
<1>3. CASE RefusedAborted \/ CancelledWaiting
  BY <1>3 DEF RefusedAborted, CancelledWaiting, Cancelled, Throw
<1>4. CASE TextRepeats \/ ParseFails
  BY <1>4 DEF TextRepeats, ParseFails, InferErrorCaught, NextAttempt
<1>5. CASE Send \/ Answer \/ ToolAborts \/ LeftoverSettles \/ Stop
  BY <1>5 DEF Send, Answer, ToolAborts, LeftoverSettles, Stop
<1>6. CASE AnswerWithTools
  BY <1>6, Zenon DEF AnswerWithTools, StartGroup
<1>7. CASE ToolReturns
  <2>1. UNCHANGED modelName
    BY <1>7, ToolReturnsCases, Zenon
  <2>2. phase' \in {phase, "tools", "returned", "request"}
    BY <1>7, ToolReturnsCases, Zenon DEF StartGroup, LevelEnds
  <2> QED
    BY <2>1, <2>2
<1>8. CASE UNCHANGED vars
  BY <1>8 DEF vars
<1> QED
  BY <1>1, <1>2, <1>3, <1>4, <1>5, <1>6, <1>7, <1>8, Zenon DEF Next, Progress

LEMMA CountsInitial == Init => Counts
<1> SUFFICES ASSUME Init PROVE Counts
  OBVIOUS
<1>1. /\ attempt = 0 /\ depth = 0 /\ requests = 0 /\ phase = "request"
      /\ messages \in 1..MaxMessages
  BY Zenon DEF Init
<1> QED
  BY <1>1, LimitsAssumption DEF Counts

\* A failure that is caught uses up an attempt and ends the chain.
LEMMA CaughtCounts ==
  ASSUME Counts, phase \in Waiting, NextAttempt, NewChain,
         messages' = messages \/ messages' = messages + 2
  PROVE  Counts'
<1>1. /\ attempt' = attempt + 1 /\ attempt < RetryLimit
      /\ phase' = IF attempt + 1 = RetryLimit THEN "exhausted" ELSE "backoff"
      /\ depth' = 0 /\ requests' = 0
  BY DEF Counts, NextAttempt, IsLastAttempt, NewChain
<1> QED
  BY <1>1, LimitsAssumption DEF Counts, Waiting

LEMMA CountsStep == Counts /\ TypePhase /\ [Next]_vars => Counts'
<1> SUFFICES ASSUME Counts, TypePhase, [Next]_vars PROVE Counts'
  OBVIOUS
<1> DEFINE Same == attempt' = attempt /\ messages' = messages
           Level == depth' = depth /\ requests' = requests
<1>1. CASE Backoff
  <2>1. Same /\ Level /\ phase = "backoff" /\ phase' = "request"
    BY <1>1, Zenon DEF Backoff, retry, level
  <2> QED
    BY <2>1, LimitsAssumption DEF Counts, Waiting
<1>2. CASE \/ TooManyMessages \/ MaxDepthReached \/ RateLimited
           \/ RefusedAborted \/ CancelledWaiting \/ Answer \/ ToolAborts
           \/ LeftoverSettles
  <2>1. Same /\ Level /\ phase' \in {"thrown", "returned"}
    BY <1>2 DEF TooManyMessages, MaxDepthReached, RateLimited, RefusedAborted,
                CancelledWaiting, Answer, ToolAborts, LeftoverSettles, Cancelled,
                Throw, retry, level
  <2> QED
    BY <2>1 DEF Counts, Waiting
<1>3. CASE PreparationFails \/ RequestFails
  <2>1. phase \in Waiting /\ NextAttempt /\ NewChain /\ messages' = messages
    BY <1>3 DEF PreparationFails, RequestFails, Admitted, OtherErrorCaught, Waiting
  <2> QED
    BY <2>1, CaughtCounts
<1>4. CASE TextRepeats \/ ParseFails
  <2>1. /\ phase \in Waiting /\ NextAttempt /\ NewChain
        /\ messages' = messages \/ messages' = messages + 2
    BY <1>4 DEF TextRepeats, ParseFails, InferErrorCaught, Waiting
  <2> QED
    BY <2>1, CaughtCounts
<1>5. CASE Send
  <2>1. /\ Same /\ depth' = depth /\ requests' = requests + 1
        /\ phase = "request" /\ phase' = "model"
        /\ ~(depth >= MaxDepth)
    BY <1>5, Zenon DEF Send, Admitted, DepthLimitReached, retry
  <2> QED
    BY <2>1, LimitsAssumption DEF Counts, Waiting
<1>6. CASE AnswerWithTools
  <2>1. Same /\ Level /\ phase = "model"
    BY <1>6, Zenon DEF AnswerWithTools, retry, level
  <2>2. phase' = "tools" \/ phase' = "returned"
    BY <1>6, Zenon DEF AnswerWithTools, StartGroup
  <2> QED
    BY <2>1, <2>2 DEF Counts, Waiting
<1>7. CASE ToolReturns
  <2>1. Same /\ requests' = requests /\ phase = "tools"
    BY <1>7, ToolReturnsCases, Zenon DEF retry
  <2>2. \/ depth' = depth /\ phase' \in {"tools", "returned"}
        \/ depth' = depth + 1 /\ phase' \in {"request", "returned"}
    BY <1>7, ToolReturnsCases DEF StartGroup, LevelEnds
  <2> QED
    BY <2>1, <2>2, LimitsAssumption DEF Counts, Waiting
<1>8. CASE Stop \/ UNCHANGED vars
  <2>1. Same /\ Level /\ phase' = phase
    BY <1>8, Zenon DEF Stop, vars, retry, level
  <2> QED
    BY <2>1 DEF Counts
<1> QED
  BY <1>1, <1>2, <1>3, <1>4, <1>5, <1>6, <1>7, <1>8, Zenon DEF Next, Progress

LEMMA TypesMeanTypeOK ==
  TypeFlags /\ TypePhase /\ TypeCalls /\ Counts /\ retriedStopped \in Nat
  /\ unsentStopped \in Nat
    => TypeOK
<1> SUFFICES ASSUME TypeFlags, TypePhase, TypeCalls, Counts,
                    retriedStopped \in Nat, unsentStopped \in Nat
             PROVE  TypeOK
  OBVIOUS
<1>1. /\ attempt \in 0..RetryLimit /\ messages \in Nat
      /\ depth \in 0..MaxDepth /\ requests \in Nat
  BY LimitsAssumption DEF Counts
<1> QED
  BY <1>1, Zenon DEF TypeOK, TypeFlags, TypePhase, TypeCalls

-----------------------------------------------------------------------------
(* The order of conflicting calls: whatever a started call depends on has  *)
(* settled. The invariant speaks of the plan's dependencies, which the     *)
(* clashes of the declarations are among.                                  *)

Sequenced ==
  /\ \A j \in started : Dependencies(Declared(batch), j) \subseteq started \ running
  /\ phase \in {"request", "model", "backoff"} => running = {}

LEMMA SequencedStep == TypeCalls /\ Sequenced /\ [Next]_vars => Sequenced'
<1> SUFFICES ASSUME TypeCalls, Sequenced, [Next]_vars PROVE Sequenced'
  OBVIOUS
<1>1. CASE /\ UNCHANGED <<batch, started, running>>
           /\ phase' \in {"request", "model", "backoff"}
                => phase \in {"request", "model", "backoff"}
  BY <1>1 DEF Sequenced, Declared
<1>2. CASE AnswerWithTools
  <2>1. PICK b \in Batches : batch' = b /\ StartGroup(b, {})
    BY <1>2, Zenon DEF AnswerWithTools
  <2>2. b \in Seq(Calls)
    BY <2>1, CallsAssumption
  <2>3. /\ \A j \in started' : Dependencies(Declared(b), j) = {}
        /\ phase' \in {"tools", "returned"}
    BY <2>1, <2>2, StartGroupFacts
  <2>4. Declared(batch)' = Declared(b)
    BY <2>1 DEF Declared
  <2> QED
    BY <2>3, <2>4 DEF Sequenced
<1>3. CASE ToolReturns
  <2>1. Declared(batch)' = Declared(batch) /\ phase = "tools"
    BY <1>3, ToolReturnsCases DEF Declared
  <2>2. PICK i \in running :
          \/ running' = running \ {i} /\ UNCHANGED <<started, phase>>
          \/ running = {i} /\ StartGroup(batch, started)
          \/ running = {i} /\ running' = {} /\ UNCHANGED started
    BY <1>3, ToolReturnsCases, Zenon DEF LevelEnds
  <2>3. CASE running = {i} /\ StartGroup(batch, started)
    <3>1. /\ started \subseteq started' /\ running' \cap started = {}
          /\ \A j \in started' \ started :
               Dependencies(Declared(batch), j) \subseteq started
          /\ phase' \in {"tools", "returned"}
      BY <2>3, StartGroupFacts DEF TypeCalls
    <3>2. \A j \in started' : Dependencies(Declared(batch), j) \subseteq started
      BY <3>1 DEF Sequenced
    <3> QED
      BY <2>1, <3>1, <3>2 DEF Sequenced
  <2>4. CASE \/ running' = running \ {i} /\ UNCHANGED <<started, phase>>
             \/ running = {i} /\ running' = {} /\ UNCHANGED started
    BY <2>1, <2>4 DEF Sequenced
  <2> QED
    BY <2>2, <2>3, <2>4
<1>4. CASE ToolAborts \/ LeftoverSettles
  <2>1. /\ \E i \in running : running' = running \ {i}
        /\ UNCHANGED <<batch, started>> /\ phase' = "returned"
    BY <1>4 DEF ToolAborts, LeftoverSettles
  <2> QED
    BY <2>1 DEF Sequenced, Declared
<1>5. CASE \/ Backoff \/ TooManyMessages \/ MaxDepthReached \/ RateLimited
           \/ PreparationFails \/ RefusedAborted \/ Send \/ CancelledWaiting
           \/ RequestFails \/ TextRepeats \/ ParseFails \/ Answer
           \/ Stop \/ UNCHANGED vars
  <2>1. UNCHANGED <<batch, started, running>>
    BY <1>5, Zenon DEF Backoff, TooManyMessages, MaxDepthReached, RateLimited,
       PreparationFails, RefusedAborted, Send, CancelledWaiting, RequestFails,
       TextRepeats, ParseFails, Answer, Stop, vars, tools
  <2>2. \/ phase \in {"request", "model", "backoff"}
        \/ phase' = phase
    BY <1>5, Zenon DEF Backoff, TooManyMessages, MaxDepthReached, RateLimited,
       PreparationFails, RefusedAborted, Send, CancelledWaiting, RequestFails,
       TextRepeats, ParseFails, Answer, Stop, vars, Admitted
  <2> QED
    BY <2>1, <2>2, <1>1
<1> QED
  BY <1>2, <1>3, <1>4, <1>5, Zenon DEF Next, Progress

LEMMA SequencedMeansInOrder == TypeCalls /\ Sequenced => ConflictsInOrder
<1> SUFFICES ASSUME TypeCalls, Sequenced,
                    NEW i \in DOMAIN batch, NEW j \in DOMAIN batch,
                    i < j, j \in started, batch[i] \in Defined, batch[j] \in Defined,
                    Clash(Declares[batch[i]], Declares[batch[j]])
             PROVE  i \in started /\ i \notin running
  BY DEF ConflictsInOrder, Sequenced
<1>1. Declares[batch[i]] \in Resources /\ Declares[batch[j]] \in Resources
  BY CallsAssumption
<1>2. HasResourceConflict(Declares[batch[j]], Declares[batch[i]])
  BY <1>1, ClashConflicts
<1>3. /\ Declared(batch)[j] = Declares[batch[j]]
      /\ Declared(batch)[i] = Declares[batch[i]]
  BY DEF Declared
<1>4. i \in 1..(j - 1)
  BY DEF TypeCalls
<1>5. i \in Dependencies(Declared(batch), j)
  BY <1>2, <1>3, <1>4, Zenon DEF Dependencies
<1> QED
  BY <1>5 DEF Sequenced

-----------------------------------------------------------------------------
(* Completion: while its answer's other calls still run, the answer holds  *)
(* the completion call, and LevelEnds will see it.                         *)

Final ==
  /\ CompletionIsFinal
  /\ completed /\ phase = "tools"
       => \E i \in DOMAIN batch : batch[i] \in CompletionTools

\* A completion that was just started is one of the answer's calls.
LEMMA StartGroupFinal ==
  ASSUME NEW b \in Seq(Calls), NEW planned \in SUBSET DOMAIN b,
         StartGroup(b, planned), batch' = b,
         completed => \E i \in DOMAIN b : b[i] \in CompletionTools
  PROVE  Final'
<1> DEFINE group == NextGroup(Declared(b), planned)
<1>1. group \subseteq DOMAIN b
  BY GroupFacts
<1>2. completed' = (completed \/ \E i \in group : b[i] \in CompletionTools)
  BY Zenon DEF StartGroup
<1>3. phase' \in {"tools", "returned"}
  BY StartGroupFacts
<1> HIDE DEF group
<1>4. completed' => \E i \in DOMAIN b : b[i] \in CompletionTools
  BY <1>1, <1>2, Zenon
<1> QED
  BY <1>3, <1>4 DEF Final, CompletionIsFinal

LEMMA FinalStep == TypeCalls /\ Final /\ [Next]_vars => Final'
<1> SUFFICES ASSUME TypeCalls, Final, [Next]_vars PROVE Final'
  OBVIOUS
<1>1. CASE UNCHANGED <<batch, completed, phase>>
  BY <1>1 DEF Final, CompletionIsFinal
<1>2. CASE ~completed /\ ~completed'
  BY <1>2 DEF Final, CompletionIsFinal
<1>3. CASE \/ Backoff \/ TooManyMessages \/ MaxDepthReached \/ RateLimited
           \/ PreparationFails \/ RefusedAborted \/ Send \/ CancelledWaiting
           \/ RequestFails \/ TextRepeats \/ ParseFails \/ Answer
  <2>1. phase \notin {"tools", "returned"} /\ completed' = completed
    BY <1>3 DEF Backoff, TooManyMessages, MaxDepthReached, RateLimited,
       PreparationFails, RefusedAborted, Send, CancelledWaiting, RequestFails,
       TextRepeats, ParseFails, Answer, Admitted
  <2>2. ~completed
    BY <2>1, Zenon DEF Final, CompletionIsFinal
  <2> QED
    BY <2>1, <2>2, <1>2
<1>4. CASE AnswerWithTools
  <2>1. PICK b \in Batches : batch' = b /\ StartGroup(b, {})
    BY <1>4, Zenon DEF AnswerWithTools
  <2>2. ~completed
    BY <1>4 DEF AnswerWithTools, Final, CompletionIsFinal
  <2>3. b \in Seq(Calls)
    BY <2>1, CallsAssumption
  <2> QED
    BY <2>1, <2>2, <2>3, StartGroupFinal
<1>5. CASE ToolReturns
  <2>1. batch' = batch /\ phase = "tools"
    BY <1>5, ToolReturnsCases
  <2>2. \/ UNCHANGED <<phase, completed>>
        \/ StartGroup(batch, started)
        \/ LevelEnds(results')
    BY <1>5, ToolReturnsCases, Zenon
  <2>3. CASE UNCHANGED <<phase, completed>>
    BY <2>1, <2>3, <1>1
  <2>4. CASE StartGroup(batch, started)
    BY <2>1, <2>4, StartGroupFinal DEF TypeCalls, Final
  <2>5. CASE LevelEnds(results')
    <3>1. CASE completed
      <4>1. \E i \in DOMAIN batch : batch[i] \in CompletionTools
        BY <3>1, <2>1, Zenon DEF Final
      <4>2. phase' = "returned"
        BY <4>1, <2>5, Zenon DEF LevelEnds, ChainGoesOn
      <4> QED
        BY <4>2 DEF Final, CompletionIsFinal
    <3>2. CASE ~completed
      BY <3>2, <2>5, <1>2, Zenon DEF LevelEnds
    <3> QED
      BY <3>1, <3>2
  <2> QED
    BY <2>2, <2>3, <2>4, <2>5
<1>6. CASE ToolAborts \/ LeftoverSettles
  <2>1. phase' = "returned"
    BY <1>6 DEF ToolAborts, LeftoverSettles
  <2> QED
    BY <2>1 DEF Final, CompletionIsFinal
<1>7. CASE Stop \/ UNCHANGED vars
  <2>1. UNCHANGED <<batch, completed, phase>>
    BY <1>7, Zenon DEF Stop, vars, tools
  <2> QED
    BY <2>1, <1>1
<1> QED
  BY <1>3, <1>4, <1>5, <1>6, <1>7, Zenon DEF Next, Progress

-----------------------------------------------------------------------------
(* STOP: the signal of every attempt that begins afterwards is aborted, so *)
(* that none of them gets beyond its first request; and one is followed by *)
(* another only after it has failed unsent.                                *)

Retried ==
  /\ retriedStopped \in Nat /\ unsentStopped \in Nat
  /\ stopped => aborted
  /\ ~stopped => retriedStopped = 0
  /\ retriedStopped # 0 => phase \in Ended \cup {"request", "backoff"}
  /\ retriedStopped <= 1 + unsentStopped
  /\ phase = "backoff" => retriedStopped <= unsentStopped

LEMMA RetriedStep == TypeFlags /\ TypePhase /\ Retried /\ [Next]_vars => Retried'
<1> SUFFICES ASSUME TypeFlags, TypePhase, Retried, [Next]_vars PROVE Retried'
  OBVIOUS
<1>1. CASE Backoff
  <2>1. /\ phase = "backoff" /\ phase' = "request"
        /\ UNCHANGED <<aborted, stopped, unsentStopped>>
        /\ retriedStopped' = IF stopped THEN retriedStopped + 1 ELSE retriedStopped
    BY <1>1, Zenon DEF Backoff
  <2> QED
    BY <2>1 DEF Retried
<1>2. CASE \/ TooManyMessages \/ MaxDepthReached \/ RateLimited
           \/ RefusedAborted \/ CancelledWaiting \/ Answer \/ ToolAborts
           \/ LeftoverSettles
  <2>1. phase' \in {"thrown", "returned"} /\ UNCHANGED signal
    BY <1>2 DEF TooManyMessages, MaxDepthReached, RateLimited, RefusedAborted,
                CancelledWaiting, Answer, ToolAborts, LeftoverSettles, Cancelled,
                Throw
  <2> QED
    BY <2>1 DEF Retried, signal, Ended
\* The attempt failed unsent: it pays for the one that follows.
<1>3. CASE PreparationFails
  <2>1. /\ phase = "request" /\ phase' \in {"exhausted", "backoff"}
        /\ UNCHANGED <<aborted, stopped, retriedStopped>>
        /\ unsentStopped' = IF stopped THEN unsentStopped + 1 ELSE unsentStopped
    BY <1>3 DEF PreparationFails, Admitted, OtherErrorCaught, NextAttempt
  <2> QED
    BY <2>1 DEF Retried, Ended
\* The attempt was sent, so it did not begin after the STOP.
<1>4. CASE RequestFails \/ TextRepeats \/ ParseFails
  <2>1. /\ phase = "model" /\ phase' \in {"exhausted", "backoff"}
        /\ UNCHANGED <<stopped, retriedStopped, unsentStopped>>
        /\ aborted' = aborted \/ aborted' = TRUE
    BY <1>4 DEF RequestFails, TextRepeats, ParseFails, OtherErrorCaught,
                InferErrorCaught, NextAttempt, signal
  <2>2. retriedStopped = 0
    BY <2>1 DEF Retried, Ended
  <2> QED
    BY <2>1, <2>2 DEF Retried
<1>5. CASE Send
  <2>1. phase' = "model" /\ ~aborted /\ UNCHANGED signal
    BY <1>5, Zenon DEF Send
  <2>2. retriedStopped = 0
    BY <2>1, Zenon DEF Retried
  <2> QED
    BY <2>1, <2>2 DEF Retried, signal
<1>6. CASE AnswerWithTools \/ ToolReturns
  <2>1. phase \in {"model", "tools"} /\ UNCHANGED signal
    BY <1>6, ToolReturnsCases DEF AnswerWithTools
  <2>2. phase' # "backoff"
    BY <1>6, <2>1, ToolReturnsCases DEF AnswerWithTools, StartGroup, LevelEnds
  <2>3. retriedStopped = 0
    BY <2>1 DEF Retried, Ended
  <2> QED
    BY <2>1, <2>2, <2>3 DEF Retried, signal
<1>7. CASE Stop
  <2>1. /\ phase' = phase /\ UNCHANGED <<retriedStopped, unsentStopped>>
        /\ stopped' = TRUE /\ aborted' = TRUE
    BY <1>7, Zenon DEF Stop
  <2> QED
    BY <2>1 DEF Retried
<1>8. CASE UNCHANGED vars
  BY <1>8 DEF Retried, vars, signal
<1> QED
  BY <1>1, <1>2, <1>3, <1>4, <1>5, <1>6, <1>7, <1>8, Zenon DEF Next, Progress

-----------------------------------------------------------------------------
(* The theorems                                                            *)

IInv == /\ TypeFlags /\ TypePhase /\ TypeCalls /\ Counts
        /\ Sequenced /\ Final /\ Retried

LEMMA InvariantInitial == Init => IInv
<1> SUFFICES ASSUME Init PROVE IInv
  OBVIOUS
<1>1. Sequenced
  BY DEF Init, Sequenced
<1>2. Final
  BY Zenon DEF Init, Final, CompletionIsFinal
<1>3. Retried
  BY DEF Init, Retried
<1> QED
  BY <1>1, <1>2, <1>3, FlagsInitial, CountsInitial DEF IInv

LEMMA InvariantStep == IInv /\ [Next]_vars => IInv'
BY FlagsStep, PhaseStep, CallsStep, CountsStep, SequencedStep, FinalStep,
   RetriedStep, Zenon DEF IInv

LEMMA Invariance == Spec => []IInv
BY InvariantInitial, InvariantStep, PTL DEF Spec

\* The variables of an inference keep their types, for any tools and limits.
THEOREM TypeCorrect == Spec => []TypeOK
<1>1. Retried => retriedStopped \in Nat /\ unsentStopped \in Nat
  BY DEF Retried
<1>2. IInv => TypeOK
  BY <1>1, TypesMeanTypeOK, Zenon DEF IInv
<1> QED
  BY <1>2, Invariance, PTL

\* Conflicting tool calls of one answer never overlap and run in its order,
\* whatever tools there are and whatever the model asks for.
THEOREM ConflictsAlwaysInOrder == Spec => []ConflictsInOrder
<1>1. IInv => ConflictsInOrder
  BY SequencedMeansInOrder, Zenon DEF IInv
<1> QED
  BY <1>1, Invariance, PTL

\* A completion tool ends the inference, whatever else its answer asked for.
THEOREM CompletionAlwaysFinal == Spec => []CompletionIsFinal
<1>1. IInv => CompletionIsFinal
  BY Zenon DEF IInv, Final
<1> QED
  BY <1>1, Invariance, PTL

\* An attempt begun after STOP is the last unless it fails unsent, for every
\* RetryLimit.
THEOREM CancelAlwaysStopsRetries == Spec => []CancelStopsRetries
<1>1. IInv => CancelStopsRetries
  BY DEF IInv, Retried, CancelStopsRetries
<1> QED
  BY <1>1, Invariance, PTL

\* The requests of an attempt and the attempts are bounded, for every limit.
THEOREM RequestsAreBounded == Spec => []RequestBudget
<1>1. Counts => RequestBudget
  BY LimitsAssumption DEF Counts, RequestBudget
<1>2. IInv => RequestBudget
  BY <1>1, Zenon DEF IInv
<1> QED
  BY <1>2, Invariance, PTL

-----------------------------------------------------------------------------
(* What infer() waits for, and what it sends on                            *)

\* A level that awaits its tools has one that runs.
ToolsAreAwaited == phase = "tools" => running # {}

LEMMA StartGroupAwaited ==
  ASSUME NEW b \in Seq(Calls), NEW planned \in SUBSET DOMAIN b,
         planned # DOMAIN b, StartGroup(b, planned)
  PROVE  ToolsAreAwaited'
<1> DEFINE group == NextGroup(Declared(b), planned)
<1>1. group # {}
  BY PlanNeverStuck
<1>2. /\ running' = {i \in group : b[i] \in Defined}
      /\ phase' = IF \A i \in group : b[i] \in Defined
                  THEN "tools" ELSE "returned"
  BY Zenon DEF StartGroup
<1> HIDE DEF group
<1> QED
  BY <1>1, <1>2 DEF ToolsAreAwaited

LEMMA AwaitedStep == TypeCalls /\ ToolsAreAwaited /\ [Next]_vars => ToolsAreAwaited'
<1> SUFFICES ASSUME TypeCalls, ToolsAreAwaited, [Next]_vars PROVE ToolsAreAwaited'
  OBVIOUS
<1>1. CASE AnswerWithTools
  <2>1. PICK b \in Batches : b # <<>> /\ StartGroup(b, {})
    BY <1>1, Zenon DEF AnswerWithTools
  <2>2. b \in Seq(Calls)
    BY CallsAssumption
  <2>3. {} # DOMAIN b
    <3>1. Len(b) \in Nat /\ DOMAIN b = 1..Len(b) /\ Len(b) # 0
      BY <2>1, <2>2
    <3> QED
      BY <3>1
  <2> QED
    BY <2>1, <2>2, <2>3, StartGroupAwaited
<1>2. CASE ToolReturns
  <2>1. PICK i \in running :
          \/ running # {i} /\ running' = running \ {i}
          \/ started # DOMAIN batch /\ StartGroup(batch, started)
          \/ LevelEnds(results')
    BY <1>2, ToolReturnsCases, Zenon
  <2>2. CASE running # {i} /\ running' = running \ {i}
    BY <2>2 DEF ToolsAreAwaited
  <2>3. CASE started # DOMAIN batch /\ StartGroup(batch, started)
    BY <2>3, StartGroupAwaited DEF TypeCalls
  <2>4. CASE LevelEnds(results')
    BY <2>4 DEF LevelEnds, ToolsAreAwaited
  <2> QED
    BY <2>1, <2>2, <2>3, <2>4
<1>3. CASE phase' # "tools"
  BY <1>3 DEF ToolsAreAwaited
<1>4. CASE UNCHANGED <<phase, running>>
  BY <1>4 DEF ToolsAreAwaited
<1>5. CASE \/ Backoff \/ TooManyMessages \/ MaxDepthReached \/ RateLimited
           \/ PreparationFails \/ RefusedAborted \/ Send \/ CancelledWaiting
           \/ RequestFails \/ TextRepeats \/ ParseFails \/ Answer
           \/ ToolAborts \/ LeftoverSettles
  <2>1. phase' # "tools"
    BY <1>5 DEF Backoff, TooManyMessages, MaxDepthReached, RateLimited,
       PreparationFails, RefusedAborted, Send, CancelledWaiting, RequestFails,
       TextRepeats, ParseFails, Answer, ToolAborts, LeftoverSettles, Cancelled,
       Throw, OtherErrorCaught, InferErrorCaught, NextAttempt
  <2> QED
    BY <1>3, <2>1
<1>6. CASE Stop \/ UNCHANGED vars
  <2>1. UNCHANGED <<phase, running>>
    BY <1>6, Zenon DEF Stop, vars, tools
  <2> QED
    BY <1>4, <2>1
<1> QED
  BY <1>1, <1>2, <1>5, <1>6, Zenon DEF Next, Progress

\* executeToolCallsWithDependencies() never awaits an empty group: while a
\* level waits for its tools one is running, so the level can go on.
THEOREM ToolsAlwaysAwaited == Spec => []ToolsAreAwaited
<1>1. Init => ToolsAreAwaited
  BY DEF Init, ToolsAreAwaited
<1>2. IInv /\ ToolsAreAwaited /\ [Next]_vars => ToolsAreAwaited'
  BY AwaitedStep DEF IInv
<1> QED
  BY <1>1, <1>2, Invariance, PTL DEF Spec

\* After STOP nothing more is sent: no attempt that begins, however often the
\* preparation of one fails, and no level of a chain asks the model again (the
\* abortSignal that all of them share).
THEOREM NothingSentAfterStop ==
  Spec => [][stopped /\ phase # "model" => phase' # "model"]_vars
<1>1. ASSUME TypePhase, Retried, Next, stopped, phase # "model"
      PROVE  phase' # "model"
  <2>1. ~Send
    BY <1>1, Zenon DEF Retried, Send
  <2>2. CASE \/ Backoff \/ TooManyMessages \/ MaxDepthReached \/ RateLimited
             \/ PreparationFails \/ RefusedAborted \/ CancelledWaiting
             \/ RequestFails \/ TextRepeats \/ ParseFails \/ Answer
             \/ ToolAborts \/ LeftoverSettles \/ Stop
    BY <1>1, <2>2 DEF Backoff, TooManyMessages, MaxDepthReached, RateLimited,
       PreparationFails, RefusedAborted, CancelledWaiting, RequestFails,
       TextRepeats, ParseFails, Answer, ToolAborts, LeftoverSettles, Stop,
       Cancelled, Throw, OtherErrorCaught, InferErrorCaught, NextAttempt
  <2>3. CASE AnswerWithTools
    BY <2>3, Zenon DEF AnswerWithTools, StartGroup
  <2>4. CASE ToolReturns
    BY <1>1, <2>4, ToolReturnsCases, Zenon DEF StartGroup, LevelEnds
  <2> QED
    BY <1>1, <2>1, <2>2, <2>3, <2>4, Zenon DEF Next, Progress
<1>2. IInv /\ [Next]_vars => [stopped /\ phase # "model" => phase' # "model"]_vars
  BY <1>1 DEF IInv
<1> QED
  BY <1>2, Invariance, PTL DEF Spec

\* The name of the model loses its provider between the levels of a chain only.
WholeAtFirst == phase \in {"request", "backoff"} /\ depth = 0 => ~stripped

LEMMA WholeAtFirstStep == Counts /\ WholeAtFirst /\ [Next]_vars => WholeAtFirst'
<1> SUFFICES ASSUME Counts, WholeAtFirst, [Next]_vars PROVE WholeAtFirst'
  OBVIOUS
<1> USE DEF WholeAtFirst
<1>1. CASE PreparationFails \/ RequestFails \/ TextRepeats \/ ParseFails
  BY <1>1 DEF PreparationFails, RequestFails, TextRepeats, ParseFails,
              OtherErrorCaught, InferErrorCaught, NewChain
<1>2. CASE Send
  BY <1>2 DEF Send
<1>3. CASE AnswerWithTools
  BY <1>3, Zenon DEF AnswerWithTools, StartGroup
<1>4. CASE ToolReturns
  <2>1. phase = "tools" /\ stripped' = stripped /\ depth \in Nat
    BY <1>4, ToolReturnsCases, LimitsAssumption DEF Counts
  <2>2. \/ phase' \in {"tools", "returned"}
        \/ depth' = depth + 1
    BY <1>4, <2>1, ToolReturnsCases DEF StartGroup, LevelEnds
  <2> QED
    BY <2>1, <2>2
<1>5. CASE \/ TooManyMessages \/ MaxDepthReached \/ RateLimited \/ RefusedAborted
           \/ CancelledWaiting \/ Answer \/ ToolAborts \/ LeftoverSettles
  BY <1>5 DEF TooManyMessages, MaxDepthReached, RateLimited, RefusedAborted,
     CancelledWaiting, Cancelled, Throw, Answer, ToolAborts, LeftoverSettles
<1>6. CASE Backoff \/ Stop \/ UNCHANGED vars
  BY <1>6 DEF Backoff, Stop, vars, level
<1> QED
  BY <1>1, <1>2, <1>3, <1>4, <1>5, <1>6, Zenon DEF Next, Progress

\* The first request of every attempt is prepared under a whole name, whichever
\* way the attempt before it was sent (modelName is infer()'s own parameter):
\* the lost provider costs the results of tools, and never an attempt as such.
THEOREM AlwaysWholeAtFirst == Spec => []WholeAtFirst
<1>1. Init => WholeAtFirst
  BY DEF Init, WholeAtFirst
<1>2. IInv /\ WholeAtFirst /\ [Next]_vars => WholeAtFirst'
  BY WholeAtFirstStep DEF IInv
<1> QED
  BY <1>1, <1>2, Invariance, PTL DEF Spec

-----------------------------------------------------------------------------
(* What becomes of the calls of an answer                                  *)

\* When the model is asked again, it is after every call of its last answer
\* was started and has settled, whatever groups they fell into and whichever
\* failed; none of them was a completion, and some result goes with it.
AnsweredInFull ==
  phase \in {"request", "model"} /\ depth > 0 =>
    /\ started = DOMAIN batch /\ running = {} /\ results # {}
    /\ \A i \in DOMAIN batch : batch[i] \notin CompletionTools

LEMMA AnsweredStep ==
  Counts /\ TypePhase /\ AnsweredInFull /\ [Next]_vars => AnsweredInFull'
<1> SUFFICES ASSUME Counts, TypePhase, AnsweredInFull, [Next]_vars
             PROVE  AnsweredInFull'
  OBVIOUS
<1> USE DEF AnsweredInFull
<1>1. CASE \/ TooManyMessages \/ MaxDepthReached \/ RateLimited \/ RefusedAborted
           \/ CancelledWaiting \/ Answer \/ ToolAborts \/ LeftoverSettles
  BY <1>1 DEF TooManyMessages, MaxDepthReached, RateLimited, RefusedAborted,
     CancelledWaiting, Cancelled, Throw, Answer, ToolAborts, LeftoverSettles
<1>2. CASE Backoff
  <2>1. phase = "backoff" /\ depth' = depth
    BY <1>2, Zenon DEF Backoff, level
  <2> QED
    BY <2>1 DEF Counts
<1>3. CASE PreparationFails \/ RequestFails \/ TextRepeats \/ ParseFails
  BY <1>3 DEF PreparationFails, RequestFails, TextRepeats, ParseFails,
     OtherErrorCaught, InferErrorCaught, NextAttempt
<1>4. CASE Send
  BY <1>4 DEF Send, Admitted, tools
<1>5. CASE AnswerWithTools
  BY <1>5, Zenon DEF AnswerWithTools, StartGroup
<1>6. CASE ToolReturns
  <2>1. phase = "tools" /\ batch' = batch
    BY <1>6, ToolReturnsCases
  <2>2. PICK i \in running :
          \/ phase' = phase
          \/ StartGroup(batch, started)
          \/ LevelEnds(results')
    BY <1>6, ToolReturnsCases
  <2>3. CASE phase' = phase \/ StartGroup(batch, started)
    BY <2>1, <2>3, Zenon DEF StartGroup
  <2>4. CASE LevelEnds(results')
    <3>1. /\ started = DOMAIN batch /\ started' = started /\ running' = {}
          /\ phase' = IF ChainGoesOn(results') THEN "request" ELSE "returned"
      BY <2>4, Zenon DEF LevelEnds
    <3>2. ChainGoesOn(results') => /\ results' # {}
                                   /\ \A k \in DOMAIN batch : batch[k] \notin CompletionTools
      BY Zenon DEF ChainGoesOn
    <3> QED
      BY <2>1, <3>1, <3>2
  <2> QED
    BY <2>2, <2>3, <2>4
<1>7. CASE Stop \/ UNCHANGED vars
  BY <1>7 DEF Stop, vars, tools, level
<1> QED
  BY <1>1, <1>2, <1>3, <1>4, <1>5, <1>6, <1>7, Zenon DEF Next, Progress

\* infer() asks the model again with the results of the whole answer.
THEOREM AlwaysAnsweredInFull == Spec => []AnsweredInFull
<1>1. Init => AnsweredInFull
  BY DEF Init, AnsweredInFull
<1>2. IInv /\ AnsweredInFull /\ [Next]_vars => AnsweredInFull'
  BY AnsweredStep DEF IInv
<1> QED
  BY <1>1, <1>2, Invariance, PTL DEF Spec

\* A tool call that has settled is not run again for the same answer, however
\* the groups were made and whichever of their calls failed: its effects
\* happen once (executeToolCallsWithDependencies()).
THEOREM NoCallRunsTwice ==
  Spec => [][phase # "model" => (started \ running) \cap running' = {}]_vars
<1>1. ASSUME TypeCalls, Next, phase # "model"
      PROVE  (started \ running) \cap running' = {}
  <2>1. CASE running' \subseteq running
    BY <2>1
  <2>2. CASE ToolReturns
    <3>1. PICK i \in running :
            \/ running' = running \ {i} \/ running' = {}
            \/ StartGroup(batch, started)
      BY <2>2, ToolReturnsCases, Zenon DEF LevelEnds
    <3>2. CASE StartGroup(batch, started)
      <4>1. running' \cap started = {}
        BY <1>1, <3>2, StartGroupFacts DEF TypeCalls
      <4> QED
        BY <4>1
    <3> QED
      BY <2>1, <3>1, <3>2
  <2>3. CASE ToolAborts \/ LeftoverSettles
    BY <2>1, <2>3 DEF ToolAborts, LeftoverSettles
  <2>4. CASE UNCHANGED running
    BY <2>1, <2>4
  <2>5. ~AnswerWithTools
    BY <1>1 DEF AnswerWithTools
  <2> QED
    BY <1>1, <2>2, <2>3, <2>4, <2>5, Zenon DEF Next, Progress, Backoff,
       TooManyMessages, MaxDepthReached, RateLimited, PreparationFails,
       RefusedAborted, Send, CancelledWaiting, RequestFails, TextRepeats,
       ParseFails, Answer, Stop, tools
<1>2. TypeCalls /\ [Next]_vars
        => [phase # "model" => (started \ running) \cap running' = {}]_vars
  BY <1>1
<1>3. IInv => TypeCalls
  BY DEF IInv
<1> QED
  BY <1>2, <1>3, Invariance, PTL DEF Spec
=============================================================================
