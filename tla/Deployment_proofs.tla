--------------------------- MODULE Deployment_proofs --------------------------
(***************************************************************************)
(* What Deployment guarantees for any number of callers and overlapping    *)
(* retry loops, proved with TLAPS.                                         *)
(***************************************************************************)
EXTENDS Deployment, TLAPS

(* At most one caller answers for the shared promise.                      *)
OneCreator ==
  /\ \A c \in creators : waits[c] # NoLoop
  /\ \A c, d \in creators : c = d

(* A loop that has yet to write its files will see that there is a health  *)
(* check.                                                                  *)
WillStart == \E l \in Loops : at[l] \in {"creating", "writing", "backoff"}

(* InstanceIsWatched, seen from within a deployment.                       *)
Started ==
  deployed \/ (\E l \in Loops : at[l] = "setup") =>
    interval \/ missed \/ WillStart

(* Without an overlap, the loop that runs is alone.                        *)
OneLoop ==
  ~overlapped =>
    \A k, l \in Loops : at[k] # "free" /\ at[l] # "free" => k = l

IInv ==
  /\ TypeOK
  /\ PromiseIsAttended
  /\ OneCreator
  /\ OneLoop
  /\ InstanceIsRecorded
  /\ Started

-----------------------------------------------------------------------------
(* A new loop starts with a recorded instance or makes one.               *)
LEMMA EnsureType ==
  ASSUME TypeOK, NEW l \in Loops, NEW forced \in BOOLEAN,
         EnsureInstance(l, forced)
  PROVE  /\ at' \in [Loops -> Awaits \cup {"free"}]
         /\ recorded' \in BOOLEAN
<1>1. at' \in [Loops -> Awaits \cup {"free"}]
  BY DEF EnsureInstance, TypeOK, Awaits
<1>2. recorded' \in BOOLEAN
  BY Zenon DEF EnsureInstance, TypeOK, FlagsOK
<1> QED
  BY <1>1, <1>2

(* The two ways to enter deployToSandbox() keep the types.                 *)
LEMMA DeployType ==
  ASSUME TypeOK, NEW c \in Callers, NEW forced \in BOOLEAN,
         DeployToSandbox(c, forced)
  PROVE  /\ promise' \in Loops \cup {NoLoop}
         /\ waits' \in [Callers -> Loops \cup {NoLoop}]
         /\ creators' \subseteq Callers
         /\ at' \in [Loops -> Awaits \cup {"free"}]
         /\ redeploy' \subseteq Loops /\ made' \subseteq Loops
         /\ retried' \subseteq Loops
         /\ recorded' \in BOOLEAN /\ overlapped' \in BOOLEAN
<1>1. CASE Join(c)
  <2>1. waits' \in [Callers -> Loops \cup {NoLoop}]
    BY <1>1 DEF Join, TypeOK
  <2>2. recorded' \in BOOLEAN /\ overlapped' \in BOOLEAN
    BY <1>1, Zenon DEF Join, TypeOK, FlagsOK
  <2> QED
    BY <1>1, <2>1, <2>2 DEF Join, TypeOK
<1>2. CASE Create(c, forced)
  <2>1. PICK l \in Loops :
          /\ EnsureInstance(l, forced)
          /\ promise' = l /\ waits' = [waits EXCEPT ![c] = l]
          /\ creators' = creators \cup {c}
          /\ redeploy' = IF forced THEN redeploy \cup {l} ELSE redeploy \ {l}
          /\ made' = made \ {l} /\ retried' = retried \ {l}
          /\ overlapped' = (overlapped \/ \E k \in Loops : at[k] # "free")
    BY <1>2, Zenon DEF Create
  <2>2. at' \in [Loops -> Awaits \cup {"free"}] /\ recorded' \in BOOLEAN
    BY <2>1, EnsureType
  <2>3. overlapped' \in BOOLEAN
    BY <2>1, Zenon DEF TypeOK, FlagsOK
  <2>4. redeploy' \subseteq Loops /\ made' \subseteq Loops /\ retried' \subseteq Loops
    BY <2>1, Zenon DEF TypeOK
  <2>5. waits' \in [Callers -> Loops \cup {NoLoop}] /\ creators' \subseteq Callers
    BY <2>1 DEF TypeOK
  <2> QED
    BY <2>1, <2>2, <2>3, <2>4, <2>5
<1> QED
  BY <1>1, <1>2 DEF DeployToSandbox

(* Whether it succeeds or not, createInstance() leaves no healthy server   *)
(* without an instance.                                                    *)
LEMMA InstanceType ==
  ASSUME FlagsOK, Instance \/ NoInstance
  PROVE  exists' \in BOOLEAN /\ healthy' \in BOOLEAN /\ (healthy' => exists')
<1>1. CASE Instance
  BY <1>1, Zenon DEF Instance
<1>2. CASE UNCHANGED exists /\ healthy' = healthy
  BY <1>2, Zenon DEF FlagsOK
<1>3. CASE UNCHANGED exists /\ healthy' = FALSE
  BY <1>3, Zenon DEF FlagsOK
<1> QED
  BY <1>1, <1>2, <1>3, Zenon DEF NoInstance

LEMMA FlagsStep == TypeOK /\ [Next]_vars => FlagsOK'
<1> SUFFICES ASSUME TypeOK, FlagsOK, [Next]_vars PROVE FlagsOK'
  BY DEF TypeOK
<1> USE DEF FlagsOK, sandbox, history
<1>1. CASE Deploy
  BY <1>1, DeployType, Zenon DEF Deploy
<1>2. CASE HealthCheckFails
  BY <1>2, DeployType, Zenon DEF HealthCheckFails
<1>3. CASE LateAttemptEnds
  <2>1. recorded' \in BOOLEAN
    BY <1>3, Zenon DEF LateAttemptEnds
  <2>2. Instance \/ NoInstance
    BY <1>3, Zenon DEF LateAttemptEnds
  <2> QED
    BY <1>3, <2>1, <2>2, InstanceType, Zenon DEF LateAttemptEnds
<1>4. CASE ServerChanges
  BY <1>4, Zenon DEF ServerChanges
<1>5. ASSUME NEW l \in Loops, Attempt(l) PROVE FlagsOK'
  <2>1. CASE Created(l)
    BY <2>1, Zenon DEF Created, Instance
  <2>2. CASE CreateFails(l)
    BY <2>2, InstanceType, Zenon DEF CreateFails, Fail
  <2>3. CASE AttemptTimesOut(l)
    BY <2>3, Zenon DEF AttemptTimesOut, Fail
  <2>4. CASE Written(l) \/ SetupEnds(l)
    <3>1. deployed' \in BOOLEAN /\ interval' \in BOOLEAN /\ missed' \in BOOLEAN
      BY <2>4, Zenon DEF Written, SetupEnds, Resolve, calls
    <3>2. UNCHANGED <<recorded, exists, healthy, overlapped>>
      BY <2>4, Zenon DEF Written, SetupEnds
    <3> QED
      BY <3>1, <3>2, Zenon
  <2>5. CASE WriteOrSetupFails(l)
    BY <2>5, Zenon DEF WriteOrSetupFails, Fail
  <2>6. CASE BackoffEnds(l)
    BY <2>6, Zenon DEF BackoffEnds, EnsureInstance
  <2> QED
    BY <1>5, <2>1, <2>2, <2>3, <2>4, <2>5, <2>6 DEF Attempt
<1>6. ASSUME NEW c \in Callers, TimesOut(c) PROVE FlagsOK'
  BY <1>6 DEF TimesOut, CreatorTimesOut, JoinerTimesOut
<1>7. CASE UNCHANGED vars
  BY <1>7 DEF vars
<1> QED
  BY <1>1, <1>2, <1>3, <1>4, <1>5, <1>6, <1>7 DEF Next

LEMMA TypeInitial == Init => TypeOK
<1> SUFFICES ASSUME Init PROVE TypeOK
  OBVIOUS
<1>1. FlagsOK
  BY DEF Init, FlagsOK
<1>2. late \in 0..MaxLate
  BY LateAssumption DEF Init
<1> QED
  BY <1>1, <1>2 DEF Init, TypeOK

LEMMA TypeStep == TypeOK /\ [Next]_vars => TypeOK'
<1> SUFFICES ASSUME TypeOK, [Next]_vars PROVE TypeOK'
  OBVIOUS
<1>f. FlagsOK'
  BY FlagsStep
<1>l. late' \in 0..MaxLate
  <2> USE LateAssumption DEF TypeOK
  <2>1. CASE LateAttemptEnds
    BY <2>1 DEF LateAttemptEnds
  <2>2. ASSUME NEW l \in Loops, AttemptTimesOut(l) PROVE late' \in 0..MaxLate
    BY <2>2 DEF AttemptTimesOut
  <2>3. ASSUME UNCHANGED late PROVE late' \in 0..MaxLate
    BY <2>3
  <2> QED
    BY <2>1, <2>2, <2>3
    DEF Next, vars, Deploy, HealthCheckFails, ServerChanges, Attempt, Created,
        CreateFails, Written, SetupEnds, WriteOrSetupFails, BackoffEnds,
        TimesOut, CreatorTimesOut, JoinerTimesOut
<1>1. CASE Deploy \/ HealthCheckFails
  BY <1>1, <1>f, <1>l, DeployType DEF Deploy, HealthCheckFails, TypeOK
<1> USE DEF TypeOK, calls, locals
<1>3. CASE LateAttemptEnds \/ ServerChanges
  BY <1>3, <1>f, <1>l DEF LateAttemptEnds, ServerChanges
<1>5. ASSUME NEW l \in Loops, Attempt(l) PROVE TypeOK'
  <2> USE <1>f, <1>l DEF Awaits
  <2>1. CASE Created(l)
    BY <2>1 DEF Created
  <2>2. CASE CreateFails(l) \/ AttemptTimesOut(l) \/ WriteOrSetupFails(l)
    BY <2>2 DEF CreateFails, AttemptTimesOut, WriteOrSetupFails, Fail
  <2>4. CASE Written(l) \/ SetupEnds(l)
    BY <2>4 DEF Written, SetupEnds, Resolve
  <2>7. CASE BackoffEnds(l)
    <3>1. at' \in [Loops -> Awaits \cup {"free"}]
      BY <2>7 DEF BackoffEnds, EnsureInstance
    <3> QED
      BY <2>7, <3>1 DEF BackoffEnds
  <2> QED
    BY <1>5, <2>1, <2>2, <2>4, <2>7 DEF Attempt
<1>6. ASSUME NEW c \in Callers, TimesOut(c) PROVE TypeOK'
  BY <1>6, <1>f, <1>l DEF TimesOut, CreatorTimesOut, JoinerTimesOut
<1>7. CASE UNCHANGED vars
  BY <1>7, <1>f, <1>l DEF vars
<1> QED
  BY <1>1, <1>3, <1>5, <1>6, <1>7 DEF Next

-----------------------------------------------------------------------------
(* A caller enters an idle manager, or shares the promise of another.      *)
LEMMA DeployStep ==
  ASSUME IInv, NEW c \in Callers, NEW forced \in BOOLEAN,
         DeployToSandbox(c, forced)
  PROVE  PromiseIsAttended' /\ OneCreator' /\ OneLoop'
<1> USE NoLoopAssumption
    DEF IInv, TypeOK, PromiseIsAttended, OneCreator, OneLoop, DeployToSandbox
<1>1. CASE promise # NoLoop /\ Join(c)
  BY <1>1 DEF Join
<1>2. CASE promise = NoLoop /\ Create(c, forced)
  <2>1. PICK l \in Loops :
          /\ at[l] = "free"
          /\ EnsureInstance(l, forced)
          /\ promise' = l /\ waits' = [waits EXCEPT ![c] = l]
          /\ creators' = creators \cup {c}
          /\ overlapped' = (overlapped \/ \E k \in Loops : at[k] # "free")
    BY <1>2 DEF Create
  <2>2. creators = {} /\ promise = NoLoop
    BY <1>2
  <2>3. /\ at'[l] # "free"
        /\ \A k \in Loops \ {l} : at'[k] = at[k]
    BY <2>1 DEF EnsureInstance
  <2>4. OneLoop'
    BY <2>1, <2>3
  <2> QED
    BY <2>1, <2>2, <2>3, <2>4
<1> QED
  BY <1>1, <1>2

(* The end of a loop answers everyone who waits for it.                    *)
LEMMA ResolveStep ==
  ASSUME IInv, NEW l \in Loops, at[l] # "free", Resolve(l),
         UNCHANGED overlapped
  PROVE  PromiseIsAttended' /\ OneCreator' /\ OneLoop'
<1> USE NoLoopAssumption
    DEF IInv, TypeOK, PromiseIsAttended, OneCreator, OneLoop, Resolve
<1>1. PromiseIsAttended' /\ OneCreator'
  OBVIOUS
<1>2. OneLoop'
  OBVIOUS
<1> QED
  BY <1>1, <1>2

(* A step of a loop that stays alive tells nobody.                         *)
LEMMA AliveStep ==
  ASSUME IInv, NEW l \in Loops, at[l] # "free",
         NEW w \in Awaits, at' = [at EXCEPT ![l] = w],
         UNCHANGED <<calls, overlapped>>
  PROVE  PromiseIsAttended' /\ OneCreator' /\ OneLoop'
  BY NoLoopAssumption
  DEF IInv, TypeOK, PromiseIsAttended, OneCreator, OneLoop, calls, Awaits

LEMMA CallsStep ==
  IInv /\ [Next]_vars => PromiseIsAttended' /\ OneCreator' /\ OneLoop'
<1> SUFFICES ASSUME IInv, [Next]_vars
             PROVE  PromiseIsAttended' /\ OneCreator' /\ OneLoop'
  OBVIOUS
<1>1. CASE Deploy \/ HealthCheckFails
  BY <1>1, DeployStep DEF Deploy, HealthCheckFails
<1>2. CASE LateAttemptEnds \/ ServerChanges \/ UNCHANGED vars
  BY <1>2
  DEF LateAttemptEnds, ServerChanges, vars, calls, history, IInv,
      PromiseIsAttended, OneCreator, OneLoop
<1>3. ASSUME NEW l \in Loops, Attempt(l)
      PROVE  PromiseIsAttended' /\ OneCreator' /\ OneLoop'
  <2>1. CASE Created(l)
    BY <2>1, AliveStep DEF Created, history, Awaits
  <2>2. CASE CreateFails(l) \/ AttemptTimesOut(l) \/ WriteOrSetupFails(l)
    BY <2>2, AliveStep
    DEF CreateFails, AttemptTimesOut, WriteOrSetupFails, Fail, history, Awaits
  <2>3. CASE BackoffEnds(l)
    BY <2>3, AliveStep DEF BackoffEnds, EnsureInstance, history, Awaits
  <2>4. CASE SetupEnds(l)
    BY <2>4, ResolveStep DEF SetupEnds
  <2>5. CASE Written(l)
    <3>1. CASE Resolve(l)
      BY <2>5, <3>1, ResolveStep DEF Written
    <3>2. CASE at' = [at EXCEPT ![l] = "setup"] /\ UNCHANGED calls
      BY <2>5, <3>2, AliveStep DEF Written, Awaits
    <3> QED
      BY <2>5, <3>1, <3>2 DEF Written
  <2> QED
    BY <1>3, <2>1, <2>2, <2>3, <2>4, <2>5 DEF Attempt
<1>4. ASSUME NEW c \in Callers, TimesOut(c)
      PROVE  PromiseIsAttended' /\ OneCreator' /\ OneLoop'
  <2> USE NoLoopAssumption DEF IInv, TypeOK
  <2>1. OneLoop'
    BY <1>4, Zenon
    DEF TimesOut, CreatorTimesOut, JoinerTimesOut, history, OneLoop
  <2>2. CASE CreatorTimesOut(c)
    <3>1. creators' = {} /\ promise' = NoLoop
      BY <2>2, Zenon DEF CreatorTimesOut, OneCreator
    <3>2. PromiseIsAttended' /\ OneCreator'
      BY <2>2, <3>1 DEF CreatorTimesOut, PromiseIsAttended, OneCreator
    <3> QED
      BY <2>1, <3>2
  <2>3. CASE JoinerTimesOut(c)
    BY <2>1, <2>3 DEF JoinerTimesOut, PromiseIsAttended, OneCreator
  <2> QED
    BY <1>4, <2>2, <2>3 DEF TimesOut
<1> QED
  BY <1>1, <1>2, <1>3, <1>4 DEF Next

-----------------------------------------------------------------------------
(* What is recorded is forgotten by a new or a failed deployment only.     *)
LEMMA RecordedStep == IInv /\ [Next]_vars => InstanceIsRecorded'
<1> SUFFICES ASSUME IInv, [Next]_vars, ~overlapped' PROVE InstanceIsRecorded'
  BY DEF InstanceIsRecorded
<1>o. OneLoop' /\ TypeOK'
  BY CallsStep, TypeStep DEF IInv
<1> USE DEF IInv, InstanceIsRecorded, OneLoop, TypeOK, Quiet
<1>1. ASSUME NEW c \in Callers, NEW forced \in BOOLEAN,
             DeployToSandbox(c, forced), UNCHANGED deployed
      PROVE  InstanceIsRecorded'
  <2>1. CASE Join(c)
    BY <1>1, <2>1 DEF Join
  <2>2. CASE Create(c, forced)
    <3>1. PICK l \in Loops :
            /\ EnsureInstance(l, forced)
            /\ overlapped' = (overlapped \/ \E k \in Loops : at[k] # "free")
      BY <2>2 DEF Create
    <3>2. \A k \in Loops : at[k] = "free"
      BY <3>1
    <3> QED
      BY <3>1, <3>2 DEF EnsureInstance
  <2> QED
    BY <1>1, <2>1, <2>2 DEF DeployToSandbox
<1>2. CASE Deploy \/ HealthCheckFails
  BY <1>1, <1>2 DEF Deploy, HealthCheckFails
<1>3. CASE LateAttemptEnds
  BY <1>3 DEF LateAttemptEnds, history
<1>4. CASE ServerChanges \/ UNCHANGED vars
  BY <1>4 DEF ServerChanges, vars, history
<1>5. ASSUME NEW l \in Loops, Attempt(l) PROVE InstanceIsRecorded'
  <2>1. CASE Created(l)
    BY <2>1 DEF Created, history
  <2>2. CASE CreateFails(l) \/ AttemptTimesOut(l) \/ WriteOrSetupFails(l)
    <3>1. at[l] # "free" /\ at'[l] = "backoff"
      BY <2>2 DEF CreateFails, AttemptTimesOut, WriteOrSetupFails, Fail
    <3> QED
      BY <1>o, <3>1
  <2>3. CASE BackoffEnds(l)
    <3>1. at'[l] # "free" /\ (at'[l] = "writing" => recorded')
      BY <2>3 DEF BackoffEnds, EnsureInstance
    <3>2. at'[l] # "setup"
      BY <2>3 DEF BackoffEnds, EnsureInstance
    <3> QED
      BY <1>o, <3>1, <3>2
  <2>4. CASE Written(l) \/ SetupEnds(l)
    <3>1. recorded /\ UNCHANGED recorded
      BY <2>4 DEF Written, SetupEnds
    <3> QED
      BY <3>1
  <2> QED
    BY <1>5, <2>1, <2>2, <2>3, <2>4 DEF Attempt
<1>6. ASSUME NEW c \in Callers, TimesOut(c) PROVE InstanceIsRecorded'
  BY <1>6 DEF TimesOut, CreatorTimesOut, JoinerTimesOut, history
<1> QED
  BY <1>2, <1>3, <1>4, <1>5, <1>6 DEF Next

(* A deployment can end only after someone has seen to the health check.   *)
LEMMA StartedStep == IInv /\ [Next]_vars => Started'
<1> SUFFICES ASSUME IInv, [Next]_vars PROVE Started'
  OBVIOUS
<1> USE DEF IInv, Started, WillStart, TypeOK
<1>1. ASSUME NEW c \in Callers, NEW forced \in BOOLEAN,
             DeployToSandbox(c, forced)
      PROVE  /\ \A k \in Loops : at[k] # "free" => at'[k] = at[k]
             /\ \A k \in Loops : at'[k] = "setup" => at[k] = "setup"
             /\ promise = NoLoop => WillStart'
  <2>1. CASE promise # NoLoop /\ Join(c)
    BY <2>1 DEF Join
  <2>2. CASE promise = NoLoop /\ Create(c, forced)
    BY <2>2 DEF Create, EnsureInstance
  <2> QED
    BY <1>1, <2>1, <2>2 DEF DeployToSandbox
<1>2. CASE Deploy
  BY <1>1, <1>2 DEF Deploy
<1>3. CASE HealthCheckFails
  <2>1. CASE promise = NoLoop
    BY <1>1, <1>3, <2>1 DEF HealthCheckFails
  <2>2. CASE promise # NoLoop /\ at[promise] = "setup"
    BY <1>3, <2>2 DEF HealthCheckFails
  <2>3. CASE promise # NoLoop /\ at[promise] # "setup"
    <3>1. promise \in Loops /\ at[promise] # "free"
      BY <2>3, NoLoopAssumption DEF PromiseIsAttended
    <3>2. at[promise] \in {"creating", "writing", "backoff"}
      BY <2>3, <3>1 DEF Awaits
    <3> QED
      BY <1>1, <1>3, <3>1, <3>2 DEF HealthCheckFails
  <2> QED
    BY <2>1, <2>2, <2>3
<1>4. CASE LateAttemptEnds \/ ServerChanges \/ UNCHANGED vars
  BY <1>4 DEF LateAttemptEnds, ServerChanges, vars, history
<1>5. ASSUME NEW l \in Loops, Attempt(l) PROVE Started'
  <2>1. CASE Created(l) \/ BackoffEnds(l)
    BY <2>1 DEF Created, BackoffEnds, EnsureInstance, history
  <2>2. CASE CreateFails(l) \/ AttemptTimesOut(l) \/ WriteOrSetupFails(l)
    BY <2>2 DEF CreateFails, AttemptTimesOut, WriteOrSetupFails, Fail
  <2>3. CASE Written(l)
    BY <2>3 DEF Written
  <2>4. CASE SetupEnds(l)
    BY <2>4 DEF SetupEnds, Resolve
  <2> QED
    BY <1>5, <2>1, <2>2, <2>3, <2>4 DEF Attempt
<1>6. ASSUME NEW c \in Callers, TimesOut(c) PROVE Started'
  BY <1>6 DEF TimesOut, CreatorTimesOut, JoinerTimesOut, history
<1> QED
  BY <1>2, <1>3, <1>4, <1>5, <1>6 DEF Next

-----------------------------------------------------------------------------
LEMMA Initial == Init => IInv
<1> SUFFICES ASSUME Init PROVE IInv
  OBVIOUS
<1>1. TypeOK
  BY TypeInitial
<1> QED
  BY <1>1, NoLoopAssumption
  DEF Init, IInv, PromiseIsAttended, OneCreator, OneLoop, InstanceIsRecorded,
      Started

LEMMA Step == IInv /\ [Next]_vars => IInv'
  BY TypeStep, CallsStep, RecordedStep, StartedStep DEF IInv

LEMMA Invariance == Spec => []IInv
  BY Initial, Step, PTL DEF Spec

-----------------------------------------------------------------------------
(* The variables of the manager keep their types, and no server is healthy *)
(* without an instance.                                                    *)
THEOREM TypeCorrect == Spec => []TypeOK
<1>1. IInv => TypeOK
  BY DEF IInv
<1> QED
  BY <1>1, Invariance, PTL

(* currentDeploymentPromise is never left behind: its loop runs, and the   *)
(* caller that will clear it waits.                                        *)
THEOREM PromisesAreAttended == Spec => []PromiseIsAttended
<1>1. IInv => PromiseIsAttended
  BY DEF IInv
<1> QED
  BY <1>1, Invariance, PTL

(* Attempts that outlive their timeout do not make the agent forget its    *)
(* instance; only a second loop can.                                       *)
THEOREM InstancesAreRecorded == Spec => []InstanceIsRecorded
<1>1. IInv => InstanceIsRecorded
  BY DEF IInv
<1> QED
  BY <1>1, Invariance, PTL

(* After a successful deployment the instance has a health check, but for  *)
(* the check that failed during the setup commands.                        *)
THEOREM InstancesAreWatched == Spec => []InstanceIsWatched
<1>1. IInv => InstanceIsWatched
  BY DEF IInv, Started, WillStart, InstanceIsWatched, Quiet
<1> QED
  BY <1>1, Invariance, PTL

-----------------------------------------------------------------------------
(* Refinement: deployToSandbox() is the shared call's Begin or Join, the   *)
(* end of a loop its Answer, the timeouts its GiveUp; a loop that retries  *)
(* stays the same run, and a late attempt is nothing to the callers.       *)

Alive == {l \in Loops : at[l] # "free"}

(* A call of deployToSandbox() begins a run or joins the current one.      *)
LEMMA DeployCalls ==
  ASSUME IInv, NEW c \in Callers, NEW forced \in BOOLEAN,
         DeployToSandbox(c, forced)
  PROVE  Call!Next
<1> USE NoLoopAssumption DEF IInv, TypeOK
<1>1. CASE promise # NoLoop /\ Join(c)
  <2>1. Call!Join(c)
    BY <1>1 DEF DeployToSandbox, Join, Call!Join
  <2> QED
    BY <2>1 DEF Call!Next
<1>2. CASE promise = NoLoop /\ Create(c, forced)
  <2>1. PICK l \in Loops :
          /\ at[l] = "free"
          /\ EnsureInstance(l, forced)
          /\ promise' = l /\ waits' = [waits EXCEPT ![c] = l]
    BY <1>2 DEF Create
  <2>2. at'[l] # "free" /\ \A k \in Loops \ {l} : at'[k] = at[k]
    BY <2>1 DEF EnsureInstance
  <2>3. l \in Loops \ Alive /\ Alive' = Alive \cup {l}
    BY <2>1, <2>2 DEF Alive
  <2>4. Call!Begin(c)
    BY <1>2, <2>1, <2>3 DEF DeployToSandbox, Call!Begin, Alive
  <2> QED
    BY <2>4 DEF Call!Next
<1> QED
  BY <1>1, <1>2 DEF DeployToSandbox

(* The creator waits for the promise, so that the end of a loop clears it  *)
(* just when it is that loop's.                                            *)
LEMMA ResolveAnswers ==
  ASSUME IInv, NEW l \in Loops, at[l] # "free", Resolve(l)
  PROVE  Call!Next
<1> USE NoLoopAssumption DEF IInv, TypeOK
<1>1. Alive' = Alive \ {l} /\ l \in Alive
  BY DEF Resolve, Alive
<1>2. (\E c \in creators : waits[c] = l) <=> promise = l
  BY DEF PromiseIsAttended
<1>3. promise' = IF promise = l THEN NoLoop ELSE promise
  BY <1>2 DEF Resolve
<1>4. Call!Answer(l)
  BY <1>1, <1>3 DEF Resolve, Call!Answer, Alive
<1> QED
  BY <1>1, <1>4 DEF Call!Next, Alive

(* A loop that goes on is the same run to its callers.                     *)
LEMMA AliveIsQuiet ==
  ASSUME IInv, NEW l \in Loops, at[l] # "free",
         NEW w \in Awaits, at' = [at EXCEPT ![l] = w],
         UNCHANGED <<promise, waits>>
  PROVE  UNCHANGED Call!vars
<1>1. at'[l] = w /\ \A k \in Loops \ {l} : at'[k] = at[k]
  BY DEF IInv, TypeOK
<1>2. Alive' = Alive
  BY <1>1 DEF Alive, Awaits
<1> QED
  BY <1>2 DEF Alive, Call!vars

(* Whoever times out, the promise that is left is one somebody awaits.     *)
LEMMA TimeoutGivesUp ==
  ASSUME IInv, NEW c \in Callers, TimesOut(c)
  PROVE  Call!Next
<1> USE NoLoopAssumption DEF IInv, TypeOK
<1>1. CASE CreatorTimesOut(c)
  <2>1. waits[c] = promise /\ waits[c] # NoLoop
    BY <1>1 DEF CreatorTimesOut, OneCreator, PromiseIsAttended
  <2>2. Call!GiveUp(c)
    BY <1>1, <2>1 DEF CreatorTimesOut, Call!GiveUp
  <2> QED
    BY <2>2 DEF Call!Next
<1>2. CASE JoinerTimesOut(c)
  <2>1. promise # NoLoop => \E k \in Callers \ {c} : waits[k] = promise
    BY <1>2 DEF JoinerTimesOut, PromiseIsAttended
  <2>2. Call!GiveUp(c)
    BY <1>2, <2>1 DEF JoinerTimesOut, Call!GiveUp
  <2> QED
    BY <2>2 DEF Call!Next
<1> QED
  BY <1>1, <1>2 DEF TimesOut

LEMMA CallStep == IInv /\ [Next]_vars => [Call!Next]_(Call!vars)
<1> SUFFICES ASSUME IInv, [Next]_vars PROVE Call!Next \/ UNCHANGED Call!vars
  OBVIOUS
<1>1. CASE Deploy \/ HealthCheckFails
  BY <1>1, DeployCalls DEF Deploy, HealthCheckFails
<1>2. CASE LateAttemptEnds \/ ServerChanges \/ UNCHANGED vars
  BY <1>2 DEF LateAttemptEnds, ServerChanges, vars, calls, Call!vars
<1>3. ASSUME NEW l \in Loops, Attempt(l)
      PROVE  Call!Next \/ UNCHANGED Call!vars
  <2>1. CASE Created(l)
    BY <2>1, AliveIsQuiet DEF Created, calls, Awaits
  <2>2. CASE CreateFails(l) \/ AttemptTimesOut(l) \/ WriteOrSetupFails(l)
    BY <2>2, AliveIsQuiet
    DEF CreateFails, AttemptTimesOut, WriteOrSetupFails, Fail, calls, Awaits
  <2>3. CASE BackoffEnds(l)
    BY <2>3, AliveIsQuiet DEF BackoffEnds, EnsureInstance, calls, Awaits
  <2>4. CASE SetupEnds(l)
    BY <2>4, ResolveAnswers DEF SetupEnds
  <2>5. CASE Written(l)
    <3>1. CASE Resolve(l)
      BY <2>5, <3>1, ResolveAnswers DEF Written
    <3>2. CASE at' = [at EXCEPT ![l] = "setup"] /\ UNCHANGED calls
      BY <2>5, <3>2, AliveIsQuiet DEF Written, calls, Awaits
    <3> QED
      BY <2>5, <3>1, <3>2 DEF Written
  <2> QED
    BY <1>3, <2>1, <2>2, <2>3, <2>4, <2>5 DEF Attempt
<1>4. CASE \E c \in Callers : TimesOut(c)
  BY <1>4, TimeoutGivesUp
<1> QED
  BY <1>1, <1>2, <1>3, <1>4 DEF Next

(* With any number of callers and loops, the manager is a shared call.     *)
THEOREM Refinement == Spec => IsSharedCall
<1>1. Init => Call!Init
  BY DEF Init, Call!Init
<1>2. IInv /\ [Next]_vars => [Call!Next]_(Call!vars)
  BY CallStep
<1> QED
  BY <1>1, <1>2, Invariance, PTL DEF Spec, IsSharedCall, Call!Spec
=============================================================================
