------------------------------ MODULE Deployment ------------------------------
(***************************************************************************)
(* DeploymentManager of worker/agents/services/implementations over the    *)
(* standalone runtime's LocalSandboxService: calls of deployToSandbox()    *)
(* that share a promise, the retry loops behind the promises, attempts     *)
(* that go on after their timeout, and the health check.                   *)
(*                                                                         *)
(* The service has one instance whatever the session id, so that a reset   *)
(* of the session comes to forgetting the recorded instance.  A slot of    *)
(* Loops is a call of executeDeploymentWithRetry(); a member of Callers is *)
(* a call of deployToSandbox() by the agent, the client or the health      *)
(* check.                                                                  *)
(***************************************************************************)
EXTENDS Naturals

CONSTANTS
  Callers,
  Loops,
  NoLoop,    \* null
  MaxLate    \* bound on the attempts alive after their timeout

ASSUME NoLoopAssumption == NoLoop \notin Loops
ASSUME LateAssumption == MaxLate \in Nat

VARIABLES
  promise,     \* the loop of currentDeploymentPromise
  waits,       \* waits[c]: the loop whose result c awaits
  creators,    \* the callers that set the promise they wait for
  at,          \* at[l]: the await of l; "free" when there is no such call
  redeploy,    \* the loops called with redeploy
  made,        \* the loops whose attempt has made the instance
  late,        \* timed-out attempts whose createInstance() is running
  recorded,    \* state.sandboxInstanceId is set
  exists,      \* the service has an instance
  healthy,     \* and its dev server runs
  interval,    \* healthCheckInterval # null
  \* history
  retried,     \* loops whose first attempt has failed
  overlapped,  \* two loops have been alive at once
  deployed,    \* a deployment has succeeded
  missed       \* the last health check that failed joined a deployment that
               \* was past its own start of health checks

calls == <<promise, waits, creators>>
locals == <<redeploy, made, retried>>   \* of the loops
sandbox == <<exists, healthy>>
history == <<overlapped, deployed, missed>>
vars == <<calls, at, redeploy, made, late, recorded, sandbox, interval,
          retried, history>>

Awaits == {"creating", "writing", "setup", "backoff"}

\* A session that has not deployed yet, or restored with a recorded instance
\* that the new process's service does not have.
Init ==
  /\ promise = NoLoop /\ waits = [c \in Callers |-> NoLoop] /\ creators = {}
  /\ at = [l \in Loops |-> "free"] /\ redeploy = {} /\ made = {} /\ late = 0
  /\ recorded \in BOOLEAN /\ exists = FALSE /\ healthy = FALSE
  /\ interval = FALSE
  /\ retried = {} /\ overlapped = FALSE /\ deployed = FALSE /\ missed = FALSE

-----------------------------------------------------------------------------
\* ensureInstance() up to its first await that leaves the loop: a recorded
\* instance that is healthy is kept, anything else is made anew.
EnsureInstance(l, forced) ==
  IF ~forced /\ recorded /\ healthy
  THEN /\ at' = [at EXCEPT ![l] = "writing"]
       /\ UNCHANGED recorded
  ELSE /\ at' = [at EXCEPT ![l] = "creating"]
       /\ recorded' = (recorded /\ ~forced)

\* The first caller creates the loop and its promise.
Create(c, forced) ==
  \E l \in Loops :
    /\ at[l] = "free"
    /\ EnsureInstance(l, forced)
    /\ promise' = l /\ waits' = [waits EXCEPT ![c] = l]
    /\ creators' = creators \cup {c}
    /\ redeploy' = IF forced THEN redeploy \cup {l} ELSE redeploy \ {l}
    /\ made' = made \ {l} /\ retried' = retried \ {l}
    /\ overlapped' = (overlapped \/ \E k \in Loops : at[k] # "free")

\* The others wait for it; what they were called with is dropped.
Join(c) ==
  /\ waits' = [waits EXCEPT ![c] = promise]
  /\ UNCHANGED <<promise, creators, at, redeploy, made, recorded, retried,
                 overlapped>>

DeployToSandbox(c, forced) ==
  /\ waits[c] = NoLoop
  /\ \/ promise = NoLoop /\ Create(c, forced)
     \/ promise # NoLoop /\ Join(c)

Deploy ==
  /\ \E c \in Callers, forced \in BOOLEAN : DeployToSandbox(c, forced)
  /\ UNCHANGED <<late, sandbox, interval, deployed, missed>>

\* The callback of the interval finds the instance gone or not running: it
\* drops the interval and deploys.
HealthCheckFails ==
  /\ interval /\ ~healthy
  /\ interval' = FALSE
  /\ \E c \in Callers : DeployToSandbox(c, FALSE)
  /\ missed' = (promise # NoLoop /\ at[promise] = "setup")
  /\ UNCHANGED <<late, sandbox, deployed>>

-----------------------------------------------------------------------------
\* Mutant: a created instance that the service does not keep.
InstanceForgotten == UNCHANGED exists /\ healthy' = TRUE

\* createInstance() succeeds: metadata, a new monitor, its server running.
Instance == exists' = TRUE /\ healthy' = TRUE

\* It fails: in the install, before the monitor is replaced; in the start of
\* the new monitor; or after that, in writing the metadata.
NoInstance ==
  \/ UNCHANGED exists /\ healthy' \in {healthy, FALSE}
  \/ Instance

Created(l) ==
  /\ at[l] = "creating" /\ at' = [at EXCEPT ![l] = "writing"]
  /\ Instance
  /\ recorded' = TRUE /\ made' = made \cup {l}
  /\ UNCHANGED <<calls, redeploy, late, interval, retried, history>>

\* The catch of an attempt: the recorded instance is forgotten, whoever
\* recorded it, and the loop backs off.
Fail(l) ==
  /\ at' = [at EXCEPT ![l] = "backoff"]
  /\ recorded' = FALSE
  /\ made' = made \ {l} /\ retried' = retried \cup {l}
  /\ UNCHANGED <<calls, redeploy, interval, history>>

CreateFails(l) ==
  /\ at[l] = "creating"
  /\ NoInstance
  /\ Fail(l)
  /\ UNCHANGED late

\* PER_ATTEMPT_TIMEOUT_MS: deploy() goes on without its loop.
AttemptTimesOut(l) ==
  /\ \/ at[l] = "creating" /\ late < MaxLate /\ late' = late + 1
     \/ at[l] = "writing" /\ UNCHANGED late
  /\ Fail(l)
  /\ UNCHANGED sandbox

\* Mutant: the failure of a late attempt clears the recorded instance too.
LateAttemptClears ==
  /\ late > 0 /\ late' = late - 1
  /\ \/ Instance /\ recorded' = TRUE
     \/ NoInstance /\ recorded' = FALSE
  /\ UNCHANGED <<calls, at, redeploy, made, interval, retried, history>>

LateAttemptEnds ==
  /\ late > 0 /\ late' = late - 1
  /\ \/ Instance /\ recorded' = TRUE
     \/ NoInstance /\ UNCHANGED recorded
  /\ UNCHANGED <<calls, at, redeploy, made, interval, retried, history>>

\* writeFiles() fails, or the setup commands fail or time out.
WriteOrSetupFails(l) ==
  /\ at[l] \in {"writing", "setup"}
  /\ Fail(l)
  /\ UNCHANGED <<late, sandbox>>

BackoffEnds(l) ==
  /\ at[l] = "backoff"
  /\ EnsureInstance(l, l \in redeploy)
  /\ UNCHANGED <<calls, redeploy, made, late, sandbox, interval, retried,
                 history>>

\* The promise of l resolves.  All who wait are answered, and the creator, if
\* it still waits, clears currentDeploymentPromise.
Resolve(l) ==
  /\ at' = [at EXCEPT ![l] = "free"]
  /\ waits' = [c \in Callers |-> IF waits[c] = l THEN NoLoop ELSE waits[c]]
  /\ creators' = {c \in creators : waits[c] # l}
  /\ promise' = IF \E c \in creators : waits[c] = l THEN NoLoop ELSE promise
  /\ redeploy' = redeploy \ {l} /\ made' = made \ {l}
  /\ retried' = retried \ {l}
  /\ deployed' = TRUE

\* Mutant: only a new instance gets a health check.
WrittenOnce(l) ==
  /\ at[l] = "writing"
  /\ \/ /\ l \in made
        /\ interval' = TRUE /\ missed' = FALSE
        /\ at' = [at EXCEPT ![l] = "setup"]
        /\ UNCHANGED <<calls, locals, deployed>>
     \/ /\ l \notin made
        /\ Resolve(l)
        /\ UNCHANGED <<interval, missed>>
  /\ UNCHANGED <<late, recorded, sandbox, overlapped>>

\* The files are written.  A new instance, or one without a health check,
\* gets one, and the setup commands run.
Written(l) ==
  /\ at[l] = "writing"
  /\ \/ /\ l \in made \/ ~interval
        /\ interval' = TRUE /\ missed' = FALSE
        /\ at' = [at EXCEPT ![l] = "setup"]
        /\ UNCHANGED <<calls, locals, deployed>>
     \/ /\ l \notin made /\ interval
        /\ Resolve(l)
        /\ UNCHANGED <<interval, missed>>
  /\ UNCHANGED <<late, recorded, sandbox, overlapped>>

SetupEnds(l) ==
  /\ at[l] = "setup"
  /\ Resolve(l)
  /\ UNCHANGED <<late, recorded, sandbox, interval, overlapped, missed>>

-----------------------------------------------------------------------------
\* Mutant: the promise is cleared only when the deployment has succeeded.
CreatorKeepsPromise(c) ==
  /\ c \in creators /\ waits[c] \in retried
  /\ waits' = [waits EXCEPT ![c] = NoLoop]
  /\ creators' = creators \ {c}
  /\ UNCHANGED <<promise, at, redeploy, made, late, recorded, sandbox, interval,
                 retried, history>>

\* The master timeout of the creator.  MASTER_DEPLOYMENT_TIMEOUT_MS is longer
\* than an attempt and its setup commands, so that one of them has failed.
CreatorTimesOut(c) ==
  /\ c \in creators /\ waits[c] \in retried
  /\ waits' = [waits EXCEPT ![c] = NoLoop]
  /\ creators' = creators \ {c}
  /\ promise' = NoLoop
  /\ UNCHANGED <<at, redeploy, made, late, recorded, sandbox, interval, retried,
                 history>>

\* Mutant: callers that join wait for the promise with no timeout.
JoinerWaits(c) == FALSE /\ c \in Callers /\ UNCHANGED vars

\* That of a caller that joined later.
JoinerTimesOut(c) ==
  /\ waits[c] # NoLoop /\ c \notin creators
  /\ \A k \in creators : waits[k] # waits[c]
  /\ waits' = [waits EXCEPT ![c] = NoLoop]
  /\ UNCHANGED <<promise, creators, at, redeploy, made, late, recorded, sandbox,
                 interval, retried, history>>

\* The process monitor reports a crash, a stop or a restart of the server.
ServerChanges ==
  /\ exists /\ healthy' = ~healthy
  /\ UNCHANGED <<calls, at, redeploy, made, late, recorded, exists, interval,
                 retried, history>>

Attempt(l) ==
  \/ Created(l) \/ CreateFails(l) \/ AttemptTimesOut(l)
  \/ Written(l) \/ SetupEnds(l) \/ WriteOrSetupFails(l)
  \/ BackoffEnds(l)

TimesOut(c) == CreatorTimesOut(c) \/ JoinerTimesOut(c)

Next ==
  \/ Deploy \/ HealthCheckFails \/ LateAttemptEnds \/ ServerChanges
  \/ \E l \in Loops : Attempt(l)
  \/ \E c \in Callers : TimesOut(c)

Spec == Init /\ [][Next]_vars

\* Timers fire, and an attempt ends by itself or by its timeout.
FairSpec ==
  /\ Spec
  /\ \A l \in Loops : WF_vars(Attempt(l))
  /\ \A c \in Callers : WF_vars(TimesOut(c))

-----------------------------------------------------------------------------
FlagsOK ==
  /\ recorded \in BOOLEAN /\ exists \in BOOLEAN /\ healthy \in BOOLEAN
  /\ interval \in BOOLEAN /\ overlapped \in BOOLEAN /\ deployed \in BOOLEAN
  /\ missed \in BOOLEAN
  /\ healthy => exists

TypeOK ==
  /\ promise \in Loops \cup {NoLoop}
  /\ waits \in [Callers -> Loops \cup {NoLoop}] /\ creators \subseteq Callers
  /\ at \in [Loops -> Awaits \cup {"free"}]
  /\ redeploy \subseteq Loops /\ made \subseteq Loops /\ retried \subseteq Loops
  /\ late \in 0..MaxLate
  /\ FlagsOK

Quiet == \A l \in Loops : at[l] = "free"

\* Whoever waits, waits for a loop that is still running, and the shared
\* promise is there only while the caller that made it waits for it: nobody can
\* join a deployment that was given up, or one that has ended.
\* deployToSandbox(), its `finally` above all.
PromiseIsAttended ==
  /\ \A c \in Callers : waits[c] # NoLoop => at[waits[c]] # "free"
  /\ \A c \in creators : waits[c] = promise
  /\ promise # NoLoop => \E c \in creators : waits[c] = promise

\* Every call of deployToSandbox() returns, although the loop behind it may
\* retry for ever: callers that share the promise are answered as well.
CallersAreAnswered ==
  \A c \in Callers : waits[c] # NoLoop ~> waits[c] = NoLoop

\* As long as no loop has outlived its caller's timeout into a second one, the
\* agent knows its instance: while files are written and set up, and after a
\* deployment has succeeded, whatever attempts that timed out still do.
InstanceIsRecorded ==
  ~overlapped =>
    /\ \A l \in Loops : at[l] \in {"writing", "setup"} => recorded
    /\ Quiet /\ deployed => recorded

\* Once a deployment has succeeded and none is running, the health check is on,
\* over overlapping loops, retries and failures; the exception is a check that
\* failed while the deployment it joined had already started its own.
InstanceIsWatched == Quiet /\ deployed => interval \/ missed

\* To those who call deployToSandbox() the manager is one shared call, whatever
\* the retries, timeouts and late attempts behind its promise: a caller is given
\* the deployment under way, all who share it are answered by its end, and who
\* comes after it was given up begins another.
Call == INSTANCE SharedCall
  WITH Runs <- Loops, NoRun <- NoLoop, current <- promise, joined <- waits,
       running <- {l \in Loops : at[l] # "free"}

IsSharedCall == Call!Spec
=============================================================================
