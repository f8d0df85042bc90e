------------------------------ MODULE StateStore ------------------------------
(***************************************************************************)
(* How the state of a session outlives its process: StandaloneAgent's      *)
(* setState(), the debounced writer of agent-runtime/src/stateStore.ts and *)
(* the row of `agent_state` it upserts, through boots, crashes and         *)
(* graceful shutdowns.                                                     *)
(*                                                                         *)
(* A state is its version: the number of setState() calls of all the       *)
(* session's processes up to the one that made it; 0 is the state of a     *)
(* session that has no row.  Time is counted in ticks, DebounceTicks of    *)
(* which make the debounce delay.                                          *)
(***************************************************************************)
EXTENDS Integers, Sequences

CONSTANTS
  DebounceTicks,   \* debounceMs
  MaxVersion       \* bound on the number of setState() calls

ASSUME DebounceAssumption == DebounceTicks \in Nat \ {0}
ASSUME VersionAssumption == MaxVersion \in Nat

VARIABLES
  phase,       \* what the process is doing, if there is one
  state,       \* StandaloneAgent._state
  pending,     \* `pending`, the state to write next
  timer,       \* ticks until `timer` fires, or NoTimer
  inflight,    \* upserts of the `inflight` chain; the first one is running
  row,         \* the state in the agent_state row
  flushWaits,  \* upserts that flush() still waits for
  \* history
  issued,      \* version of the last setState() of any process
  bootedAt,    \* `issued` when the process booted
  saveTarget,  \* the state when shutdown() was called
  failed       \* states whose upsert returned an error

store == <<pending, timer, inflight>>
vars == <<phase, state, store, row, flushWaits, issued, bootedAt, saveTarget,
          failed>>

NoTimer == -1

Phases == {"down", "booting", "running", "flushing", "exited"}

Up == phase \in {"booting", "running", "flushing"}

Init ==
  /\ phase = "down" /\ state = 0 /\ row = 0 /\ issued = 0
  /\ pending = 0 /\ timer = NoTimer /\ inflight = <<>>
  /\ flushWaits = 0 /\ bootedAt = 0 /\ saveTarget = 0
  /\ failed = {}

-----------------------------------------------------------------------------
\* Mutant: the persisted state is not looked at.
BootFresh ==
  /\ phase \in {"down", "exited"}
  /\ phase' = "booting"
  /\ state' = 0 /\ bootedAt' = issued
  /\ UNCHANGED <<store, row, flushWaits, issued, saveTarget, failed>>

\* boot(): load() answers, and the agent starts from the row.
Boot ==
  /\ phase \in {"down", "exited"}
  /\ phase' = "booting"
  /\ state' = row /\ bootedAt' = issued
  /\ UNCHANGED <<store, row, flushWaits, issued, saveTarget, failed>>

\* Mutant: the old delay is added to the new one.
PersistExtending(s) ==
  /\ pending' = s
  /\ timer' = IF timer = NoTimer THEN DebounceTicks ELSE timer + DebounceTicks
  /\ UNCHANGED inflight

\* Mutant: the timer is left to the write that is running.
PersistIdleOnly(s) ==
  /\ pending' = s
  /\ timer' = IF inflight = <<>> THEN DebounceTicks ELSE timer
  /\ UNCHANGED inflight

\* persist(): the delay starts again on every call.
Persist(s) ==
  /\ pending' = s
  /\ timer' = DebounceTicks
  /\ UNCHANGED inflight

\* setState(); the code that calls it runs at any time, also while main()'s
\* shutdown waits.
SetState ==
  /\ Up /\ issued < MaxVersion
  /\ state' = issued + 1 /\ issued' = issued + 1
  /\ Persist(issued + 1)
  /\ UNCHANGED <<phase, row, flushWaits, bootedAt, saveTarget, failed>>

\* The last statement of boot() persists the state once more.
BootEnds ==
  /\ phase = "booting"
  /\ phase' = "running"
  /\ Persist(state)
  /\ UNCHANGED <<state, row, flushWaits, issued, bootedAt, saveTarget, failed>>

Tick ==
  /\ Up /\ timer > 0
  /\ timer' = timer - 1
  /\ UNCHANGED <<phase, state, pending, inflight, row, flushWaits, issued,
                 bootedAt, saveTarget, failed>>

\* write(): chains an upsert of `pending` behind those before it.
Write ==
  /\ timer' = NoTimer
  /\ inflight' = Append(inflight, pending)
  /\ UNCHANGED pending

TimerFires ==
  /\ Up /\ timer = 0
  /\ Write
  /\ UNCHANGED <<phase, state, row, flushWaits, issued, bootedAt, saveTarget,
                 failed>>

\* The running upsert settles, and flush() has one less to wait for.
Settled ==
  /\ inflight' = Tail(inflight)
  /\ flushWaits' = IF flushWaits = 0 THEN 0 ELSE flushWaits - 1

UpsertLands ==
  /\ Up /\ inflight # <<>>
  /\ row' = Head(inflight)
  /\ Settled
  /\ UNCHANGED <<phase, state, pending, timer, issued, bootedAt, saveTarget,
                 failed>>

\* The upsert returns an error, which is logged; nothing tries again.  The
\* row may have been written all the same when only the answer was lost.
UpsertFails ==
  /\ Up /\ inflight # <<>>
  /\ row' \in {row, Head(inflight)}
  /\ failed' = failed \cup {Head(inflight)}
  /\ Settled
  /\ UNCHANGED <<phase, state, pending, timer, issued, bootedAt, saveTarget>>

\* Mutant: flush() only waits for the upserts already on their way.
ShutdownUnwritten ==
  /\ phase = "running"
  /\ phase' = "flushing"
  /\ saveTarget' = state
  /\ flushWaits' = Len(inflight)
  /\ UNCHANGED <<state, store, row, issued, bootedAt, failed>>

\* SIGTERM or SIGINT: flush() writes what the timer still holds back, then
\* waits for the chain as it is at that moment.
Shutdown ==
  /\ phase = "running"
  /\ phase' = "flushing"
  /\ saveTarget' = state
  /\ \/ timer # NoTimer /\ Write
     \/ timer = NoTimer /\ UNCHANGED store
  /\ flushWaits' = Len(inflight')
  /\ UNCHANGED <<state, row, issued, bootedAt, failed>>

\* The process is gone, with all that was only in its memory.
Gone ==
  /\ timer' = NoTimer /\ inflight' = <<>> /\ pending' = 0
  /\ state' = 0 /\ flushWaits' = 0
  /\ UNCHANGED <<issued, bootedAt, saveTarget, failed>>

\* shutdown() closes the transport and exits without a look at the timer.
Exit ==
  /\ phase = "flushing" /\ flushWaits = 0
  /\ phase' = "exited"
  /\ row' \in {row} \cup (IF inflight = <<>> THEN {} ELSE {Head(inflight)})
  /\ Gone

\* The upsert that runs when the process dies lands or is lost.
Crash ==
  /\ Up
  /\ phase' = "down"
  /\ row' \in {row} \cup (IF inflight = <<>> THEN {} ELSE {Head(inflight)})
  /\ Gone

-----------------------------------------------------------------------------
Next ==
  \/ Boot \/ BootEnds \/ SetState
  \/ Tick \/ TimerFires \/ UpsertLands \/ UpsertFails
  \/ Shutdown \/ Exit \/ Crash

(* Timers fire and requests are answered; nothing says that a process is   *)
(* booted, stopped or given work.                                          *)
Fairness ==
  /\ WF_vars(BootEnds) /\ WF_vars(Tick) /\ WF_vars(TimerFires)
  /\ WF_vars(UpsertLands \/ UpsertFails)

Spec == Init /\ [][Next]_vars /\ Fairness

-----------------------------------------------------------------------------
TypeOK ==
  /\ phase \in Phases
  /\ state \in 0..MaxVersion /\ pending \in 0..MaxVersion
  /\ row \in 0..MaxVersion /\ issued \in 0..MaxVersion
  /\ bootedAt \in 0..MaxVersion /\ saveTarget \in 0..MaxVersion
  /\ timer \in NoTimer..DebounceTicks
  /\ inflight \in Seq(0..MaxVersion)
  /\ flushWaits \in Nat
  /\ failed \subseteq 0..MaxVersion

(* No upsert overwrites a newer state with an older one, also not one of a *)
(* process before: the row's version never decreases.                      *)
RowNeverGoesBack == [][row' >= row]_row

(* A graceful shutdown loses nothing that was set before it, whatever was  *)
(* held back by the timer or queued behind slow upserts, unless the        *)
(* database refused that very state.                                       *)
ShutdownSaves ==
  phase = "exited" => row >= saveTarget \/ saveTarget \in failed

(* A state reaches the row while its process runs on and stops changing    *)
(* it, or an upsert of it or of a later one failed.                        *)
StateIsSaved ==
  \A v \in 1..MaxVersion :
    (phase = "running" /\ state = v)
      ~> \/ phase # "running"
         \/ row >= v
         \/ \E u \in failed : u >= v

(* To the owner of the session all this is a durable cell: saves move      *)
(* forward through the states of the process alive, and a lost state is    *)
(* never seen again.                                                       *)
Cell == INSTANCE DurableCell
  WITH Versions <- 1..MaxVersion,
       cell <- IF Up THEN state ELSE row,
       disk <- row,
       unsaved <- IF Up THEN {v \in (bootedAt + 1)..issued : v > row} ELSE {},
       last <- issued

IsDurableCell == Cell!Spec
=============================================================================
