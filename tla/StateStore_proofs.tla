-------------------------- MODULE StateStore_proofs ---------------------------
(***************************************************************************)
(* What StateStore guarantees for every debounce delay and every number of *)
(* states, proved with TLAPS: no upsert goes back in time, a graceful      *)
(* shutdown saves the state it was called in, and the store implements     *)
(* DurableCell.                                                            *)
(***************************************************************************)
EXTENDS StateStore, SequenceTheorems, TLAPS

Versions == 0..MaxVersion

(* What write() and a settling upsert do to the chain. *)
LEMMA ChainFacts ==
  ASSUME NEW s \in Seq(Versions), NEW v \in Versions
  PROVE  /\ Append(s, v) \in Seq(Versions)
         /\ Len(Append(s, v)) = Len(s) + 1
         /\ Append(s, v)[Len(s) + 1] = v
         /\ \A k \in 1..Len(s) : Append(s, v)[k] = s[k]
         /\ DOMAIN Append(s, v) = 1..(Len(s) + 1)
         /\ DOMAIN s = 1..Len(s) /\ Len(s) \in Nat
         /\ s # <<>> => /\ Tail(s) \in Seq(Versions) /\ Head(s) \in Versions
                        /\ Len(s) > 0 /\ Head(s) = s[1]
                        /\ Len(Tail(s)) = Len(s) - 1
                        /\ DOMAIN Tail(s) = 1..(Len(s) - 1)
                        /\ \A k \in 1..(Len(s) - 1) : Tail(s)[k] = s[k + 1]
<1>1. /\ Append(s, v) \in Seq(Versions) /\ Len(Append(s, v)) = Len(s) + 1
      /\ DOMAIN s = 1..Len(s) /\ Len(s) \in Nat
  OBVIOUS
<1>2. \A k \in 1..Len(s) : Append(s, v)[k] = s[k]
  OBVIOUS
<1>3. Append(s, v)[Len(s) + 1] = v /\ DOMAIN Append(s, v) = 1..(Len(s) + 1)
  BY AppendProperties
<1>4. ASSUME s # <<>>
      PROVE  /\ Tail(s) \in Seq(Versions) /\ Head(s) \in Versions
             /\ Len(s) > 0 /\ Head(s) = s[1]
             /\ Len(Tail(s)) = Len(s) - 1
             /\ DOMAIN Tail(s) = 1..(Len(s) - 1)
             /\ \A k \in 1..(Len(s) - 1) : Tail(s)[k] = s[k + 1]
  BY <1>4, HeadTailProperties, EmptySeq
<1> QED
  BY <1>1, <1>2, <1>3, <1>4

-----------------------------------------------------------------------------
LEMMA TypeInitial == Init => TypeOK
  BY DebounceAssumption, VersionAssumption
  DEF Init, TypeOK, Phases, NoTimer

LEMMA TypeStep == TypeOK /\ [Next]_vars => TypeOK'
<1> SUFFICES ASSUME TypeOK, [Next]_vars PROVE TypeOK'
  OBVIOUS
<1> USE DebounceAssumption, VersionAssumption DEF TypeOK, Phases, NoTimer
<1>1. CASE Boot
  BY <1>1 DEF Boot, store
<1>2. CASE BootEnds
  BY <1>2 DEF BootEnds, Persist
<1>3. CASE SetState
  BY <1>3 DEF SetState, Persist
<1>4. CASE Tick
  BY <1>4 DEF Tick
<1>5. CASE TimerFires
  <2>1. inflight' \in Seq(0..MaxVersion)
    BY <1>5, ChainFacts DEF TimerFires, Write, Versions
  <2> QED
    BY <1>5, <2>1 DEF TimerFires, Write
<1>6. ASSUME inflight # <<>>, Settled
      PROVE  /\ inflight' \in Seq(0..MaxVersion)
             /\ Head(inflight) \in 0..MaxVersion
             /\ flushWaits' \in Nat
  BY <1>6, ChainFacts DEF Settled, Versions
<1>7. CASE UpsertLands
  BY <1>6, <1>7 DEF UpsertLands
<1>8. CASE UpsertFails
  BY <1>6, <1>8 DEF UpsertFails
<1>9. CASE Shutdown
  <2>1. inflight' \in Seq(0..MaxVersion) /\ Len(inflight') \in Nat
    BY <1>9, ChainFacts DEF Shutdown, Write, store, Versions
  <2> QED
    BY <1>9, <2>1 DEF Shutdown, Write, store
<1>10. CASE Exit \/ Crash
  <2>1. row' \in 0..MaxVersion
    BY <1>10, ChainFacts DEF Exit, Crash, Versions
  <2>2. phase' \in Phases
    BY <1>10 DEF Exit, Crash
  <2>3. Gone
    BY <1>10 DEF Exit, Crash
  <2>4. /\ timer' = -1 /\ inflight' = <<>> /\ pending' = 0 /\ state' = 0
        /\ flushWaits' = 0
    BY <2>3 DEF Gone
  <2> QED
    BY <2>1, <2>2, <2>3, <2>4 DEF Gone
<1>11. CASE UNCHANGED vars
  BY <1>11 DEF vars, store
<1> QED
  BY <1>1, <1>2, <1>3, <1>4, <1>5, <1>7, <1>8, <1>9, <1>10, <1>11 DEF Next

(* Types of the state, for every delay and bound. *)
THEOREM TypeCorrect == Spec => []TypeOK
  BY TypeInitial, TypeStep, PTL DEF Spec

-----------------------------------------------------------------------------
(***************************************************************************)
(* The chain is sorted between the row and the state.  A process starts    *)
(* from the row and numbers its states above all earlier ones, so whatever *)
(* it has in flight is either the row itself, persisted again, or newer    *)
(* than everything any earlier process wrote.                              *)
(***************************************************************************)
Recent(v) == v = row \/ v > bootedAt

Sorted ==
  /\ row <= issued /\ bootedAt <= issued
  /\ ~Up => inflight = <<>> /\ timer = NoTimer
  /\ Up => /\ row <= state /\ state <= issued /\ Recent(state)
           /\ timer # NoTimer => pending = state
           /\ \A k \in DOMAIN inflight :
                row <= inflight[k] /\ inflight[k] <= state /\ Recent(inflight[k])
           /\ \A j, k \in DOMAIN inflight : j <= k => inflight[j] <= inflight[k]

LEMMA SortedInitial == Init => Sorted
  BY DEF Init, Sorted, Up

\* write() chains the newest state.
LEMMA WriteSorted ==
  ASSUME TypeOK, Sorted, Up, timer # NoTimer, Write,
         UNCHANGED <<state, row, issued, bootedAt>>, Up'
  PROVE  Sorted'
<1>1. inflight \in Seq(Versions) /\ pending \in Versions /\ state \in Versions
  BY DEF TypeOK, Versions
<1>2. inflight' = Append(inflight, pending) /\ timer' = NoTimer
  BY DEF Write
<1>3. /\ DOMAIN inflight' = 1..(Len(inflight) + 1)
      /\ \A k \in 1..Len(inflight) : inflight'[k] = inflight[k]
      /\ inflight'[Len(inflight) + 1] = state
      /\ DOMAIN inflight = 1..Len(inflight) /\ Len(inflight) \in Nat
  BY <1>1, <1>2, ChainFacts DEF Sorted
<1>4. ASSUME NEW k \in DOMAIN inflight'
      PROVE  row <= inflight'[k] /\ inflight'[k] <= state /\ Recent(inflight'[k])
  BY <1>3, <1>4 DEF Sorted, TypeOK
<1>5. ASSUME NEW j \in DOMAIN inflight', NEW k \in DOMAIN inflight', j <= k
      PROVE  inflight'[j] <= inflight'[k]
  <2>1. CASE k = Len(inflight) + 1
    BY <1>3, <1>4, <2>1
  <2>2. CASE k # Len(inflight) + 1
    BY <1>3, <1>5, <2>2 DEF Sorted
  <2> QED
    BY <2>1, <2>2
<1> QED
  BY <1>2, <1>4, <1>5 DEF Sorted, Recent

\* The first upsert settles, with or without effect on the row.
LEMMA SettledSorted ==
  ASSUME TypeOK, Sorted, Up, inflight # <<>>, Settled,
         row' \in {row, Head(inflight)},
         UNCHANGED <<phase, state, pending, timer, issued, bootedAt>>
  PROVE  Sorted' /\ row' >= row
<1>1. inflight \in Seq(Versions) /\ row \in Nat /\ bootedAt \in Nat
  BY VersionAssumption DEF TypeOK, Versions
<1>2. /\ Head(inflight) = inflight[1] /\ Len(inflight) \in Nat /\ Len(inflight) > 0
      /\ DOMAIN inflight = 1..Len(inflight)
      /\ DOMAIN inflight' = 1..(Len(inflight) - 1)
      /\ \A k \in 1..(Len(inflight) - 1) : inflight'[k] = inflight[k + 1]
  BY <1>1, ChainFacts DEF Settled
<1>3. \A k \in DOMAIN inflight : inflight[k] \in Versions /\ inflight[1] <= inflight[k]
  BY <1>1, <1>2 DEF Sorted
<1>4. row' >= row /\ row' <= state /\ row' <= issued
  BY <1>1, <1>2, <1>3 DEF Sorted, TypeOK
<1>5. ASSUME NEW v \in Versions, Recent(v), row' <= v PROVE Recent(v)'
  BY <1>1, <1>2, <1>5 DEF Recent, Sorted, Versions
<1>6. ASSUME NEW k \in DOMAIN inflight'
      PROVE  /\ row' <= inflight'[k] /\ inflight'[k] <= state
             /\ inflight'[k] = row' \/ inflight'[k] > bootedAt
  <2>1. k + 1 \in DOMAIN inflight /\ inflight'[k] = inflight[k + 1]
    BY <1>2
  <2>2. row' <= inflight[k + 1] /\ inflight[k + 1] \in Versions
    BY <1>2, <1>3, <2>1 DEF Sorted
  <2>3. inflight[k + 1] <= state /\ Recent(inflight[k + 1])
    BY <2>1 DEF Sorted
  <2>4. inflight[k + 1] = row' \/ inflight[k + 1] > bootedAt
    BY <1>2, <2>1, <2>2, <2>3, <1>1, <1>5 DEF Recent
  <2> QED
    BY <2>1, <2>2, <2>3, <2>4
<1>7. ASSUME NEW j \in DOMAIN inflight', NEW k \in DOMAIN inflight', j <= k
      PROVE  inflight'[j] <= inflight'[k]
  BY <1>2, <1>7 DEF Sorted
<1>8. Recent(state)' /\ Up' /\ (timer' # NoTimer => pending' = state')
  <2>1. state \in Versions /\ Recent(state)
    BY DEF Sorted, TypeOK, Versions
  <2> QED
    BY <1>4, <1>5, <2>1 DEF Sorted, Up, Recent
<1> QED
  BY <1>4, <1>6, <1>7, <1>8 DEF Sorted, Recent

\* The process ends: the row it leaves is one that it could have written.
LEMMA EndSorted ==
  ASSUME TypeOK, Sorted, Exit \/ Crash
  PROVE  Sorted' /\ row' >= row /\ (row' = row \/ row' \in (bootedAt + 1)..issued)
<1>1. Up /\ ~Up' /\ inflight' = <<>> /\ timer' = NoTimer
  BY DEF Exit, Crash, Gone, Up
<1>2. inflight # <<>> =>
        /\ row <= Head(inflight) /\ Head(inflight) <= issued
        /\ Recent(Head(inflight)) /\ Head(inflight) \in Versions
  <2>1. inflight \in Seq(Versions)
    BY DEF TypeOK, Versions
  <2>2. inflight # <<>> => Head(inflight) = inflight[1] /\ 1 \in DOMAIN inflight
                           /\ inflight[1] \in Versions
    BY <2>1, ChainFacts
  <2> QED
    BY <1>1, <2>2 DEF Sorted, TypeOK, Versions
<1>3. row' = row \/ (inflight # <<>> /\ row' = Head(inflight))
  BY DEF Exit, Crash
<1>4. UNCHANGED <<issued, bootedAt>>
  BY DEF Exit, Crash, Gone
<1> QED
  BY <1>1, <1>2, <1>3, <1>4, VersionAssumption DEF Sorted, Recent, TypeOK, Versions

LEMMA SortedStep == TypeOK /\ Sorted /\ [Next]_vars => Sorted' /\ row' >= row
<1> SUFFICES ASSUME TypeOK, Sorted, [Next]_vars PROVE Sorted' /\ row' >= row
  OBVIOUS
<1> USE VersionAssumption, DebounceAssumption
<1>0. row \in Nat /\ issued \in Nat /\ state \in Nat /\ inflight \in Seq(Versions)
  BY DEF TypeOK, Versions
<1>1. CASE Boot
  BY <1>0, <1>1 DEF Boot, store, Sorted, Up, Recent
<1>2. CASE BootEnds
  BY <1>0, <1>2 DEF BootEnds, Persist, Sorted, Up, Recent
<1>3. CASE SetState
  <2>1. /\ state' = issued + 1 /\ issued' = issued + 1 /\ pending' = issued + 1
        /\ UNCHANGED <<phase, row, bootedAt, inflight>> /\ Up
    BY <1>3 DEF SetState, Persist
  <2>2. \A k \in DOMAIN inflight : inflight[k] \in Versions
    BY <1>0
  <2>3. \A k \in DOMAIN inflight : inflight[k] <= issued + 1
    BY <1>0, <2>1, <2>2 DEF Sorted, Versions
  <2>4. bootedAt \in Nat
    BY DEF TypeOK
  <2>5. Recent(state)' /\ row <= issued + 1 /\ bootedAt <= issued + 1
    BY <1>0, <2>1, <2>4 DEF Recent, Sorted
  <2> QED
    BY <1>0, <2>1, <2>3, <2>5 DEF Sorted, Up, Recent
<1>4. CASE Tick
  BY <1>0, <1>4 DEF Tick, Sorted, Up, Recent, NoTimer, TypeOK
<1>5. CASE TimerFires
  BY <1>0, <1>5, WriteSorted DEF TimerFires, Up, NoTimer
<1>6. CASE UpsertLands
  BY <1>6, SettledSorted DEF UpsertLands
<1>7. CASE UpsertFails
  BY <1>7, SettledSorted DEF UpsertFails
<1>8. CASE Shutdown
  <2>1. CASE timer # NoTimer /\ Write
    BY <1>0, <1>8, <2>1, WriteSorted DEF Shutdown, Up
  <2>2. CASE timer = NoTimer /\ UNCHANGED store
    BY <1>0, <1>8, <2>2 DEF Shutdown, Up, Sorted, Recent, store
  <2> QED
    BY <1>8, <2>1, <2>2 DEF Shutdown
<1>9. CASE Exit \/ Crash
  BY <1>9, EndSorted
<1>10. CASE UNCHANGED vars
  BY <1>0, <1>10 DEF vars, store, Sorted, Up, Recent
<1> QED
  BY <1>1, <1>2, <1>3, <1>4, <1>5, <1>6, <1>7, <1>8, <1>9, <1>10 DEF Next

LEMMA AlwaysSorted == Spec => []Sorted
  BY SortedInitial, SortedStep, TypeCorrect, PTL DEF Spec

(* No upsert of any process overwrites a newer state with an older one. *)
THEOREM NeverGoesBack == Spec => RowNeverGoesBack
<1>1. TypeOK /\ Sorted /\ [Next]_vars => [row' >= row]_row
  BY SortedStep
<1> QED
  BY <1>1, TypeCorrect, AlwaysSorted, PTL DEF Spec, RowNeverGoesBack

-----------------------------------------------------------------------------
(***************************************************************************)
(* The graceful shutdown.  While the process is up, the state is in the    *)
(* row, was refused, waits for the timer or is the last of the chain; once *)
(* flush() waits, the state to be saved is among the upserts it waits for. *)
(***************************************************************************)
OnItsWay ==
  \/ row >= state \/ state \in failed \/ timer # NoTimer
  \/ inflight # <<>> /\ inflight[Len(inflight)] = state

Awaited ==
  \/ row >= saveTarget \/ saveTarget \in failed
  \/ \E k \in 1..flushWaits : inflight[k] = saveTarget

Flushing ==
  /\ phase \in {"booting", "running"} => OnItsWay
  /\ phase = "flushing" => flushWaits <= Len(inflight) /\ Awaited
  /\ phase = "exited" => row >= saveTarget \/ saveTarget \in failed
  /\ phase # "flushing" => flushWaits = 0

\* What a settling upsert does to the two promises.
LEMMA SettledFlushing ==
  ASSUME TypeOK, Sorted, Flushing, Up, inflight # <<>>, Settled,
         \/ row' = Head(inflight) /\ failed' = failed
         \/ row' \in {row, Head(inflight)} /\ failed' = failed \cup {Head(inflight)},
         UNCHANGED <<phase, state, pending, timer, issued, bootedAt, saveTarget>>
  PROVE  Flushing'
<1>1. inflight \in Seq(Versions) /\ flushWaits \in Nat /\ saveTarget \in Nat
      /\ state \in Nat /\ row \in Nat
  BY VersionAssumption DEF TypeOK, Versions
<1>2. /\ Head(inflight) = inflight[1] /\ Len(inflight) \in Nat /\ Len(inflight) > 0
      /\ inflight' \in Seq(Versions) /\ Len(inflight') = Len(inflight) - 1
      /\ \A k \in 1..(Len(inflight) - 1) : inflight'[k] = inflight[k + 1]
      /\ Head(inflight) \in Nat
  BY <1>1, ChainFacts, VersionAssumption DEF Settled, Versions
<1>3. row' >= row /\ row' \in Nat
  BY <1>1, <1>2, SettledSorted
<1>4. \/ row' = inflight[1] \/ inflight[1] \in failed'
  BY <1>2
<1>5. ASSUME OnItsWay PROVE OnItsWay'
  <2>1. CASE row >= state \/ state \in failed \/ timer # NoTimer
    BY <1>1, <1>3, <2>1 DEF OnItsWay
  <2>2. CASE inflight[Len(inflight)] = state /\ Len(inflight) = 1
    BY <1>1, <1>4, <2>2 DEF OnItsWay
  <2>3. CASE inflight[Len(inflight)] = state /\ Len(inflight) > 1
    <3>1. Len(inflight') \in 1..(Len(inflight) - 1)
      BY <1>2, <2>3
    <3>2. inflight'[Len(inflight')] = inflight[Len(inflight') + 1]
      BY <1>2, <3>1
    <3> QED
      BY <1>2, <2>3, <3>1, <3>2 DEF OnItsWay
  <2> QED
    BY <1>2, <1>5, <2>1, <2>2, <2>3 DEF OnItsWay
<1>6. ASSUME phase = "flushing" PROVE flushWaits' <= Len(inflight') /\ Awaited'
  <2>1. flushWaits <= Len(inflight) /\ Awaited
    BY <1>6 DEF Flushing
  <2>2. flushWaits' = IF flushWaits = 0 THEN 0 ELSE flushWaits - 1
    BY DEF Settled
  <2>3. ASSUME row >= saveTarget \/ saveTarget \in failed PROVE Awaited'
    BY <1>1, <1>3, <2>3 DEF Awaited
  <2>4. ASSUME NEW k \in 1..flushWaits, inflight[k] = saveTarget PROVE Awaited'
    <3>1. CASE k = 1
      BY <1>1, <1>4, <2>4, <3>1 DEF Awaited
    <3>2. CASE k # 1
      <4>1. k - 1 \in 1..flushWaits' /\ k - 1 \in 1..(Len(inflight) - 1)
        BY <1>1, <1>2, <2>1, <2>2, <2>4, <3>2
      <4>2. inflight'[k - 1] = saveTarget
        BY <1>2, <2>4, <4>1
      <4> QED
        BY <4>1, <4>2 DEF Awaited
    <3> QED
      BY <3>1, <3>2
  <2> QED
    BY <1>1, <1>2, <2>1, <2>2, <2>3, <2>4 DEF Awaited
<1>7. phase # "flushing" => flushWaits' = 0
  BY DEF Flushing, Settled
<1> QED
  BY <1>5, <1>6, <1>7 DEF Flushing, Up

LEMMA FlushingStep == TypeOK /\ Sorted /\ Flushing /\ [Next]_vars => Flushing'
<1> SUFFICES ASSUME TypeOK, Sorted, Flushing, [Next]_vars PROVE Flushing'
  OBVIOUS
<1> USE VersionAssumption, DebounceAssumption
<1>0. /\ inflight \in Seq(Versions) /\ pending \in Versions /\ flushWaits \in Nat
      /\ row \in Nat /\ state \in Nat /\ saveTarget \in Nat
  BY DEF TypeOK, Versions
<1>1. CASE Boot
  BY <1>0, <1>1 DEF Boot, Flushing, OnItsWay
\* persist() arms the timer.
<1>2. CASE BootEnds
  BY <1>0, <1>2 DEF BootEnds, Persist, Flushing, OnItsWay, NoTimer
<1>3. CASE SetState
  BY <1>0, <1>3 DEF SetState, Persist, Flushing, OnItsWay, Awaited, Up, NoTimer
<1>4. CASE Tick
  BY <1>0, <1>4 DEF Tick, Flushing, OnItsWay, Awaited, NoTimer, TypeOK
\* write() makes the state the last of the chain.
<1>5. ASSUME Write, timer # NoTimer, Up
      PROVE  /\ inflight' # <<>> /\ inflight'[Len(inflight')] = state
             /\ Len(inflight') = Len(inflight) + 1 /\ Len(inflight) \in Nat
             /\ \A k \in 1..Len(inflight) : inflight'[k] = inflight[k]
  <2>1. inflight' = Append(inflight, state) /\ state \in Versions
    BY <1>0, <1>5 DEF Write, Sorted
  <2> QED
    BY <1>0, <2>1, ChainFacts, EmptySeq
<1>6. CASE TimerFires
  <2>1. Write /\ timer # NoTimer /\ Up
    BY <1>6 DEF TimerFires, NoTimer
  <2>2. UNCHANGED <<phase, state, row, flushWaits, saveTarget, failed>>
    BY <1>6 DEF TimerFires
  <2>3. OnItsWay'
    BY <1>5, <2>1, <2>2 DEF OnItsWay
  <2>4. ASSUME phase = "flushing" PROVE flushWaits' <= Len(inflight') /\ Awaited'
    <3>1. flushWaits <= Len(inflight) /\ Awaited
      BY <2>4 DEF Flushing
    <3> QED
      BY <1>0, <1>5, <2>1, <2>2, <3>1 DEF Awaited
  <2> QED
    BY <2>2, <2>3, <2>4 DEF Flushing
<1>7. CASE UpsertLands
  BY <1>7, SettledFlushing DEF UpsertLands
<1>8. CASE UpsertFails
  BY <1>8, SettledFlushing DEF UpsertFails
\* flush() waits for the whole chain, the state included.
<1>9. CASE Shutdown
  <2>1. /\ phase = "running" /\ phase' = "flushing" /\ saveTarget' = state
        /\ flushWaits' = Len(inflight')
        /\ UNCHANGED <<state, row, failed>>
    BY <1>9 DEF Shutdown
  <2>2. CASE timer # NoTimer /\ Write
    <3>1. inflight'[Len(inflight')] = state /\ Len(inflight') \in 1..Len(inflight')
      BY <1>0, <1>5, <2>1, <2>2 DEF Up
    <3> QED
      BY <2>1, <3>1 DEF Flushing, Awaited
  <2>3. CASE timer = NoTimer /\ UNCHANGED store
    <3>1. OnItsWay /\ inflight' = inflight
      BY <2>1, <2>3 DEF Flushing, store
    <3>2. inflight # <<>> => Len(inflight) \in 1..Len(inflight)
      BY <1>0, ChainFacts
    <3>3. Len(inflight) \in Nat
      BY <1>0
    <3> QED
      BY <2>1, <2>3, <3>1, <3>2, <3>3 DEF Flushing, Awaited, OnItsWay
  <2> QED
    BY <1>9, <2>2, <2>3 DEF Shutdown
\* The process exits when nothing is left to wait for.
<1>10. CASE Exit
  <2>1. row >= saveTarget \/ saveTarget \in failed
    BY <1>0, <1>10 DEF Exit, Flushing, Awaited
  <2>2. row' >= row /\ row' \in Nat
    BY <1>10, EndSorted, TypeStep DEF Next, TypeOK
  <2> QED
    BY <1>0, <1>10, <2>1, <2>2 DEF Exit, Gone, Flushing
<1>11. CASE Crash
  BY <1>11 DEF Crash, Gone, Flushing
<1>12. CASE UNCHANGED vars
  BY <1>12 DEF vars, store, Flushing, OnItsWay, Awaited
<1> QED
  BY <1>1, <1>2, <1>3, <1>4, <1>6, <1>7, <1>8, <1>9, <1>10, <1>11, <1>12 DEF Next

(* A graceful shutdown saves the state it was called in, unless the        *)
(* database refused it.                                                    *)
THEOREM ShutdownAlwaysSaves == Spec => []ShutdownSaves
<1>1. Init => Flushing
  BY DEF Init, Flushing
<1>2. Flushing => ShutdownSaves
  BY DEF Flushing, ShutdownSaves
<1> QED
  BY <1>1, <1>2, FlushingStep, TypeCorrect, AlwaysSorted, PTL DEF Spec

-----------------------------------------------------------------------------
(***************************************************************************)
(* Refinement.  setState() is the cell's Write, an upsert that changes the *)
(* row is its Save, the end of the process is its End; all other steps     *)
(* leave the cell as it is.                                                *)
(***************************************************************************)
LEMMA CellInitial == Init => Cell!Init
  BY DEF Init, Cell!Init, Up

\* An upsert that changes the row saves a state of this process.
LEMMA CellSaved ==
  ASSUME TypeOK, Sorted, Up, inflight # <<>>, row' \in {row, Head(inflight)},
         UNCHANGED <<phase, state, issued, bootedAt>>
  PROVE  [Cell!Next]_(Cell!vars)
<1>1. /\ Head(inflight) = inflight[1] /\ 1 \in DOMAIN inflight
      /\ Head(inflight) \in Nat
  <2>1. inflight \in Seq(Versions)
    BY DEF TypeOK, Versions
  <2> QED
    BY <2>1, ChainFacts, VersionAssumption DEF Versions
<1>2. /\ row \in Nat /\ issued \in Nat /\ bootedAt \in Nat /\ state \in Nat
      /\ Up'
  BY VersionAssumption DEF TypeOK, Up
<1>3. CASE row' = row
  BY <1>2, <1>3 DEF Cell!vars, Up
<1>4. CASE row' = Head(inflight) /\ row' # row
  <2>1. row' \in {v \in (bootedAt + 1)..issued : v > row}
    BY <1>1, <1>2, <1>4 DEF Sorted, Recent
  <2>2. {v \in (bootedAt + 1)..issued : v > row'}
          = {u \in {v \in (bootedAt + 1)..issued : v > row} : u > row'}
    BY <1>2, <2>1
  <2>3. Cell!Save
    BY <1>2, <2>1, <2>2 DEF Cell!Save
  <2> QED
    BY <2>3 DEF Cell!Next
<1> QED
  BY <1>3, <1>4

LEMMA CellStep == TypeOK /\ Sorted /\ [Next]_vars => [Cell!Next]_(Cell!vars)
<1> SUFFICES ASSUME TypeOK, Sorted, [Next]_vars PROVE [Cell!Next]_(Cell!vars)
  OBVIOUS
<1>0. /\ row \in Nat /\ issued \in Nat /\ bootedAt \in Nat /\ state \in Nat
  BY VersionAssumption DEF TypeOK
\* Steps that only move things inside the process.
<1>1. CASE UNCHANGED <<state, row, issued, bootedAt>> /\ Up' = Up
  BY <1>1 DEF Cell!vars
<1>2. CASE Boot
  <2>1. ~Up /\ Up' /\ state' = row /\ bootedAt' = issued /\ UNCHANGED <<row, issued>>
    BY <1>2 DEF Boot, Up
  <2>2. {v \in (issued + 1)..issued : v > row} = {}
    BY <1>0
  <2> QED
    BY <2>1, <2>2 DEF Cell!vars
<1>3. CASE SetState
  <2>1. /\ Up /\ Up' /\ issued < MaxVersion
        /\ state' = issued + 1 /\ issued' = issued + 1
        /\ UNCHANGED <<row, bootedAt>>
    BY <1>3 DEF SetState, Up
  <2>2. issued + 1 \in 1..MaxVersion /\ issued + 1 > issued
    BY <1>0, <2>1, VersionAssumption
  <2>3. {v \in (bootedAt + 1)..(issued + 1) : v > row}
          = {v \in (bootedAt + 1)..issued : v > row} \cup {issued + 1}
    BY <1>0 DEF Sorted
  <2>4. Cell!Write
    BY <2>1, <2>2, <2>3 DEF Cell!Write
  <2> QED
    BY <2>4 DEF Cell!Next
<1>4. CASE BootEnds \/ Tick \/ TimerFires \/ Shutdown
  BY <1>1, <1>4 DEF BootEnds, Tick, TimerFires, Shutdown, Up
<1>5. CASE UpsertLands
  BY <1>5, CellSaved DEF UpsertLands
<1>6. CASE UpsertFails
  BY <1>6, CellSaved DEF UpsertFails
<1>7. CASE Exit \/ Crash
  <2>1. Up /\ ~Up' /\ issued' = issued
    BY <1>7 DEF Exit, Crash, Gone, Up
  <2>2. row' = row \/ row' \in (bootedAt + 1)..issued
    BY <1>7, EndSorted
  <2>3. row' >= row
    BY <1>7, EndSorted
  <2>4. row' \in {row} \cup {v \in (bootedAt + 1)..issued : v > row}
    BY <1>0, <2>2, <2>3
  <2>5. Cell!End
    BY <2>1, <2>4 DEF Cell!End
  <2> QED
    BY <2>5 DEF Cell!Next
<1>8. CASE UNCHANGED vars
  BY <1>1, <1>8 DEF vars, Up
<1> QED
  BY <1>2, <1>3, <1>4, <1>5, <1>6, <1>7, <1>8 DEF Next

(* The debounced store implements the durable cell. *)
THEOREM Refinement == Spec => IsDurableCell
  BY CellInitial, CellStep, TypeCorrect, AlwaysSorted, PTL
  DEF Spec, IsDurableCell, Cell!Spec
-----------------------------------------------------------------------------
(***************************************************************************)
(* The cell's promise, proved of the abstract steps alone and so of every  *)
(* implementation of it.  `Held` stands for the value the cell holds.      *)
(***************************************************************************)
Held == IF Up THEN state ELSE row
Unsaved == IF Up THEN {v \in (bootedAt + 1)..issued : v > row} ELSE {}

CellInv ==
  /\ row \in Nat /\ issued \in Nat /\ row <= issued
  /\ Unsaved \subseteq Nat
  /\ Cell!Latest

LEMMA CellInvStep == CellInv /\ [Cell!Next]_(Cell!vars) => CellInv'
<1> SUFFICES ASSUME CellInv, [Cell!Next]_(Cell!vars) PROVE CellInv'
  OBVIOUS
<1>0. /\ Unsaved = {} => Held = row
      /\ Unsaved # {} => Held = issued /\ Held \in Unsaved
      /\ \A v \in Unsaved : v \in Nat /\ row < v /\ v <= issued
      /\ row \in Nat /\ issued \in Nat /\ row <= issued
  BY DEF CellInv, Cell!Latest, Held, Unsaved
<1>q. ASSUME /\ Unsaved' = {} => Held' = row'
             /\ Unsaved' # {} => Held' = issued' /\ Held' \in Unsaved'
             /\ \A v \in Unsaved' : v \in Nat /\ row' < v /\ v <= issued'
             /\ row' \in Nat /\ issued' \in Nat /\ row' <= issued'
      PROVE  CellInv'
  BY <1>q DEF CellInv, Cell!Latest, Held, Unsaved
<1>1. CASE Cell!Write
  <2>1. PICK v \in 1..MaxVersion :
          /\ v > issued /\ Held' = v /\ issued' = v
          /\ Unsaved' = Unsaved \cup {v} /\ row' = row
    BY <1>1 DEF Cell!Write, Held, Unsaved
  <2>2. v \in Nat
    BY VersionAssumption
  <2> QED
    BY <1>0, <1>q, <2>1, <2>2
<1>2. CASE Cell!Save
  <2>1. PICK v \in Unsaved :
          /\ row' = v /\ Unsaved' = {u \in Unsaved : u > v}
          /\ Held' = Held /\ issued' = issued
    BY <1>2 DEF Cell!Save, Held, Unsaved
  <2> QED
    BY <1>0, <1>q, <2>1
<1>3. CASE Cell!End
  <2>1. /\ row' \in {row} \cup Unsaved /\ Held' = row'
        /\ Unsaved' = {} /\ issued' = issued
    BY <1>3 DEF Cell!End, Held, Unsaved
  <2> QED
    BY <1>0, <1>q, <2>1
<1>4. CASE UNCHANGED Cell!vars
  <2>1. Held' = Held /\ Unsaved' = Unsaved /\ row' = row /\ issued' = issued
    BY <1>4 DEF Cell!vars, Held, Unsaved
  <2> QED
    BY <1>0, <1>q, <2>1
<1> QED
  BY <1>1, <1>2, <1>3, <1>4 DEF Cell!Next

(* A process works with the newest state there is or, when it has set none *)
(* that is not saved, with the row; and a crash loses only states newer    *)
(* than all that were ever saved.                                          *)
THEOREM AlwaysLatest == Spec => []Cell!Latest
<1>1. Cell!Init => CellInv
  <2> SUFFICES ASSUME Cell!Init PROVE CellInv
    OBVIOUS
  <2>1. Held = 0 /\ row = 0 /\ issued = 0 /\ Unsaved = {}
    BY DEF Cell!Init, Held, Unsaved
  <2> QED
    BY <2>1 DEF CellInv, Cell!Latest, Held, Unsaved
<1>2. CellInv => Cell!Latest
  BY DEF CellInv
<1> QED
  BY <1>1, <1>2, CellInvStep, Refinement, PTL DEF IsDurableCell, Cell!Spec
=============================================================================
