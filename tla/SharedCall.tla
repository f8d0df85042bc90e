------------------------------ MODULE SharedCall ------------------------------
(***************************************************************************)
(* What the callers of a shared asynchronous call may rely on: whoever     *)
(* calls while there is a current run is given that run, a new one begins  *)
(* only when there is none, and the end of a run answers all who share it. *)
(* A caller may give up before the end, and the run goes on without it; it *)
(* is current no longer than somebody waits for it, so that nobody joins a *)
(* run that was given up.                                                  *)
(***************************************************************************)

CONSTANTS
  Callers,
  Runs,      \* the runs that may be under way at once
  NoRun

VARIABLES
  current,   \* the run that a caller is given, or NoRun
  joined,    \* joined[c]: the run whose end c awaits, or NoRun
  running    \* the runs under way

vars == <<current, joined, running>>

Awaited(r) == \E c \in Callers : joined[c] = r

Init == current = NoRun /\ joined = [c \in Callers |-> NoRun] /\ running = {}

Begin(c) ==
  /\ current = NoRun /\ joined[c] = NoRun
  /\ \E r \in Runs \ running :
       /\ current' = r /\ running' = running \cup {r}
       /\ joined' = [joined EXCEPT ![c] = r]

Join(c) ==
  /\ current # NoRun /\ joined[c] = NoRun
  /\ joined' = [joined EXCEPT ![c] = current]
  /\ UNCHANGED <<current, running>>

\* The run ends, and nobody who joined it is left behind.
Answer(r) ==
  /\ running' = running \ {r}
  /\ joined' = [c \in Callers |-> IF joined[c] = r THEN NoRun ELSE joined[c]]
  /\ current' = IF current = r THEN NoRun ELSE current

GiveUp(c) ==
  /\ joined[c] # NoRun
  /\ joined' = [joined EXCEPT ![c] = NoRun]
  /\ \/ current = joined[c] /\ current' = NoRun
     \/ current' = current /\ \E k \in Callers \ {c} : joined[k] = current
     \/ current' = current /\ current = NoRun
  /\ UNCHANGED running

Next ==
  \/ \E c \in Callers : Begin(c) \/ Join(c) \/ GiveUp(c)
  \/ \E r \in running : Answer(r)

Spec == Init /\ [][Next]_vars
=============================================================================
