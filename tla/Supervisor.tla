------------------------------- MODULE Supervisor ------------------------------
(***************************************************************************)
(* What the owner of a supervised process may rely on: one child at a      *)
(* time, a fixed allowance of restarts that only a stable run renews, and, *)
(* once the supervisor has retired, no child ever again.  When a child     *)
(* dies and when the next one starts is the supervisor's business.         *)
(***************************************************************************)
EXTENDS Naturals

CONSTANT Allowance     \* restarts at the start, and after every stable run

VARIABLES
  live,      \* the children that live
  launched,  \* how many children there were; the last one is this number
  earned,    \* stable runs so far
  retired    \* the supervisor launches nothing more

vars == <<live, launched, earned, retired>>

Init ==
  /\ live = {} /\ launched = 0 /\ earned = 0
  /\ retired = FALSE

Launch ==
  /\ ~retired
  /\ live = {}
  /\ launched <= Allowance * (earned + 1)
  /\ launched' = launched + 1 /\ live' = {launched + 1}
  /\ UNCHANGED <<earned, retired>>

\* The child dies, which may be what the supervisor retires on; one that
\* outlives its supervisor dies later.
End ==
  /\ live # {}
  /\ live' = {}
  /\ earned' \in {earned, earned + 1}
  /\ retired' \in {retired, TRUE}
  /\ UNCHANGED launched

Retire ==
  /\ ~retired /\ retired' = TRUE
  /\ UNCHANGED <<live, launched, earned>>

Next == Launch \/ End \/ Retire

Spec == Init /\ [][Next]_vars
=============================================================================
