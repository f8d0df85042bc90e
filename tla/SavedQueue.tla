------------------------------- MODULE SavedQueue -------------------------------
(***************************************************************************)
(* A request queue whose process may die.  What is saved lags behind what  *)
(* is: a crash takes queue and memory of what was taken up back to one     *)
(* earlier moment, both to the same.  Requests accepted since are lost,    *)
(* requests taken up since are taken up again; nothing else is.            *)
(***************************************************************************)
EXTENDS RequestQueue

VARIABLE saved    \* [waiting, served] as they were at one moment

Now == [waiting |-> waiting, served |-> served]

SavedInit == Init /\ saved = Now

Save == saved' = Now /\ UNCHANGED vars

Crash ==
  /\ waiting' = saved.waiting
  /\ served' = saved.served
  /\ UNCHANGED saved

SavedNext == (Next /\ UNCHANGED saved) \/ Save \/ Crash

SavedSpec == SavedInit /\ [][SavedNext]_<<vars, saved>>
=============================================================================
