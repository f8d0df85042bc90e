------------------------------ MODULE RequestQueue ------------------------------
(***************************************************************************)
(* What a user who talks to a session may rely on as long as its process   *)
(* lives: every request is taken up once, in the order in which the        *)
(* requests were accepted, whatever builds come and go meanwhile.  Both    *)
(* behaviors promise it.  A build takes up all that waits at once.  What   *)
(* becomes of it when the process dies is in SavedQueue.                   *)
(***************************************************************************)
EXTENDS Naturals, Sequences

CONSTANT Requests

VARIABLES
  waiting,    \* requests accepted and not taken up, oldest first
  served      \* requests taken up, oldest first

vars == <<waiting, served>>

Occurs(r, s) == \E n \in DOMAIN s : s[n] = r

NoRepeats(s) == \A m, n \in DOMAIN s : s[m] = s[n] => m = n

\* A session may start with requests that an earlier process left.
Init ==
  /\ waiting \in Seq(Requests) /\ NoRepeats(waiting)
  /\ served = <<>>

Accept ==
  /\ \E r \in Requests :
       /\ ~Occurs(r, waiting) /\ ~Occurs(r, served)
       /\ waiting' = Append(waiting, r)
  /\ UNCHANGED served

Serve ==
  /\ waiting # <<>>
  /\ served' = served \o waiting
  /\ waiting' = <<>>

Next == Accept \/ Serve

Spec == Init /\ [][Next]_vars

-----------------------------------------------------------------------------
\* No request is taken up twice.
ServedOnce == NoRepeats(served)
=============================================================================
