------------------------------ MODULE DurableCell -----------------------------
(***************************************************************************)
(* What a session's owner may rely on: a cell whose value survives the     *)
(* process, at some cost in recent writes.  A write changes the cell; the  *)
(* cell is saved now and then, always to a value written since the last    *)
(* save and never to an older one; when the process ends, what was not     *)
(* saved is gone for good, and the next process starts from the save.      *)
(*                                                                         *)
(* Values are version numbers, given out in the order of the writes.       *)
(***************************************************************************)
EXTENDS Naturals

CONSTANT Versions        \* the version numbers that may be written

VARIABLES
  cell,      \* the value the process works with
  disk,      \* the value a new process would start with
  unsaved,   \* values written since `disk` was, by the process alive now
  last       \* the version of the last write of any process

vars == <<cell, disk, unsaved, last>>

Init ==
  /\ cell = 0 /\ disk = 0 /\ last = 0
  /\ unsaved = {}

Write ==
  /\ \E v \in Versions :
       /\ v > last
       /\ cell' = v /\ last' = v
       /\ unsaved' = unsaved \cup {v}
  /\ UNCHANGED disk

Save ==
  /\ \E v \in unsaved :
       /\ disk' = v
       /\ unsaved' = {u \in unsaved : u > v}
  /\ UNCHANGED <<cell, last>>

\* The process ends, by a crash that may cut a save short or by an exit.
End ==
  /\ disk' \in {disk} \cup unsaved
  /\ cell' = disk'
  /\ unsaved' = {}
  /\ UNCHANGED last

Next == Write \/ Save \/ End

Spec == Init /\ [][Next]_vars

\* The process works with the value that is saved or, when some are not, with
\* the last one written; all that its end may lose is newer than the save.
Latest ==
  /\ unsaved = {} => cell = disk
  /\ unsaved # {} => cell = last /\ cell \in unsaved
  /\ \A v \in unsaved : disk < v /\ v <= last
=============================================================================
