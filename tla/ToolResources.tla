---------------------------- MODULE ToolResources ----------------------------
(***************************************************************************)
(* What the tools of an agent declare that they touch, when two tool calls *)
(* conflict, and in which groups the calls of one model answer are run.    *)
(*                                                                         *)
(* A declaration is a record: `mode` is "none" when the call declares no   *)
(* files, and an empty set of paths means every file of the project.       *)
(***************************************************************************)
EXTENDS Naturals, Sequences

CONSTANT Paths       \* files of the project

Exclusive == {"exec", "analysis", "deploy"}

Resources == [mode : {"none", "read", "write"}, paths : SUBSET Paths,
              sandbox : {"none", "read"} \cup Exclusive,
              blueprint : BOOLEAN, gitCommit : BOOLEAN]

\* `{}`: what a call declares whose arguments do not parse.
NoResources == [mode |-> "none", paths |-> {}, sandbox |-> "none",
                blueprint |-> FALSE, gitCommit |-> FALSE]

PathsOverlap(ps1, ps2) == ps1 = {} \/ ps2 = {} \/ ps1 \cap ps2 # {}

FileConflict(r1, r2) ==
  /\ r1.mode # "none" /\ r2.mode # "none"
  /\ "write" \in {r1.mode, r2.mode}
  /\ PathsOverlap(r1.paths, r2.paths)

HasResourceConflict(r1, r2) ==
  \/ FileConflict(r1, r2)
  \/ /\ r1.sandbox # "none" /\ r2.sandbox # "none"
     /\ r1.sandbox \in Exclusive \/ r2.sandbox \in Exclusive
  \/ r1.blueprint /\ r2.blueprint
  \/ r1.gitCommit /\ r2.mode = "write"
  \/ r2.gitCommit /\ r1.mode = "write"

\* What one argument declares, added to what the arguments before it declared.
\* The sandbox operation of the later argument takes the place of the earlier.
MergeResources(target, source) ==
  [mode |-> IF source.mode = "none" \/ target.mode = "write"
            THEN target.mode ELSE source.mode,
   paths |-> IF source.mode = "none" THEN target.paths
             ELSE IF target.mode = "none" THEN source.paths
             ELSE IF {} \in {target.paths, source.paths} THEN {}
             ELSE target.paths \cup source.paths,
   sandbox |-> IF source.sandbox = "none" THEN target.sandbox ELSE source.sandbox,
   blueprint |-> target.blueprint \/ source.blueprint,
   gitCommit |-> target.gitCommit \/ source.gitCommit]

-----------------------------------------------------------------------------
(* buildExecutionPlan() of a sequence of declarations; a call without a    *)
(* definition declares nothing and is planned all the same.                *)

\* Mutant: a call is compared only with the one just before it.
DependencyOnPrevious(declared, i) ==
  {j \in {i - 1} \cap 1..i : HasResourceConflict(declared[i], declared[j])}

Dependencies(declared, i) ==
  {j \in 1..(i - 1) : HasResourceConflict(declared[i], declared[j])}

\* The next group, after the calls in `planned`. The second branch is the
\* code's answer to a circular dependency: the first call not yet planned.
NextGroup(declared, planned) ==
  LET todo  == DOMAIN declared \ planned
      ready == {i \in todo : Dependencies(declared, i) \subseteq planned}
  IN  IF ready # {} THEN ready ELSE {i \in todo : \A j \in todo : i <= j}

-----------------------------------------------------------------------------
(* What a declaration says, read on its own: the reference that the code's *)
(* test for conflicts is compared with.                                    *)

Covered(r) == IF r.paths = {} THEN Paths ELSE r.paths
Written(r) == IF r.mode = "write" THEN Covered(r) ELSE {}
Touched(r) == IF r.mode = "none" THEN {} ELSE Covered(r)

\* The two calls must not run at the same time.
Clash(r1, r2) ==
  \/ Written(r1) \cap Touched(r2) # {} \/ Written(r2) \cap Touched(r1) # {}
  \/ r1.sandbox \in Exclusive /\ r2.sandbox # "none"
  \/ r2.sandbox \in Exclusive /\ r1.sandbox # "none"
  \/ r1.blueprint /\ r2.blueprint
  \/ r1.gitCommit /\ Written(r2) # {}
  \/ r2.gitCommit /\ Written(r1) # {}
=============================================================================
