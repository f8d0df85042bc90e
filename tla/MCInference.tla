----------------------------- MODULE MCInference -----------------------------
(* Instances of Inference for TLC: tools of the toolkit, each with what it *)
(* declares, and the answers of the model that mix them.                   *)
EXTENDS Inference, TLC

MCPaths == {"p", "q"}
MCCalls == {"writeP", "readP", "readAll", "commit", "exec", "done", "unknown"}
MCDefined == MCCalls \ {"unknown"}
MCCompletionTools == {"done"}

MCDeclares ==
  [c \in MCCalls |->
     CASE c = "writeP"  -> [NoResources EXCEPT !.mode = "write", !.paths = {"p"}]
       [] c = "readP"   -> [NoResources EXCEPT !.mode = "read", !.paths = {"p"}]
       [] c = "readAll" -> [NoResources EXCEPT !.mode = "read", !.sandbox = "deploy"]
       [] c = "commit"  -> [NoResources EXCEPT !.gitCommit = TRUE]
       [] c = "exec"    -> [NoResources EXCEPT !.sandbox = "exec"]
       [] OTHER         -> NoResources]

\* Chains of three groups, conflicts of each kind, a completion among other
\* calls, and calls without a definition in the first and in a later group.
MCBatches ==
  {<<>>, <<"readP">>, <<"writeP", "readAll", "exec">>, <<"readP", "writeP", "commit">>,
   <<"writeP", "exec", "readP">>, <<"exec", "done", "writeP">>, <<"writeP", "readP", "unknown">>, <<"done">>,
   <<"commit", "writeP", "readP">>}

\* Merging the declarations of two arguments hides no conflict, except that
\* the sandbox operation of the later one replaces the other's.
ASSUME MergeChecked ==
  \A r, s, x \in {y \in Resources : y.mode = "none" => y.paths = {}} :
    r.sandbox = "none" /\ (Clash(r, x) \/ Clash(s, x))
      => HasResourceConflict(MergeResources(r, s), x)
=============================================================================
