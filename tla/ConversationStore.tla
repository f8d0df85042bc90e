-------------------------- MODULE ConversationStore --------------------------
(***************************************************************************)
(* The conversation of a session: the cache in the agent process, the rows *)
(* of `agent_conversations` it is written through to, and the updates of   *)
(* the cache, some of which await a language model between reading the     *)
(* cache and writing it.                                                   *)
(*                                                                         *)
(* A history is a sequence of messages.  The table holds, for each kind,   *)
(* one row per index (the primary key), so the rows of a kind are a        *)
(* function from indices to messages; read in the order of the index they  *)
(* are a history when the indices are 1..n.                                *)
(***************************************************************************)
EXTENDS Naturals, Sequences, FiniteSets, SequencesExt

CONSTANTS
  Messages,    \* messages, each with a conversationId of its own
  Summary,     \* the message that a compaction puts for those it drops
  Updates,     \* slots for updates that are between their read and their write
  NoSnapshot,  \* such a slot when it is free
  MaxWrites    \* bound on the writes the session makes

ASSUME SummaryAssumption == Summary \notin Messages
ASSUME WritesAssumption == MaxWrites \in Nat

VARIABLES
  behavior,    \* which of the two behaviors the session runs
  cache,       \* conversationCache: a history for each kind
  table,       \* agent_conversations
  jobs,        \* writes under way: replaceAll() calls and clear() calls
  snapshot,    \* what each update has read
  unsent,      \* messages that do not exist yet
  \* history
  writes,      \* number of writes so far
  alone,       \* the last write began when no other was under way
  refused,     \* a request failed since the writes under way began
  written,     \* the histories each kind was ever given, to be stored
  torn         \* a process died with requests under way, or after writes that
               \* overlapped or failed and had not been repaired since

vars == <<behavior, cache, table, jobs, snapshot, unsent, writes, alone,
          refused, written, torn>>

Kinds == {"full", "compact"}

Behaviors == {"agentic", "phasic"}

Empty == [k \in Kinds |-> <<>>]

(* A replaceAll() of one kind deletes, then inserts unless there is nothing *)
(* to insert; clear() deletes both kinds and inserts nothing.              *)
Job == {j \in [id : 1..MaxWrites, kinds : {Kinds} \cup {{k} : k \in Kinds},
                history : Seq(Messages \cup {Summary}),
                stage : {"delete", "insert"}] :
          j.stage = "insert" => j.history # <<>>}

\* A new session, or one that was left with a short conversation.
Init ==
  /\ behavior \in Behaviors
  /\ \E stored \in {<<>>} \cup [1..2 -> Messages] :
       /\ Cardinality(ToSet(stored)) = Len(stored)
       /\ table = [k \in Kinds |-> stored]
       /\ unsent = Messages \ ToSet(stored)
       /\ written = [k \in Kinds |-> {<<>>, stored}]
  /\ cache = table
  /\ jobs = {} /\ snapshot = [u \in Updates |-> NoSnapshot]
  /\ writes = 0 /\ alone = TRUE /\ refused = FALSE /\ torn = FALSE

-----------------------------------------------------------------------------
\* A write of the process begins: its requests are sent without an await.
Issue(newJobs) ==
  /\ writes < MaxWrites
  /\ writes' = writes + 1
  /\ alone' = (jobs = {})
  /\ refused' = (refused /\ jobs # {})
  /\ jobs' = jobs \cup newJobs

\* setConversationState(): cache first, then one replaceAll() per kind.
SetConversationState(c) ==
  /\ cache' = c
  /\ written' = [k \in Kinds |-> written[k] \cup {c[k]}]
  /\ Issue({[id |-> writes + 1, kinds |-> {k}, history |-> c[k],
             stage |-> "delete"] : k \in Kinds})

\* A message is new to both histories: every one has a fresh id.
Extended(c, m) == [k \in Kinds |-> Append(c[k], m)]

\* addConversationMessage()
AddConversationMessage(m) ==
  /\ m \in unsent
  /\ unsent' = unsent \ {m}
  /\ SetConversationState(Extended(cache, m))
  /\ UNCHANGED <<behavior, table, snapshot, torn>>

\* clearConversation()
ClearConversation ==
  /\ cache' = Empty
  /\ Issue({[id |-> writes + 1, kinds |-> Kinds, history |-> <<>>,
             stage |-> "delete"]})
  /\ UNCHANGED <<behavior, table, snapshot, unsent, written, torn>>

\* compactifyIfNeeded() and the phasic handleUserInput() read the cache and
\* await a model.  Completions of tools that run side by side, and messages
\* of the user, begin them while another is under way.
ReadConversation(u) ==
  /\ snapshot[u] = NoSnapshot
  /\ snapshot' = [snapshot EXCEPT ![u] = cache]
  /\ UNCHANGED <<behavior, cache, table, jobs, unsent, writes, alone,
                 refused, written, torn>>

\* compactifyContext(): a summary and the recent messages, or after an error
\* only the recent ones; what it returns is shorter or the same.
Compactions(history) ==
  {tail \in {SubSeq(history, n, Len(history)) : n \in 2..Len(history)} : tail # <<>>}
    \cup {<<Summary>> \o SubSeq(history, n, Len(history)) : n \in 3..Len(history)}

\* The rest of compactifyIfNeeded(): it writes both kinds, from its snapshot.
FinishCompaction(u) ==
  /\ behavior = "agentic" /\ snapshot[u] # NoSnapshot
  /\ snapshot' = [snapshot EXCEPT ![u] = NoSnapshot]
  /\ \/ \E c \in Compactions(snapshot[u]["compact"]) :
          SetConversationState([snapshot[u] EXCEPT !["compact"] = c])
     \/ UNCHANGED <<cache, jobs, writes, alone, refused, written>>
  /\ UNCHANGED <<behavior, table, unsent, torn>>

\* Mutant: the full history is taken from the cache, the running one is not.
FinishTurnHalfFresh(u) ==
  /\ behavior = "phasic" /\ snapshot[u] # NoSnapshot
  /\ snapshot' = [snapshot EXCEPT ![u] = NoSnapshot]
  /\ \E m \in unsent, c \in {snapshot[u]["compact"]} :
       /\ unsent' = unsent \ {m}
       /\ SetConversationState(Extended([cache EXCEPT !["compact"] = c], m))
  /\ UNCHANGED <<behavior, table, torn>>

\* Mutant: what came in meanwhile is kept by joining snapshot and cache.
FinishTurnJoining(u) ==
  /\ behavior = "phasic" /\ snapshot[u] # NoSnapshot
  /\ snapshot' = [snapshot EXCEPT ![u] = NoSnapshot]
  /\ \E m \in unsent :
       /\ unsent' = unsent \ {m}
       /\ SetConversationState(
            Extended([cache EXCEPT !["compact"] = snapshot[u]["compact"] \o @], m))
  /\ UNCHANGED <<behavior, table, torn>>

\* The rest of the phasic handleUserInput(): the snapshot, compacted or not,
\* and the messages of the turn, for which one stands here.
FinishTurn(u) ==
  /\ behavior = "phasic" /\ snapshot[u] # NoSnapshot
  /\ snapshot' = [snapshot EXCEPT ![u] = NoSnapshot]
  /\ \E m \in unsent,
        c \in {snapshot[u]["compact"]} \cup Compactions(snapshot[u]["compact"]) :
       /\ unsent' = unsent \ {m}
       /\ SetConversationState(Extended([snapshot[u] EXCEPT !["compact"] = c], m))
  /\ UNCHANGED <<behavior, table, torn>>

-----------------------------------------------------------------------------
quietInDatabase == <<behavior, cache, snapshot, unsent, writes, alone, written,
                     torn>>

Finished(j) == jobs' = jobs \ {j}

\* The DELETE of a job is executed, and its insert sent when there is one.
Delete(j) ==
  /\ j \in jobs /\ j.stage = "delete"
  /\ table' = [k \in Kinds |-> IF k \in j.kinds THEN <<>> ELSE table[k]]

\* Mutant: clear() deletes the full history only.
DeleteLandsFullOnly(j) ==
  /\ j \in jobs /\ j.stage = "delete"
  /\ table' = [k \in Kinds |->
                 IF k \in j.kinds /\ (j.kinds = Kinds => k = "full")
                 THEN <<>> ELSE table[k]]
  /\ IF j.history = <<>> THEN Finished(j)
     ELSE jobs' = (jobs \ {j}) \cup {[j EXCEPT !.stage = "insert"]}
  /\ UNCHANGED <<quietInDatabase, refused>>

\* Mutant: an empty list of rows is inserted too.
DeleteLandsInsertingNothing(j) ==
  /\ Delete(j)
  /\ jobs' = (jobs \ {j}) \cup {[j EXCEPT !.stage = "insert"]}
  /\ UNCHANGED <<quietInDatabase, refused>>

DeleteLands(j) ==
  /\ Delete(j)
  /\ IF j.history = <<>> THEN Finished(j)
     ELSE jobs' = (jobs \ {j}) \cup {[j EXCEPT !.stage = "insert"]}
  /\ UNCHANGED <<quietInDatabase, refused>>

\* The DELETE answers with an error, executed or not: replaceAll() throws.
DeleteFails(j) ==
  /\ j \in jobs /\ j.stage = "delete"
  /\ \/ Delete(j)
     \/ UNCHANGED table
  /\ Finished(j)
  /\ refused' = TRUE
  /\ UNCHANGED quietInDatabase

\* Two rows have the same primary key.
Conflicts(j) == \E k \in j.kinds : DOMAIN table[k] \cap DOMAIN j.history # {}

\* The rows of a job come to those that are there.
Insert(j) ==
  table' = [k \in Kinds |->
    IF k \notin j.kinds THEN table[k]
    ELSE [n \in DOMAIN table[k] \cup DOMAIN j.history |->
            IF n \in DOMAIN j.history THEN j.history[n] ELSE table[k][n]]]

\* Mutant: the rows are upserted, so an index that exists is overwritten.
InsertLandsMerging(j) ==
  /\ j \in jobs /\ j.stage = "insert"
  /\ Insert(j)
  /\ Finished(j)
  /\ UNCHANGED <<quietInDatabase, refused>>

\* The INSERT of all rows is one statement: all of them, or on a conflict none.
InsertLands(j) ==
  /\ j \in jobs /\ j.stage = "insert"
  /\ ~Conflicts(j)
  /\ Insert(j)
  /\ Finished(j)
  /\ UNCHANGED <<quietInDatabase, refused>>

InsertConflicts(j) ==
  /\ j \in jobs /\ j.stage = "insert"
  /\ Conflicts(j)
  /\ Finished(j)
  /\ UNCHANGED <<quietInDatabase, table, refused>>

\* The INSERT answers with an error of the connection, executed or not.
InsertFails(j) ==
  /\ j \in jobs /\ j.stage = "insert"
  /\ \/ UNCHANGED table
     \/ ~Conflicts(j) /\ Insert(j)
  /\ Finished(j)
  /\ refused' = TRUE
  /\ UNCHANGED quietInDatabase

-----------------------------------------------------------------------------
\* hydrateConversationCache(): what a process that boots now would find.  Its
\* deduplicateMessages() has nothing to drop, which NoMessageTwice says.
Hydrated ==
  [table EXCEPT !["compact"] = IF @ = <<>> THEN table["full"] ELSE @]

\* The process dies at any moment and another one boots.  A request that was
\* under way has landed before the death or is lost.
Restart ==
  /\ cache' = Hydrated
  /\ jobs' = {}
  /\ snapshot' = [u \in Updates |-> NoSnapshot]
  /\ alone' = TRUE /\ refused' = FALSE
  /\ torn' = (torn \/ jobs # {} \/ ~alone \/ refused)
  /\ UNCHANGED <<behavior, table, unsent, writes, written>>

Next ==
  \/ \E m \in Messages : AddConversationMessage(m)
  \/ ClearConversation
  \/ \E u \in Updates : ReadConversation(u) \/ FinishCompaction(u) \/ FinishTurn(u)
  \/ \E j \in jobs : \/ DeleteLands(j) \/ DeleteFails(j)
                     \/ InsertLands(j) \/ InsertConflicts(j) \/ InsertFails(j)
  \/ Restart

Spec == Init /\ [][Next]_vars

-----------------------------------------------------------------------------
History == Seq(Messages \cup {Summary})

(* The indices of a kind are always 1..n: the table reads as a history.    *)
TypeOK ==
  /\ behavior \in Behaviors
  /\ cache \in [Kinds -> History] /\ table \in [Kinds -> History]
  /\ jobs \subseteq Job
  /\ snapshot \in [Updates -> [Kinds -> History] \cup {NoSnapshot}]
  /\ unsent \subseteq Messages
  /\ writes \in 0..MaxWrites
  /\ alone \in BOOLEAN /\ refused \in BOOLEAN /\ torn \in BOOLEAN
  /\ written \in [Kinds -> SUBSET History]

(* Deletes and inserts of writes that overlap never leave a mixture of two *)
(* histories: what the table holds of a kind was at some time, as a whole, *)
(* given to it, or is empty.                                               *)
WholeHistories == \A k \in Kinds : table[k] \in written[k]

(* A write that runs alone repairs whatever earlier ones left behind: when *)
(* it is over, a restart finds the conversation as it is in the cache.     *)
RestartFindsCache == jobs = {} /\ alone /\ ~refused => Hydrated = cache

(* What the model is shown is part of what the user is shown: apart from   *)
(* summaries the running history holds nothing that the full one lacks,    *)
(* whichever updates overlap. A death while requests are under way, or when *)
(* the last writes had overlapped or failed, ends this: the next process   *)
(* reads two kinds that were not stored together, and from then on nothing *)
(* is said of the two histories.                                           *)
RunningWithinFull ==
  ~torn => ToSet(cache["compact"]) \ {Summary} \subseteq ToSet(cache["full"])

(* No history ever holds a message twice, neither one that the model or    *)
(* the user is shown nor one that a restart reads back, although updates   *)
(* extend stale snapshots and compact what was compacted before: the       *)
(* deduplicateMessages() of a boot never has to choose between two rows.   *)
NoMessageTwice ==
  \A k \in Kinds : IsInjective(cache[k]) /\ IsInjective(table[k])

(* The agent's section heading says write-through: with all writes settled *)
(* and none refused by the connection, the table holds the cache. It does  *)
(* not after a message and a clearing that overlap: setConversationState() *)
(* and clearConversation() wait for nothing.                               *)
WriteThrough == jobs = {} /\ ~refused => Hydrated = cache
=============================================================================
