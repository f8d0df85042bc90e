----------------------- MODULE ConversationStore_proofs ------------------------
(***************************************************************************)
(* What ConversationStore guarantees for any messages, any number of       *)
(* overlapping updates and any number of writes, proved with TLAPS.        *)
(***************************************************************************)
EXTENDS ConversationStore, FiniteSetTheorems, SequenceTheorems, TLAPS

LEMMA HistoryFacts ==
  ASSUME NEW h \in History, NEW m \in Messages
  PROVE  /\ Append(h, m) \in History /\ Append(h, m) # <<>>
         /\ ToSet(Append(h, m)) = ToSet(h) \cup {m}
         /\ <<>> \in History /\ Len(h) \in Nat /\ DOMAIN h = 1..Len(h)
         /\ DOMAIN h = {} <=> h = <<>>
         /\ h # <<>> => 1 \in DOMAIN h
<1>1. Append(h, m) \in History /\ Len(Append(h, m)) = Len(h) + 1
  BY DEF History
<1>2. /\ <<>> \in History /\ Len(h) \in Nat /\ DOMAIN h = 1..Len(h)
      /\ h = <<>> <=> Len(h) = 0
  BY EmptySeq DEF History
<1>3. h # <<>> => 1 \in DOMAIN h
  BY <1>2
<1>4. ToSet(Append(h, m)) = ToSet(h) \cup {m}
  <2>1. DOMAIN Append(h, m) = DOMAIN h \cup {Len(h) + 1}
    BY <1>1, <1>2, AppendProperties DEF History
  <2>2. \A n \in DOMAIN h : Append(h, m)[n] = h[n]
    BY <1>2, AppendProperties DEF History
  <2>3. Append(h, m)[Len(h) + 1] = m
    BY AppendProperties DEF History
  <2> QED
    BY <2>1, <2>2, <2>3 DEF ToSet
<1> QED
  BY <1>1, <1>2, <1>3, <1>4, EmptySeq

(* A compaction yields a history that is not empty and holds nothing new   *)
(* but the summary.                                                        *)
LEMMA CompactionFacts ==
  ASSUME NEW h \in History, NEW c \in Compactions(h)
  PROVE  /\ c \in History /\ c # <<>>
         /\ ToSet(c) \subseteq ToSet(h) \cup {Summary}
<1>0. Len(h) \in Nat /\ DOMAIN h = 1..Len(h)
  BY HistoryFacts DEF History
<1>1. ASSUME NEW n \in 2..Len(h)
      PROVE  /\ SubSeq(h, n, Len(h)) \in History
             /\ ToSet(SubSeq(h, n, Len(h))) \subseteq ToSet(h)
  <2>1. /\ SubSeq(h, n, Len(h)) \in History
        /\ Len(SubSeq(h, n, Len(h))) = Len(h) - n + 1
        /\ \A i \in 1..(Len(h) - n + 1) : SubSeq(h, n, Len(h))[i] = h[n + i - 1]
    BY <1>0, SubSeqProperties DEF History
  <2>2. DOMAIN SubSeq(h, n, Len(h)) = 1..(Len(h) - n + 1)
    BY <2>1, <1>0 DEF History
  <2>3. \A i \in 1..(Len(h) - n + 1) : n + i - 1 \in DOMAIN h
    BY <1>0
  <2> QED
    BY <2>1, <2>2, <2>3 DEF ToSet
<1>2. CASE c \in {tail \in {SubSeq(h, n, Len(h)) : n \in 2..Len(h)} : tail # <<>>}
  BY <1>1, <1>2
<1>3. ASSUME NEW n \in 3..Len(h), c = <<Summary>> \o SubSeq(h, n, Len(h))
      PROVE  /\ c \in History /\ c # <<>>
             /\ ToSet(c) \subseteq ToSet(h) \cup {Summary}
  <2> DEFINE t == SubSeq(h, n, Len(h))
  <2>1. t \in History /\ ToSet(t) \subseteq ToSet(h)
    <3>1. n \in 2..Len(h)
      BY <1>0
    <3> QED
      BY <3>1, <1>1
  <2> HIDE DEF t
  <2>2. <<Summary>> \in History /\ Len(<<Summary>>) = 1 /\ <<Summary>>[1] = Summary
    BY DEF History
  <2>3. /\ c \in History /\ Len(c) = Len(t) + 1 /\ Len(t) \in Nat
        /\ \A i \in 1..Len(c) : c[i] = IF i <= 1 THEN <<Summary>>[i] ELSE t[i - 1]
    BY <1>3, <2>1, <2>2, ConcatProperties DEF History, t
  <2>4. DOMAIN c = 1..Len(c) /\ DOMAIN t = 1..Len(t)
    BY <2>1, <2>3 DEF History
  <2>5. \A i \in DOMAIN c : c[i] = Summary \/ (i - 1 \in DOMAIN t /\ c[i] = t[i - 1])
    BY <2>2, <2>3, <2>4
  <2>6. ToSet(c) \subseteq ToSet(t) \cup {Summary}
    BY <2>5 DEF ToSet
  <2> QED
    BY <2>1, <2>3, <2>6, EmptySeq
<1> QED
  BY <1>2, <1>3 DEF Compactions

-----------------------------------------------------------------------------
(***************************************************************************)
(* Types.  The point is the table: a DELETE and an INSERT that does not    *)
(* conflict leave the rows of a kind numbered 1..n, because every INSERT   *)
(* holds index 1 and so goes through only when the kind has no rows.       *)
(***************************************************************************)
LEMMA InsertFacts ==
  ASSUME TypeOK, NEW j \in jobs, j.stage = "insert", ~Conflicts(j), Insert(j)
  PROVE  /\ table' = [k \in Kinds |-> IF k \in j.kinds THEN j.history ELSE table[k]]
         /\ \A k \in j.kinds : table[k] = <<>>
<1>1. j \in Job /\ j.history \in History /\ j.history # <<>> /\ j.kinds \subseteq Kinds
  BY DEF TypeOK, Job, History
<1>2. 1 \in DOMAIN j.history
  BY <1>1, EmptySeq DEF History
<1>3. ASSUME NEW k \in j.kinds PROVE table[k] = <<>> /\ DOMAIN table[k] = {}
  <2>1. table[k] \in History
    BY <1>1 DEF TypeOK
  <2>2. 1 \notin DOMAIN table[k]
    BY <1>2 DEF Conflicts
  <2> QED
    BY <2>1, <2>2, EmptySeq DEF History
<1>4. ASSUME NEW k \in j.kinds
      PROVE  [n \in DOMAIN table[k] \cup DOMAIN j.history |->
                IF n \in DOMAIN j.history THEN j.history[n] ELSE table[k][n]]
             = j.history
  <2>1. DOMAIN table[k] \cup DOMAIN j.history = DOMAIN j.history
    BY <1>3
  <2>2. j.history = [n \in DOMAIN j.history |-> j.history[n]]
    BY <1>1 DEF History
  <2> QED
    BY <2>1, <2>2
<1> QED
  BY <1>3, <1>4 DEF Insert

LEMMA TypeInitial == Init => TypeOK
<1> SUFFICES ASSUME Init PROVE TypeOK
  OBVIOUS
<1>1. PICK stored \in {<<>>} \cup [1..2 -> Messages] :
        /\ table = [k \in Kinds |-> stored]
        /\ unsent = Messages \ ToSet(stored)
        /\ written = [k \in Kinds |-> {<<>>, stored}]
  BY DEF Init
<1>2. stored \in History /\ <<>> \in History
  <2>1. [1..2 -> Messages] \subseteq [1..2 -> Messages \cup {Summary}]
    OBVIOUS
  <2>2. <<>> \in History
    BY DEF History
  <2>3. [1..2 -> Messages \cup {Summary}] \subseteq History
    BY SeqDef DEF History
  <2> QED
    BY <2>1, <2>2, <2>3
<1>3. cache \in [Kinds -> History] /\ table \in [Kinds -> History]
  BY <1>1, <1>2 DEF Init
<1>4. written \in [Kinds -> SUBSET History] /\ unsent \subseteq Messages
  BY <1>1, <1>2
<1>5. /\ behavior \in Behaviors /\ jobs = {}
      /\ snapshot = [u \in Updates |-> NoSnapshot]
      /\ writes = 0 /\ alone = TRUE /\ refused = FALSE /\ torn = FALSE
  BY DEF Init
<1>6. snapshot \in [Updates -> [Kinds -> History] \cup {NoSnapshot}]
  BY <1>5
<1>7. alone \in BOOLEAN /\ refused \in BOOLEAN /\ torn \in BOOLEAN
  BY <1>5
<1>8. jobs \subseteq Job /\ writes \in 0..MaxWrites
  BY <1>5, WritesAssumption
<1> QED
  BY <1>3, <1>4, <1>5, <1>6, <1>7, <1>8, Zenon DEF TypeOK

\* What the writes of the process do to the types.
LEMMA SetTypes ==
  ASSUME TypeOK, NEW c \in [Kinds -> History], SetConversationState(c)
  PROVE  /\ cache' \in [Kinds -> History] /\ jobs' \subseteq Job
         /\ writes' \in 0..MaxWrites
         /\ alone' \in BOOLEAN /\ refused' \in BOOLEAN
         /\ written' \in [Kinds -> SUBSET History]
<1>1. writes + 1 \in 1..MaxWrites /\ writes' = writes + 1
  BY WritesAssumption DEF TypeOK, SetConversationState, Issue
<1>2. {[id |-> writes + 1, kinds |-> {k}, history |-> c[k], stage |-> "delete"]
         : k \in Kinds} \subseteq Job
  BY <1>1 DEF Job, History
<1>3. alone' \in BOOLEAN /\ refused' \in BOOLEAN
  BY DEF SetConversationState, Issue, TypeOK
<1>4. written' \in [Kinds -> SUBSET History]
  BY DEF SetConversationState, TypeOK
<1> QED
  BY <1>1, <1>2, <1>3, <1>4 DEF SetConversationState, Issue, TypeOK

LEMMA TypeStep == TypeOK /\ [Next]_vars => TypeOK'
<1> SUFFICES ASSUME TypeOK, [Next]_vars PROVE TypeOK'
  OBVIOUS
<1>1. ASSUME NEW m \in Messages, AddConversationMessage(m) PROVE TypeOK'
  <2>1. Extended(cache, m) \in [Kinds -> History]
    BY HistoryFacts DEF TypeOK, Extended
  <2> QED
    BY <1>1, <2>1, SetTypes DEF AddConversationMessage, TypeOK
<1>2. CASE ClearConversation
  <2>1. Empty \in [Kinds -> History]
    BY DEF Empty, History
  <2>2. writes + 1 \in 1..MaxWrites /\ writes' = writes + 1
    BY <1>2, WritesAssumption DEF TypeOK, ClearConversation, Issue
  <2>3. [id |-> writes + 1, kinds |-> Kinds, history |-> <<>>, stage |-> "delete"] \in Job
    BY <2>2 DEF Job
  <2>4. alone' \in BOOLEAN /\ refused' \in BOOLEAN
    BY <1>2 DEF ClearConversation, Issue, TypeOK
  <2> QED
    BY <1>2, <2>1, <2>2, <2>3, <2>4 DEF ClearConversation, Issue, TypeOK
<1>3. ASSUME NEW u \in Updates, ReadConversation(u) PROVE TypeOK'
  BY <1>3 DEF ReadConversation, TypeOK
<1>4. ASSUME NEW u \in Updates, snapshot[u] # NoSnapshot
      PROVE  /\ snapshot[u] \in [Kinds -> History]
             /\ \A c \in Compactions(snapshot[u]["compact"]) : c \in History
  BY <1>4, CompactionFacts DEF TypeOK, Kinds
<1>5. ASSUME NEW u \in Updates, FinishCompaction(u) PROVE TypeOK'
  <2>1. snapshot' \in [Updates -> [Kinds -> History] \cup {NoSnapshot}]
    BY <1>5 DEF FinishCompaction, TypeOK
  <2>2. ASSUME NEW c \in Compactions(snapshot[u]["compact"])
        PROVE  [snapshot[u] EXCEPT !["compact"] = c] \in [Kinds -> History]
    BY <1>4, <1>5, <2>2 DEF FinishCompaction
  <2> QED
    BY <1>5, <2>1, <2>2, SetTypes DEF FinishCompaction, TypeOK
<1>6. ASSUME NEW u \in Updates, FinishTurn(u) PROVE TypeOK'
  <2>1. snapshot' \in [Updates -> [Kinds -> History] \cup {NoSnapshot}]
    BY <1>6 DEF FinishTurn, TypeOK
  <2>2. PICK m \in unsent,
             c \in {snapshot[u]["compact"]} \cup Compactions(snapshot[u]["compact"]) :
          /\ unsent' = unsent \ {m}
          /\ SetConversationState(Extended([snapshot[u] EXCEPT !["compact"] = c], m))
    BY <1>6 DEF FinishTurn
  <2>3. [snapshot[u] EXCEPT !["compact"] = c] \in [Kinds -> History] /\ m \in Messages
    BY <1>4, <1>6, <2>2 DEF FinishTurn, Kinds, TypeOK
  <2>4. Extended([snapshot[u] EXCEPT !["compact"] = c], m) \in [Kinds -> History]
    BY <2>3, HistoryFacts DEF Extended
  <2> QED
    BY <1>6, <2>1, <2>2, <2>4, SetTypes DEF FinishTurn, TypeOK
\* The requests.
<1>7. ASSUME NEW j \in jobs, Delete(j) PROVE table' \in [Kinds -> History]
  BY <1>7 DEF Delete, TypeOK, History
<1>8. ASSUME NEW j \in jobs, j.history # <<>>
      PROVE  [j EXCEPT !.stage = "insert"] \in Job
  BY <1>8 DEF TypeOK, Job
<1>9. ASSUME NEW j \in jobs, j.stage = "insert", ~Conflicts(j), Insert(j)
      PROVE  table' \in [Kinds -> History]
  <2>1. j.history \in History
    BY DEF TypeOK, Job, History
  <2> QED
    BY <1>9, <2>1, InsertFacts DEF TypeOK
<1>10. ASSUME NEW j \in jobs, DeleteLands(j) PROVE TypeOK'
  BY <1>7, <1>8, <1>10 DEF DeleteLands, Finished, quietInDatabase, TypeOK
<1>11. ASSUME NEW j \in jobs, DeleteFails(j) PROVE TypeOK'
  BY <1>7, <1>11 DEF DeleteFails, Finished, quietInDatabase, TypeOK
<1>12. ASSUME NEW j \in jobs, InsertLands(j) PROVE TypeOK'
  BY <1>9, <1>12 DEF InsertLands, Finished, quietInDatabase, TypeOK
<1>13. ASSUME NEW j \in jobs, InsertConflicts(j) PROVE TypeOK'
  BY <1>13 DEF InsertConflicts, Finished, quietInDatabase, TypeOK
<1>14. ASSUME NEW j \in jobs, InsertFails(j) PROVE TypeOK'
  BY <1>9, <1>14 DEF InsertFails, Finished, quietInDatabase, TypeOK
<1>15. CASE Restart
  <2>1. Hydrated \in [Kinds -> History]
    BY DEF Hydrated, TypeOK, Kinds
  <2>2. torn' \in BOOLEAN /\ alone' \in BOOLEAN /\ refused' \in BOOLEAN
    BY <1>15 DEF Restart
  <2> QED
    BY <1>15, <2>1, <2>2 DEF Restart, TypeOK
<1>16. CASE UNCHANGED vars
  BY <1>16 DEF vars, TypeOK
<1> QED
  BY <1>1, <1>2, <1>3, <1>5, <1>6, <1>10, <1>11, <1>12, <1>13, <1>14, <1>15,
     <1>16
  DEF Next

(* Types of the state; above all, the table always reads as histories.     *)
THEOREM TypeCorrect == Spec => []TypeOK
  BY TypeInitial, TypeStep, PTL DEF Spec

-----------------------------------------------------------------------------
(***************************************************************************)
(* Whole histories.  Invariant: what a write is about to store was given   *)
(* to its kinds; an INSERT adds to no rows (InsertFacts), so it stores     *)
(* exactly that.                                                           *)
(***************************************************************************)
Given ==
  /\ \A k \in Kinds : <<>> \in written[k] /\ table[k] \in written[k]
  /\ \A j \in jobs : \A k \in j.kinds : j.history \in written[k]

LEMMA GivenInitial == Init => Given
<1> SUFFICES ASSUME Init PROVE Given
  OBVIOUS
<1>1. PICK stored \in {<<>>} \cup [1..2 -> Messages] :
        /\ table = [k \in Kinds |-> stored]
        /\ written = [k \in Kinds |-> {<<>>, stored}]
  BY DEF Init
<1> QED
  BY <1>1 DEF Init, Given

LEMMA GivenSet ==
  ASSUME Given, TypeOK, NEW c \in [Kinds -> History], SetConversationState(c),
         UNCHANGED table
  PROVE  Given'
<1>1. \A k \in Kinds : written[k] \subseteq written'[k] /\ c[k] \in written'[k]
  BY DEF SetConversationState, TypeOK
<1>2. ASSUME NEW j \in jobs', NEW k \in j.kinds PROVE j.history \in written'[k]
  <2>1. CASE j \in jobs
    BY <1>1, <1>2, <2>1 DEF Given, TypeOK, Job
  <2>2. CASE j \notin jobs
    <3>1. PICK l \in Kinds : j = [id |-> writes + 1, kinds |-> {l},
                                  history |-> c[l], stage |-> "delete"]
      BY <2>2 DEF SetConversationState, Issue
    <3> QED
      BY <3>1, <1>1, <1>2
  <2> QED
    BY <2>1, <2>2
<1> QED
  BY <1>1, <1>2 DEF Given

LEMMA GivenStep == Given /\ TypeOK /\ [Next]_vars => Given'
<1> SUFFICES ASSUME Given, TypeOK, [Next]_vars PROVE Given'
  OBVIOUS
<1> USE DEF Given
<1>0. \A j \in jobs : j.kinds \subseteq Kinds
  BY DEF TypeOK, Job
<1>1. ASSUME NEW m \in Messages, AddConversationMessage(m) PROVE Given'
  <2>1. Extended(cache, m) \in [Kinds -> History]
    BY HistoryFacts DEF TypeOK, Extended
  <2> QED
    BY <1>1, <2>1, GivenSet DEF AddConversationMessage
<1>2. CASE ClearConversation
  BY <1>2 DEF ClearConversation, Issue
<1>3. ASSUME NEW u \in Updates, ReadConversation(u) PROVE Given'
  BY <1>3 DEF ReadConversation
<1>4. ASSUME NEW u \in Updates, snapshot[u] # NoSnapshot
      PROVE  /\ snapshot[u] \in [Kinds -> History]
             /\ \A c \in Compactions(snapshot[u]["compact"]) : c \in History
  BY <1>4, CompactionFacts DEF TypeOK, Kinds
<1>5. ASSUME NEW u \in Updates, FinishCompaction(u) PROVE Given'
  <2>1. ASSUME NEW c \in Compactions(snapshot[u]["compact"])
        PROVE  [snapshot[u] EXCEPT !["compact"] = c] \in [Kinds -> History]
    BY <1>4, <1>5, <2>1 DEF FinishCompaction
  <2> QED
    BY <1>5, <2>1, GivenSet DEF FinishCompaction
<1>6. ASSUME NEW u \in Updates, FinishTurn(u) PROVE Given'
  <2>1. PICK m \in unsent,
             c \in {snapshot[u]["compact"]} \cup Compactions(snapshot[u]["compact"]) :
          SetConversationState(Extended([snapshot[u] EXCEPT !["compact"] = c], m))
    BY <1>6 DEF FinishTurn
  <2>2. [snapshot[u] EXCEPT !["compact"] = c] \in [Kinds -> History] /\ m \in Messages
    BY <1>4, <1>6, <2>1 DEF FinishTurn, Kinds, TypeOK
  <2>3. Extended([snapshot[u] EXCEPT !["compact"] = c], m) \in [Kinds -> History]
    BY <2>2, HistoryFacts DEF Extended
  <2> QED
    BY <1>6, <2>1, <2>3, GivenSet DEF FinishTurn
<1>7. ASSUME NEW j \in jobs, DeleteLands(j) PROVE Given'
  <2> DEFINE d == [j EXCEPT !.stage = "insert"]
  <2>1. d.kinds = j.kinds /\ d.history = j.history
    BY DEF TypeOK, Job
  <2> HIDE DEF d
  <2>2. jobs' \subseteq jobs \cup {d}
    BY <1>7 DEF DeleteLands, Finished, d
  <2>3. written' = written /\ Delete(j)
    BY <1>7 DEF DeleteLands, quietInDatabase
  <2>4. \A k \in Kinds : <<>> \in written'[k] /\ table'[k] \in written'[k]
    BY <2>3 DEF Delete
  <2> QED
    BY <2>1, <2>2, <2>3, <2>4
<1>8. ASSUME NEW j \in jobs, DeleteFails(j) PROVE Given'
  BY <1>0, <1>8 DEF DeleteFails, Delete, Finished, quietInDatabase
<1>9. ASSUME NEW j \in jobs, j.stage = "insert", ~Conflicts(j), Insert(j),
             UNCHANGED written
      PROVE  \A k \in Kinds : table'[k] \in written'[k]
  BY <1>0, <1>9, InsertFacts
<1>10. ASSUME NEW j \in jobs, InsertLands(j) PROVE Given'
  BY <1>9, <1>10 DEF InsertLands, Finished, quietInDatabase
<1>11. ASSUME NEW j \in jobs, InsertConflicts(j) PROVE Given'
  BY <1>11 DEF InsertConflicts, Finished, quietInDatabase
<1>12. ASSUME NEW j \in jobs, InsertFails(j) PROVE Given'
  BY <1>9, <1>12 DEF InsertFails, Finished, quietInDatabase
<1>13. CASE Restart
  BY <1>13 DEF Restart
<1>14. CASE UNCHANGED vars
  BY <1>14 DEF vars
<1> QED
  BY <1>1, <1>2, <1>3, <1>5, <1>6, <1>7, <1>8, <1>10, <1>11, <1>12, <1>13, <1>14
  DEF Next

(* Deletes and inserts of overlapping writes never mix two histories in    *)
(* the table.                                                              *)
THEOREM AlwaysWholeHistories == Spec => []WholeHistories
<1>1. Given => WholeHistories
  BY DEF Given, WholeHistories
<1> QED
  BY <1>1, TypeInitial, TypeStep, GivenInitial, GivenStep, PTL DEF Spec

-----------------------------------------------------------------------------
(***************************************************************************)
(* A write that runs alone repairs the table.  Invariant: while it runs,   *)
(* its jobs are for kinds of their own and store what the cache holds; a   *)
(* kind whose DELETE has landed has no rows, so its INSERT cannot          *)
(* conflict; a kind whose job is over holds what the cache holds.          *)
(***************************************************************************)
Repairing ==
  /\ \A i, j \in jobs : i # j => i.kinds \cap j.kinds = {}
  /\ \A j \in jobs : \A k \in j.kinds :
       j.history = cache[k] /\ (j.stage = "insert" => table[k] = <<>>)
  /\ jobs # {} =>
       \A k \in Kinds : (\A j \in jobs : k \notin j.kinds) => table[k] = cache[k]
  /\ jobs = {} => Hydrated = cache

Repairs ==
  /\ cache["compact"] = <<>> => cache["full"] = <<>>
  /\ alone /\ ~refused => Repairing

\* A table that equals the cache is hydrated as it stands.
LEMMA HydratedFacts ==
  ASSUME TypeOK
  PROVE  /\ Hydrated \in [Kinds -> History]
         /\ Hydrated["compact"] = <<>> => Hydrated["full"] = <<>>
         /\ (/\ cache["compact"] = <<>> => cache["full"] = <<>>
             /\ \A k \in Kinds : table[k] = cache[k]) => Hydrated = cache
  BY DEF Hydrated, TypeOK, Kinds

LEMMA RepairsInitial == Init => Repairs
<1> SUFFICES ASSUME Init PROVE Repairs
  OBVIOUS
<1>1. TypeOK
  BY TypeInitial
<1>2. cache["compact"] = cache["full"] /\ cache = table /\ jobs = {}
  BY DEF Init, Kinds
<1>3. Hydrated = cache
  BY <1>1, <1>2, HydratedFacts
<1> QED
  BY <1>2, <1>3 DEF Repairs, Repairing

\* A write begins.
LEMMA RepairsSet ==
  ASSUME Repairs, TypeOK, NEW c \in [Kinds -> History], SetConversationState(c),
         c["compact"] = <<>> => c["full"] = <<>>
  PROVE  Repairs'
<1>1. cache' = c /\ (cache'["compact"] = <<>> => cache'["full"] = <<>>)
  BY DEF SetConversationState
<1>2. ASSUME alone' PROVE Repairing'
  <2> DEFINE new(k) == [id |-> writes + 1, kinds |-> {k}, history |-> c[k],
                        stage |-> "delete"]
  <2>1. jobs' = {new(k) : k \in Kinds}
    BY <1>2 DEF SetConversationState, Issue
  <2>2. \A k \in Kinds : /\ new(k).kinds = {k} /\ new(k).history = c[k]
                         /\ new(k).stage = "delete"
    OBVIOUS
  <2> HIDE DEF new
  <2>3. \A i, j \in jobs' : i # j => i.kinds \cap j.kinds = {}
    BY <2>1, <2>2
  <2>4. \A j \in jobs' : \A k \in j.kinds : j.history = cache'[k] /\ j.stage = "delete"
    BY <1>1, <2>1, <2>2
  <2>5. \A k \in Kinds : \E j \in jobs' : k \in j.kinds
    BY <2>1, <2>2
  <2>6. jobs' # {}
    BY <2>1 DEF Kinds
  <2> QED
    BY <2>3, <2>4, <2>5, <2>6 DEF Repairing
<1> QED
  BY <1>1, <1>2 DEF Repairs

\* A request ends and none was refused: each job is gone or has advanced.
LEMMA RepairsStep == Repairs /\ TypeOK /\ [Next]_vars => Repairs'
<1> SUFFICES ASSUME Repairs, TypeOK, [Next]_vars PROVE Repairs'
  OBVIOUS
<1>0. \A j \in jobs : j.kinds \subseteq Kinds
  BY DEF TypeOK, Job
<1>1. ASSUME NEW m \in Messages, AddConversationMessage(m) PROVE Repairs'
  <2>1. /\ Extended(cache, m) \in [Kinds -> History]
        /\ Extended(cache, m)["compact"] # <<>>
    BY HistoryFacts DEF TypeOK, Extended, Kinds
  <2> QED
    BY <1>1, <2>1, RepairsSet DEF AddConversationMessage
<1>2. CASE ClearConversation
  <2> DEFINE new == [id |-> writes + 1, kinds |-> Kinds, history |-> <<>>,
                     stage |-> "delete"]
  <2>1. cache' = Empty /\ (alone' => jobs' = {new})
    BY <1>2 DEF ClearConversation, Issue
  <2>2. new.kinds = Kinds /\ new.history = <<>> /\ new.stage = "delete"
    OBVIOUS
  <2> HIDE DEF new
  <2>3. \A k \in Kinds : cache'[k] = <<>>
    BY <2>1 DEF Empty
  <2> QED
    BY <2>1, <2>2, <2>3 DEF Repairs, Repairing, Kinds
<1>3. ASSUME UNCHANGED <<cache, table, jobs, alone, refused>> PROVE Repairs'
  BY <1>3 DEF Repairs, Repairing, Hydrated
<1>4. ASSUME NEW u \in Updates, ReadConversation(u) PROVE Repairs'
  BY <1>3, <1>4 DEF ReadConversation
<1>5. ASSUME NEW u \in Updates, snapshot[u] # NoSnapshot
      PROVE  /\ snapshot[u] \in [Kinds -> History]
             /\ \A c \in Compactions(snapshot[u]["compact"]) : c \in History /\ c # <<>>
  BY <1>5, CompactionFacts DEF TypeOK, Kinds
<1>6. ASSUME NEW u \in Updates, FinishCompaction(u) PROVE Repairs'
  <2>1. ASSUME NEW c \in Compactions(snapshot[u]["compact"])
        PROVE  /\ [snapshot[u] EXCEPT !["compact"] = c] \in [Kinds -> History]
               /\ [snapshot[u] EXCEPT !["compact"] = c]["compact"] # <<>>
    BY <1>5, <1>6, <2>1 DEF FinishCompaction, Kinds
  <2>2. CASE UNCHANGED <<cache, jobs, writes, alone, refused, written>>
    BY <1>3, <1>6, <2>2 DEF FinishCompaction
  <2> QED
    BY <1>6, <2>1, <2>2, RepairsSet DEF FinishCompaction
<1>7. ASSUME NEW u \in Updates, FinishTurn(u) PROVE Repairs'
  <2>1. PICK m \in unsent,
             c \in {snapshot[u]["compact"]} \cup Compactions(snapshot[u]["compact"]) :
          SetConversationState(Extended([snapshot[u] EXCEPT !["compact"] = c], m))
    BY <1>7 DEF FinishTurn
  <2>2. [snapshot[u] EXCEPT !["compact"] = c] \in [Kinds -> History] /\ m \in Messages
    BY <1>5, <1>7, <2>1 DEF FinishTurn, Kinds, TypeOK
  <2>3. /\ Extended([snapshot[u] EXCEPT !["compact"] = c], m) \in [Kinds -> History]
        /\ Extended([snapshot[u] EXCEPT !["compact"] = c], m)["compact"] # <<>>
    BY <2>2, HistoryFacts DEF Extended, Kinds
  <2> QED
    BY <2>1, <2>3, RepairsSet
\* What is common to the requests that end without an error.
<1>8. ASSUME NEW j \in jobs, jobs' = jobs \ {j}, UNCHANGED <<cache, alone, refused>>,
             alone /\ ~refused,
             \A k \in Kinds : table'[k] = IF k \in j.kinds THEN cache[k] ELSE table[k]
      PROVE  Repairing'
  <2>1. Repairing
    BY <1>8 DEF Repairs
  <2>2. \A i, l \in jobs' : i # l => i.kinds \cap l.kinds = {}
    BY <1>8, <2>1 DEF Repairing
  <2>3. ASSUME NEW i \in jobs', NEW k \in i.kinds
        PROVE  i.history = cache'[k] /\ (i.stage = "insert" => table'[k] = <<>>)
    <3>1. i \in jobs /\ k \notin j.kinds /\ k \in Kinds
      BY <1>0, <1>8, <2>1, <2>3 DEF Repairing
    <3> QED
      BY <1>8, <2>1, <3>1 DEF Repairing
  <2>4. ASSUME NEW k \in Kinds, \A i \in jobs' : k \notin i.kinds
        PROVE  table'[k] = cache'[k]
    <3>1. CASE k \in j.kinds
      BY <1>8, <3>1
    <3>2. CASE k \notin j.kinds
      BY <1>8, <2>1, <2>4, <3>2 DEF Repairing
    <3> QED
      BY <3>1, <3>2
  <2>5. jobs' = {} => Hydrated' = cache'
    <3>1. TypeOK'
      BY TypeStep
    <3>2. cache'["compact"] = <<>> => cache'["full"] = <<>>
      BY <1>8 DEF Repairs
    <3>3. jobs' = {} => \A k \in Kinds : table'[k] = cache'[k]
      BY <2>4
    <3> QED
      BY <3>1, <3>2, <3>3 DEF Hydrated, TypeOK, Kinds
  <2> QED
    BY <2>2, <2>3, <2>4, <2>5 DEF Repairing
<1>9. ASSUME NEW j \in jobs, DeleteLands(j) PROVE Repairs'
  <2> SUFFICES ASSUME alone /\ ~refused PROVE Repairing'
    BY <1>9 DEF DeleteLands, quietInDatabase, Repairs
  <2>1. Repairing
    BY DEF Repairs
  <2>2. /\ UNCHANGED <<cache, alone, refused>>
        /\ \A k \in Kinds : table'[k] = IF k \in j.kinds THEN <<>> ELSE table[k]
    BY <1>9 DEF DeleteLands, Delete, quietInDatabase
  <2>3. CASE j.history = <<>>
    <3>1. \A k \in j.kinds : cache[k] = <<>>
      BY <2>1, <2>3 DEF Repairing
    <3>2. jobs' = jobs \ {j}
      BY <1>9, <2>3 DEF DeleteLands, Finished
    <3> QED
      BY <1>8, <2>2, <3>1, <3>2
  <2>4. CASE j.history # <<>>
    <3> DEFINE d == [j EXCEPT !.stage = "insert"]
    <3>1. d.kinds = j.kinds /\ d.history = j.history
      BY DEF TypeOK, Job
    <3>2. jobs' = (jobs \ {j}) \cup {d}
      BY <1>9, <2>4 DEF DeleteLands
    <3> HIDE DEF d
    <3>3. \A i \in jobs : i # j => i.kinds \cap j.kinds = {}
      BY <2>1 DEF Repairing
    <3>4. \A i, l \in jobs' : i # l => i.kinds \cap l.kinds = {}
      BY <2>1, <3>1, <3>2 DEF Repairing
    <3>5. ASSUME NEW i \in jobs', NEW k \in i.kinds
          PROVE  i.history = cache'[k] /\ (i.stage = "insert" => table'[k] = <<>>)
      <4>1. CASE i = d
        BY <1>0, <2>1, <2>2, <3>1, <3>5, <4>1 DEF Repairing
      <4>2. CASE i \in jobs /\ i # j
        <5>1. k \in Kinds /\ k \notin j.kinds
          BY <1>0, <3>3, <3>5, <4>2
        <5> QED
          BY <2>1, <2>2, <3>5, <4>2, <5>1 DEF Repairing
      <4> QED
        BY <3>2, <4>1, <4>2
    <3>6. ASSUME NEW k \in Kinds, \A i \in jobs' : k \notin i.kinds
          PROVE  table'[k] = cache'[k]
      <4>1. k \notin j.kinds /\ \A i \in jobs : k \notin i.kinds
        BY <3>1, <3>2, <3>6
      <4> QED
        BY <2>1, <2>2, <4>1 DEF Repairing
    <3>7. jobs' # {}
      BY <3>2
    <3> QED
      BY <3>4, <3>5, <3>6, <3>7 DEF Repairing
  <2> QED
    BY <2>3, <2>4
<1>10. ASSUME NEW j \in jobs, DeleteFails(j) PROVE Repairs'
  BY <1>10 DEF DeleteFails, quietInDatabase, Repairs
<1>11. ASSUME NEW j \in jobs, InsertLands(j) PROVE Repairs'
  <2> SUFFICES ASSUME alone /\ ~refused PROVE Repairing'
    BY <1>11 DEF InsertLands, quietInDatabase, Repairs
  <2>1. Repairing
    BY DEF Repairs
  <2>2. /\ UNCHANGED <<cache, alone, refused>> /\ jobs' = jobs \ {j}
        /\ \A k \in Kinds : table'[k] = IF k \in j.kinds THEN j.history ELSE table[k]
    BY <1>11, InsertFacts DEF InsertLands, Finished, quietInDatabase
  <2>3. \A k \in j.kinds : j.history = cache[k]
    BY <2>1 DEF Repairing
  <2> QED
    BY <1>8, <2>2, <2>3
<1>12. ASSUME NEW j \in jobs, InsertConflicts(j) PROVE Repairs'
  <2> SUFFICES ASSUME alone /\ ~refused PROVE FALSE
    BY <1>12 DEF InsertConflicts, quietInDatabase, Repairs
  <2>1. \A k \in j.kinds : table[k] = <<>>
    BY <1>12 DEF InsertConflicts, Repairs, Repairing
  <2> QED
    BY <1>12, <2>1 DEF InsertConflicts, Conflicts
<1>13. ASSUME NEW j \in jobs, InsertFails(j) PROVE Repairs'
  BY <1>13 DEF InsertFails, quietInDatabase, Repairs
<1>14. CASE Restart
  <2>1. Hydrated' = Hydrated
    BY <1>14 DEF Restart, Hydrated
  <2>2. Hydrated' = cache' /\ jobs' = {}
    BY <1>14, <2>1 DEF Restart
  <2>3. (cache'["compact"] = <<>>) => (cache'["full"] = <<>>)
    BY <1>14, HydratedFacts DEF Restart
  <2>4. Repairing'
    BY <2>2 DEF Repairing
  <2> QED
    BY <2>3, <2>4 DEF Repairs
<1>15. CASE UNCHANGED vars
  BY <1>3, <1>15 DEF vars
<1> QED
  BY <1>1, <1>2, <1>4, <1>6, <1>7, <1>9, <1>10, <1>11, <1>12, <1>13, <1>14, <1>15
  DEF Next

(* After a write that ran alone, a restart finds the cache.                *)
THEOREM RestartAlwaysFindsCache == Spec => []RestartFindsCache
<1>1. Repairs => RestartFindsCache
  BY DEF Repairs, Repairing, RestartFindsCache
<1> QED
  BY <1>1, TypeInitial, TypeStep, RepairsInitial, RepairsStep, PTL DEF Spec

-----------------------------------------------------------------------------
(***************************************************************************)
(* The running history within the full one.  Invariant: the snapshots have *)
(* the property too, since an update writes both kinds from one snapshot.  *)
(* A restart keeps it because the writes before it had repaired the table. *)
(***************************************************************************)
Within(c) == ToSet(c["compact"]) \ {Summary} \subseteq ToSet(c["full"])

Shown ==
  ~torn =>
    /\ Within(cache)
    /\ \A u \in Updates : snapshot[u] # NoSnapshot => Within(snapshot[u])

LEMMA WithinFacts ==
  ASSUME NEW c \in [Kinds -> History], Within(c)
  PROVE  /\ \A m \in Messages : Within(Extended(c, m))
         /\ \A d \in Compactions(c["compact"]) :
              Within([c EXCEPT !["compact"] = d]) /\ d \in History
<1>1. c["compact"] \in History /\ c["full"] \in History
  BY DEF Kinds
<1>2. ASSUME NEW m \in Messages PROVE Within(Extended(c, m))
  <2>1. /\ Extended(c, m)["compact"] = Append(c["compact"], m)
        /\ Extended(c, m)["full"] = Append(c["full"], m)
    BY DEF Extended, Kinds
  <2>2. /\ ToSet(Append(c["compact"], m)) = ToSet(c["compact"]) \cup {m}
        /\ ToSet(Append(c["full"], m)) = ToSet(c["full"]) \cup {m}
    BY <1>1, HistoryFacts
  <2> QED
    BY <2>1, <2>2 DEF Within
<1>3. ASSUME NEW d \in Compactions(c["compact"])
      PROVE  Within([c EXCEPT !["compact"] = d]) /\ d \in History
  <2>1. d \in History /\ ToSet(d) \subseteq ToSet(c["compact"]) \cup {Summary}
    BY <1>1, CompactionFacts
  <2>2. /\ [c EXCEPT !["compact"] = d]["compact"] = d
        /\ [c EXCEPT !["compact"] = d]["full"] = c["full"]
    BY DEF Kinds
  <2> QED
    BY <2>1, <2>2 DEF Within
<1> QED
  BY <1>2, <1>3

LEMMA ShownInitial == Init => Shown
<1> SUFFICES ASSUME Init PROVE Shown
  OBVIOUS
<1>1. cache["compact"] = cache["full"] /\ snapshot = [u \in Updates |-> NoSnapshot]
  BY DEF Init, Kinds
<1> QED
  BY <1>1 DEF Shown, Within

LEMMA ShownStep == Shown /\ Repairs /\ TypeOK /\ [Next]_vars => Shown'
<1> SUFFICES ASSUME Shown, Repairs, TypeOK, [Next]_vars PROVE Shown'
  OBVIOUS
<1>1. ASSUME NEW m \in Messages, AddConversationMessage(m) PROVE Shown'
  <2>1. ~torn => Within(Extended(cache, m))
    BY WithinFacts DEF Shown, TypeOK
  <2>2. /\ cache' = Extended(cache, m) /\ UNCHANGED <<snapshot, torn>>
    BY <1>1 DEF AddConversationMessage, SetConversationState
  <2> QED
    BY <2>1, <2>2 DEF Shown, Within
<1>2. CASE ClearConversation
  <2>1. cache' = Empty /\ UNCHANGED <<snapshot, torn>>
    BY <1>2 DEF ClearConversation
  <2>2. Empty["compact"] = Empty["full"]
    BY DEF Empty, Kinds
  <2>3. Within(Empty)
    BY <2>2 DEF Within
  <2> QED
    BY <2>1, <2>3 DEF Shown, Within
<1>3. ASSUME NEW u \in Updates, ReadConversation(u) PROVE Shown'
  BY <1>3 DEF ReadConversation, Shown, Within, TypeOK
<1>4. ASSUME NEW u \in Updates, snapshot[u] # NoSnapshot,
             snapshot' = [snapshot EXCEPT ![u] = NoSnapshot], UNCHANGED torn,
             ~torn => Within(cache')
      PROVE  Shown'
  <2>1. \A v \in Updates : snapshot'[v] # NoSnapshot => snapshot'[v] = snapshot[v]
    BY <1>4 DEF TypeOK
  <2> QED
    BY <1>4, <2>1 DEF Shown, Within
<1>5. ASSUME NEW u \in Updates, FinishCompaction(u) PROVE Shown'
  <2>1. snapshot[u] # NoSnapshot /\ snapshot[u] \in [Kinds -> History]
    BY <1>5 DEF FinishCompaction, TypeOK
  <2>2. ASSUME ~torn PROVE Within(cache')
    <3>1. Within(snapshot[u]) /\ Within(cache)
      BY <2>1, <2>2 DEF Shown
    <3>2. \A c \in Compactions(snapshot[u]["compact"]) :
            Within([snapshot[u] EXCEPT !["compact"] = c])
      BY <2>1, <3>1, WithinFacts
    <3> QED
      BY <1>5, <3>1, <3>2 DEF FinishCompaction, SetConversationState, Within
  <2> QED
    BY <1>4, <1>5, <2>1, <2>2 DEF FinishCompaction
<1>6. ASSUME NEW u \in Updates, FinishTurn(u) PROVE Shown'
  <2>1. snapshot[u] # NoSnapshot /\ snapshot[u] \in [Kinds -> History]
    BY <1>6 DEF FinishTurn, TypeOK
  <2>2. ASSUME ~torn PROVE Within(cache')
    <3>1. Within(snapshot[u])
      BY <2>1, <2>2 DEF Shown
    <3>2. PICK m \in unsent,
               c \in {snapshot[u]["compact"]} \cup Compactions(snapshot[u]["compact"]) :
            cache' = Extended([snapshot[u] EXCEPT !["compact"] = c], m)
      BY <1>6 DEF FinishTurn, SetConversationState
    <3> DEFINE s == [snapshot[u] EXCEPT !["compact"] = c]
    <3>3. s \in [Kinds -> History] /\ Within(s)
      <4>1. CASE c = snapshot[u]["compact"]
        <5>1. s = snapshot[u]
          BY <2>1, <4>1
        <5> QED
          BY <5>1, <2>1, <3>1
      <4>2. CASE c \in Compactions(snapshot[u]["compact"])
        BY <2>1, <3>1, <4>2, WithinFacts
      <4> QED
        BY <3>2, <4>1, <4>2
    <3> HIDE DEF s
    <3>4. cache' = Extended(s, m) /\ m \in Messages
      BY <3>2 DEF TypeOK, s
    <3>5. Within(Extended(s, m))
      BY <3>3, <3>4, WithinFacts
    <3> QED
      BY <3>4, <3>5 DEF Within
  <2> QED
    BY <1>4, <1>6, <2>1, <2>2 DEF FinishTurn
<1>7. ASSUME UNCHANGED <<cache, snapshot, torn>> PROVE Shown'
  BY <1>7 DEF Shown, Within
<1>8. ASSUME NEW j \in jobs,
             \/ DeleteLands(j) \/ DeleteFails(j)
             \/ InsertLands(j) \/ InsertConflicts(j) \/ InsertFails(j)
      PROVE  Shown'
  BY <1>7, <1>8
  DEF DeleteLands, DeleteFails, InsertLands, InsertConflicts, InsertFails,
      quietInDatabase
<1>9. CASE Restart
  <2>1. \A u \in Updates : snapshot'[u] = NoSnapshot
    BY <1>9 DEF Restart
  <2>2. ~torn' => ~torn /\ cache' = cache
    BY <1>9 DEF Restart, Repairs, Repairing
  <2> QED
    BY <2>1, <2>2 DEF Shown, Within
<1>10. CASE UNCHANGED vars
  BY <1>7, <1>10 DEF vars
<1> QED
  BY <1>1, <1>2, <1>3, <1>5, <1>6, <1>8, <1>9, <1>10 DEF Next

(* Whatever the updates overlap with, the model is shown nothing that the  *)
(* user is not, until a process dies in the middle of a write.             *)
THEOREM RunningAlwaysWithinFull == Spec => []RunningWithinFull
<1>1. Shown => RunningWithinFull
  BY DEF Shown, Within, RunningWithinFull
<1> QED
  BY <1>1, TypeInitial, TypeStep, RepairsInitial, RepairsStep, ShownInitial,
     ShownStep, PTL
  DEF Spec
-----------------------------------------------------------------------------
(***************************************************************************)
(* No message twice.  Invariant: every history anybody holds is clean: it  *)
(* has no repetition, none of the messages still to come, and a summary    *)
(* nowhere but at its head, where the next compaction drops it.            *)
(***************************************************************************)
Clean(h, coming) ==
  /\ IsInjective(h)
  /\ \A n \in DOMAIN h : h[n] \notin coming /\ (h[n] = Summary => n = 1)

Singles ==
  /\ \A k \in Kinds : Clean(cache[k], unsent)
  /\ \A u \in Updates :
       snapshot[u] # NoSnapshot => \A k \in Kinds : Clean(snapshot[u][k], unsent)
  /\ \A k \in Kinds : \A h \in written[k] : Clean(h, unsent)

\* A message that was to come can be appended.
LEMMA CleanAppend ==
  ASSUME NEW h \in History, NEW coming \in SUBSET Messages, NEW m \in coming,
         Clean(h, coming)
  PROVE  Clean(Append(h, m), coming \ {m})
<1>1. /\ Len(h) \in Nat /\ DOMAIN h = 1..Len(h)
      /\ DOMAIN Append(h, m) = 1..(Len(h) + 1) /\ Append(h, m)[Len(h) + 1] = m
      /\ \A n \in 1..Len(h) : Append(h, m)[n] = h[n]
  <2>1. h \in Seq(Messages \cup {Summary}) /\ m \in Messages \cup {Summary}
    BY DEF History
  <2> QED
    BY <2>1, AppendProperties
<1>2. \A n \in 1..Len(h) : h[n] # m
  BY <1>1 DEF Clean
<1>3. m # Summary
  BY SummaryAssumption
<1>4. IsInjective(Append(h, m))
  BY <1>1, <1>2 DEF Clean, IsInjective
<1>5. \A n \in DOMAIN Append(h, m) :
        Append(h, m)[n] \notin coming \ {m} /\ (Append(h, m)[n] = Summary => n = 1)
  BY <1>1, <1>3 DEF Clean
<1> QED
  BY <1>4, <1>5 DEF Clean

\* The tail of a clean history is clean and has no summary.
LEMMA CleanTail ==
  ASSUME NEW h \in History, NEW coming, Clean(h, coming),
         NEW from \in 2..Len(h)
  PROVE  LET t == SubSeq(h, from, Len(h))
         IN  /\ t \in History /\ Clean(t, coming)
             /\ \A n \in DOMAIN t : t[n] # Summary
<1> DEFINE t == SubSeq(h, from, Len(h))
<1>1. Len(h) \in Nat /\ DOMAIN h = 1..Len(h)
  BY DEF History
<1>2. /\ t \in History /\ Len(t) = Len(h) - from + 1
      /\ \A n \in 1..(Len(h) - from + 1) : t[n] = h[from + n - 1]
  BY <1>1, SubSeqProperties DEF History
<1>3. DOMAIN t = 1..(Len(h) - from + 1)
  BY <1>1, <1>2 DEF History
<1>4. \A n \in DOMAIN t : /\ from + n - 1 \in DOMAIN h /\ from + n - 1 # 1
                          /\ t[n] = h[from + n - 1]
  BY <1>1, <1>2, <1>3
<1> HIDE DEF t
<1>5. \A n \in DOMAIN t : t[n] \notin coming /\ t[n] # Summary
  BY <1>4 DEF Clean
<1>6. IsInjective(t)
  BY <1>1, <1>3, <1>4 DEF Clean, IsInjective
<1> QED
  BY <1>2, <1>5, <1>6 DEF Clean, t

LEMMA CleanCompaction ==
  ASSUME NEW h \in History, NEW coming \in SUBSET Messages, Clean(h, coming),
         NEW c \in Compactions(h)
  PROVE  Clean(c, coming)
<1>1. Len(h) \in Nat
  BY DEF History
<1>2. CASE c \in {tail \in {SubSeq(h, n, Len(h)) : n \in 2..Len(h)} : tail # <<>>}
  BY <1>2, CleanTail
<1>3. ASSUME NEW from \in 3..Len(h), c = <<Summary>> \o SubSeq(h, from, Len(h))
      PROVE  Clean(c, coming)
  <2> DEFINE t == SubSeq(h, from, Len(h))
  <2>1. /\ t \in History /\ Clean(t, coming)
        /\ \A n \in DOMAIN t : t[n] # Summary
    <3>1. from \in 2..Len(h)
      BY <1>1
    <3> QED
      BY <3>1, CleanTail
  <2> HIDE DEF t
  <2>2. <<Summary>> \in History /\ Len(<<Summary>>) = 1 /\ <<Summary>>[1] = Summary
    BY DEF History
  <2>3. /\ c \in History /\ Len(c) = Len(t) + 1 /\ Len(t) \in Nat
        /\ \A n \in 1..Len(c) : c[n] = IF n <= 1 THEN <<Summary>>[n] ELSE t[n - 1]
    BY <1>3, <2>1, <2>2, ConcatProperties DEF History, t
  <2>4. DOMAIN c = 1..Len(c) /\ DOMAIN t = 1..Len(t)
    BY <2>1, <2>3 DEF History
  <2>5. c # <<>> /\ \A n \in DOMAIN c :
          IF n = 1 THEN c[n] = Summary ELSE n - 1 \in DOMAIN t /\ c[n] = t[n - 1]
    BY <2>2, <2>3, <2>4
  <2>6. \A n \in DOMAIN c : n \in Int
    BY <2>3, <2>4
  <2>7. IsInjective(c)
    <3> SUFFICES ASSUME NEW a \in DOMAIN c, NEW b \in DOMAIN c, c[a] = c[b]
                 PROVE  a = b
      BY DEF IsInjective
    <3>1. CASE a = 1 \/ b = 1
      BY <2>1, <2>5, <3>1
    <3>2. CASE a # 1 /\ b # 1
      <4>1. /\ a - 1 \in DOMAIN t /\ b - 1 \in DOMAIN t /\ t[a - 1] = t[b - 1]
        BY <2>5, <3>2
      <4>2. a - 1 = b - 1
        BY <2>1, <4>1, Zenon DEF Clean, IsInjective
      <4> QED
        BY <2>6, <4>2
    <3> QED
      BY <3>1, <3>2
  <2>8. Summary \notin coming
    BY SummaryAssumption
  <2>9. \A n \in DOMAIN c : c[n] \notin coming /\ (c[n] = Summary => n = 1)
    BY <2>1, <2>5, <2>8 DEF Clean
  <2> QED
    BY <2>7, <2>9 DEF Clean
<1> QED
  BY <1>2, <1>3 DEF Compactions

\* Messages that come make fewer that are to come.
LEMMA CleanLater ==
  ASSUME NEW h, NEW coming, NEW later \in SUBSET coming, Clean(h, coming)
  PROVE  Clean(h, later)
  BY DEF Clean

LEMMA SinglesInitial == Init => Singles
<1> SUFFICES ASSUME Init PROVE Singles
  OBVIOUS
<1>1. PICK stored \in {<<>>} \cup [1..2 -> Messages] :
        /\ Cardinality(ToSet(stored)) = Len(stored)
        /\ table = [k \in Kinds |-> stored]
        /\ unsent = Messages \ ToSet(stored)
        /\ written = [k \in Kinds |-> {<<>>, stored}]
  BY DEF Init
<1>2. Clean(<<>>, unsent)
  BY DEF Clean, IsInjective
<1>3. Clean(stored, unsent)
  <2>1. CASE stored = <<>>
    BY <1>2, <2>1
  <2>2. CASE stored \in [1..2 -> Messages]
    <3>1. ToSet(stored) = {stored[1], stored[2]} /\ DOMAIN stored = {1, 2}
      BY <2>2 DEF ToSet
    <3>2. Len(stored) = 2
      BY <2>2, LenProperties, SeqDef
    <3>3. stored[1] # stored[2]
      <4>1. ASSUME stored[1] = stored[2] PROVE FALSE
        <5>1. Cardinality({stored[1]}) = 1
          BY FS_Singleton
        <5>2. ToSet(stored) = {stored[1]}
          BY <3>1, <4>1
        <5> QED
          BY <1>1, <3>2, <5>1, <5>2
      <4> QED
        BY <4>1
    <3>4. IsInjective(stored)
      BY <3>1, <3>3 DEF IsInjective
    <3>5. \A n \in DOMAIN stored : stored[n] \notin unsent /\ stored[n] # Summary
      BY <1>1, <2>2, <3>1, SummaryAssumption
    <3> QED
      BY <3>4, <3>5 DEF Clean
  <2> QED
    BY <1>1, <2>1, <2>2
<1> QED
  BY <1>1, <1>2, <1>3 DEF Init, Singles

\* A clean conversation keeps everything clean when it is set.
LEMMA SinglesSet ==
  ASSUME Singles, TypeOK, NEW c \in [Kinds -> History], SetConversationState(c),
         unsent' \subseteq unsent,
         \A k \in Kinds : Clean(c[k], unsent'),
         \A u \in Updates : snapshot'[u] \in {snapshot[u], NoSnapshot}
  PROVE  Singles'
<1>1. cache' = c /\ \A k \in Kinds : written'[k] = written[k] \cup {c[k]}
  BY DEF SetConversationState
<1>2. \A k \in Kinds : \A h \in written'[k] : Clean(h, unsent')
  BY <1>1, CleanLater DEF Singles
<1>3. ASSUME NEW u \in Updates, snapshot'[u] # NoSnapshot, NEW k \in Kinds
      PROVE  Clean(snapshot'[u][k], unsent')
  BY <1>3, CleanLater DEF Singles
<1> QED
  BY <1>1, <1>2, <1>3 DEF Singles

LEMMA SinglesStep == Singles /\ Given /\ TypeOK /\ [Next]_vars => Singles'
<1> SUFFICES ASSUME Singles, Given, TypeOK, [Next]_vars PROVE Singles'
  OBVIOUS
<1>0. unsent \in SUBSET Messages
  BY DEF TypeOK
<1>1. ASSUME NEW m \in Messages, AddConversationMessage(m) PROVE Singles'
  <2>1. /\ m \in unsent /\ unsent' = unsent \ {m} /\ snapshot' = snapshot
        /\ SetConversationState(Extended(cache, m))
    BY <1>1 DEF AddConversationMessage
  <2>2. Extended(cache, m) \in [Kinds -> History]
    BY HistoryFacts DEF TypeOK, Extended
  <2>3. ASSUME NEW k \in Kinds PROVE Clean(Extended(cache, m)[k], unsent')
    <3>1. cache[k] \in History /\ Clean(cache[k], unsent)
      BY DEF TypeOK, Singles
    <3> QED
      BY <1>0, <2>1, <3>1, CleanAppend DEF Extended
  <2> QED
    BY <2>1, <2>2, <2>3, SinglesSet
<1>2. CASE ClearConversation
  <2>1. Clean(<<>>, unsent)
    BY DEF Clean, IsInjective
  <2> QED
    BY <1>2, <2>1 DEF ClearConversation, Issue, Empty, Singles
<1>3. ASSUME NEW u \in Updates, ReadConversation(u) PROVE Singles'
  BY <1>3 DEF ReadConversation, TypeOK, Singles
<1>4. ASSUME NEW u \in Updates, snapshot[u] # NoSnapshot
      PROVE  /\ snapshot[u] \in [Kinds -> History]
             /\ \A k \in Kinds : Clean(snapshot[u][k], unsent)
             /\ \A c \in Compactions(snapshot[u]["compact"]) :
                  c \in History /\ Clean(c, unsent)
  <2>1. /\ snapshot[u] \in [Kinds -> History]
        /\ \A k \in Kinds : Clean(snapshot[u][k], unsent)
    BY <1>4 DEF TypeOK, Singles
  <2>2. snapshot[u]["compact"] \in History /\ Clean(snapshot[u]["compact"], unsent)
    BY <2>1 DEF Kinds
  <2> QED
    BY <1>0, <2>1, <2>2, CompactionFacts, CleanCompaction
<1>5. ASSUME NEW u \in Updates, FinishCompaction(u) PROVE Singles'
  <2>1. /\ snapshot[u] # NoSnapshot /\ unsent' = unsent
        /\ \A v \in Updates : snapshot'[v] \in {snapshot[v], NoSnapshot}
    BY <1>5 DEF FinishCompaction, TypeOK
  <2>2. CASE UNCHANGED <<cache, jobs, writes, alone, refused, written>>
    BY <2>1, <2>2 DEF Singles
  <2>3. ASSUME NEW c \in Compactions(snapshot[u]["compact"]),
               SetConversationState([snapshot[u] EXCEPT !["compact"] = c])
        PROVE  Singles'
    <3>1. /\ [snapshot[u] EXCEPT !["compact"] = c] \in [Kinds -> History]
          /\ \A k \in Kinds :
               Clean([snapshot[u] EXCEPT !["compact"] = c][k], unsent')
      BY <1>4, <2>1, <2>3 DEF Kinds
    <3> QED
      BY <2>1, <2>3, <3>1, SinglesSet
  <2> QED
    BY <1>5, <2>2, <2>3 DEF FinishCompaction
<1>6. ASSUME NEW u \in Updates, FinishTurn(u) PROVE Singles'
  <2>1. /\ snapshot[u] # NoSnapshot
        /\ \A v \in Updates : snapshot'[v] \in {snapshot[v], NoSnapshot}
    BY <1>6 DEF FinishTurn, TypeOK
  <2>2. PICK m \in unsent,
             c \in {snapshot[u]["compact"]} \cup Compactions(snapshot[u]["compact"]) :
          /\ unsent' = unsent \ {m}
          /\ SetConversationState(Extended([snapshot[u] EXCEPT !["compact"] = c], m))
    BY <1>6 DEF FinishTurn
  <2> DEFINE base == [snapshot[u] EXCEPT !["compact"] = c]
  <2>3. base \in [Kinds -> History] /\ \A k \in Kinds : Clean(base[k], unsent)
    BY <1>4, <2>1, <2>2 DEF Kinds
  <2> HIDE DEF base
  <2>4. Extended(base, m) \in [Kinds -> History]
    BY <1>0, <2>3, HistoryFacts DEF Extended
  <2>5. \A k \in Kinds : Clean(Extended(base, m)[k], unsent')
    BY <1>0, <2>2, <2>3, CleanAppend DEF Extended
  <2> QED
    BY <2>1, <2>2, <2>4, <2>5, SinglesSet DEF base
<1>7. ASSUME NEW j \in jobs,
             \/ DeleteLands(j) \/ DeleteFails(j) \/ InsertLands(j)
             \/ InsertConflicts(j) \/ InsertFails(j)
      PROVE  Singles'
  <2>1. UNCHANGED <<cache, snapshot, unsent, written>>
    BY <1>7 DEF DeleteLands, DeleteFails, InsertLands, InsertConflicts,
                InsertFails, quietInDatabase
  <2> QED
    BY <2>1 DEF Singles
<1>8. CASE Restart
  <2>1. \A k \in Kinds : Clean(table[k], unsent)
    BY DEF Given, Singles
  <2>2. \A k \in Kinds : Clean(Hydrated[k], unsent)
    BY <2>1 DEF Hydrated, TypeOK, Kinds
  <2> QED
    BY <1>8, <2>2 DEF Restart, Singles
<1>9. CASE UNCHANGED vars
  BY <1>9 DEF vars, Singles
<1> QED
  BY <1>1, <1>2, <1>3, <1>5, <1>6, <1>7, <1>8, <1>9 DEF Next

(* setConversationState() with snapshots that are stale or compacted, and  *)
(* boots from what is stored: no history, of the cache or of the table,    *)
(* holds a message twice.                                                  *)
THEOREM NeverMessageTwice == Spec => []NoMessageTwice
<1>1. Singles /\ Given => NoMessageTwice
  BY DEF Singles, Given, Clean, NoMessageTwice
<1> QED
  BY <1>1, TypeInitial, TypeStep, GivenInitial, GivenStep, SinglesInitial,
     SinglesStep, PTL DEF Spec
=============================================================================
