------------------------- MODULE SessionStart_proofs -------------------------
(* Proofs about SessionStart: no client message is lost, reordered or      *)
(* handled before the project is there, and no project is initialised over *)
(* another, for any number of tabs, processes and losses.                  *)
EXTENDS SessionStart, SequenceTheorems, TLAPS

-----------------------------------------------------------------------------
(* The parts of the invariant.                                             *)

TypeAgent ==
  /\ creation \in {"none", "requested", "session", "ok", "failed", "refused"}
  /\ proc \in Booting \cup {"absent", "up", "dead"}
  /\ state \in AgentStates /\ row \in AgentStates
  /\ build \in {"none", "auto", "client"}

TypeFlags == requestedQuery \in BOOLEAN /\ begun \in BOOLEAN

TypeInbox ==
  /\ pendingClientMessages \in Seq(Requests)
  /\ received \in Seq(Requests) /\ handled \in Seq(Requests)

TypePages ==
  /\ page \in [Tabs -> {"closed", "creating", "connecting", "joined", "failed"}]
  /\ newChat \in [Tabs -> BOOLEAN]
  /\ connected \in [Tabs -> {"none", "idle", "generating"}]
  /\ restored \in [Tabs -> BOOLEAN] /\ isGenerating \in [Tabs -> BOOLEAN]

TypeSends == toSend \in [Tabs -> [Requests -> 0..SendAttempts]]

\* A process that has not chosen its behavior may still seed a project.
Unselected == {"starting", "joining", "loading", "selecting"}

Counts ==
  /\ visits \in 0..MaxVisits /\ lost \in 0..MaxLost
  /\ boots \in 0..MaxBoots /\ seeds \in 0..boots
  /\ proc \in Unselected => seeds < boots

\* The agent of a booting process has been given nothing, one that is up all.
InOrder ==
  /\ proc \in Booting \cup {"up"} => handled \o pendingClientMessages = received
  /\ proc \in Booting => handled = <<>>
  /\ proc = "up" => pendingClientMessages = <<>>

\* What a process knows of its session, from the rows written before it.
Known ==
  /\ proc # "absent" => creation \in {"session", "ok", "failed"}
  /\ proc \in {"joining", "loading", "selecting", "initializing", "up"} => requestedQuery
  /\ proc \in {"initializing", "up"} => state.query
  /\ proc = "selecting" => state = row
  /\ handled # <<>> => state.query
  /\ build # "none" => proc = "up"

IInv ==
  /\ TypeAgent /\ TypeFlags /\ TypeInbox /\ TypePages /\ TypeSends
  /\ Counts /\ InOrder /\ Known

LEMMA InvariantInitially == Init => IInv
<1> SUFFICES ASSUME Init PROVE IInv
  OBVIOUS
<1>1. TypeAgent
  BY DEF Init, TypeAgent, AgentStates, Unseeded
<1>2. TypeFlags
  BY Zenon DEF Init, TypeFlags
<1>3. TypeInbox
  BY DEF Init, TypeInbox
<1>4. TypePages
  BY DEF Init, TypePages
<1>5. TypeSends
  BY SendAssumption DEF Init, TypeSends
<1>6. Counts
  BY BoundsAssumption DEF Init, Counts, Unselected
<1>7. InOrder
  BY DEF Init, InOrder, Booting
<1>8. Known
  BY DEF Init, Known
<1> QED
  BY <1>1, <1>2, <1>3, <1>4, <1>5, <1>6, <1>7, <1>8 DEF IInv

-----------------------------------------------------------------------------
(* The helpers of the actions.                                             *)

\* Handling `generate_all` changes neither the type of a state nor its query.
LEMMA GenerateFacts ==
  ASSUME NEW s \in AgentStates, NEW b \in {"none", "auto", "client"}
  PROVE  /\ GenerateState(s, b) \in AgentStates
         /\ GenerateState(s, b).query = s.query
         /\ GenerateBuild(s, b) \in {"none", "auto", "client"}
<1>1. GenerateBuild(s, b) \in {"none", "auto", "client"}
  BY DEF GenerateBuild
<1>2. (b # "none" \/ ~s.complete) \in BOOLEAN
  OBVIOUS
<1>3. GenerateState(s, b) \in AgentStates /\ GenerateState(s, b).query = s.query
  BY <1>2 DEF GenerateState, AgentStates
<1> QED
  BY <1>1, <1>3

\* A broadcast of a tab leaves the agent's part of the invariant true.
LEMMA BroadcastKeeps ==
  ASSUME IInv, NEW m \in Requests, Broadcast(m),
         UNCHANGED <<creation, proc, requestedQuery, row>>
  PROVE  /\ TypeAgent' /\ TypeFlags' /\ TypeInbox' /\ InOrder' /\ Known'
<1> USE DEF IInv
<1>1. CASE Dispatched(m)
  <2>1. state' \in AgentStates /\ state'.query = state.query
        /\ build' \in {"none", "auto", "client"}
    BY <1>1, GenerateFacts DEF Dispatched, TypeAgent
  <2>2. TypeAgent'
    BY <2>1 DEF TypeAgent
  <2>3. TypeFlags'
    BY <1>1, Zenon DEF Dispatched, TypeFlags
  <2>4. TypeInbox'
    BY <1>1 DEF Dispatched, TypeInbox
  <2>5. InOrder'
    <3>1. pendingClientMessages = <<>> /\ handled \o <<>> = received
      BY <1>1 DEF Dispatched, InOrder
    <3>2. handled' = received' /\ handled' \in Seq(Requests)
      BY <1>1, <3>1, ConcatEmptySeq DEF Dispatched, TypeInbox
    <3>3. handled' \o pendingClientMessages' = received'
      BY <1>1, <3>1, <3>2, ConcatEmptySeq DEF Dispatched
    <3> QED
      BY <1>1, <3>1, <3>3 DEF Dispatched, InOrder, Booting
  <2>6. Known'
    BY <1>1, <2>1 DEF Dispatched, Known
  <2> QED
    BY <2>2, <2>3, <2>4, <2>5, <2>6
<1>2. CASE Buffered(m)
  <2>1. TypeAgent'
    BY <1>2 DEF Buffered, TypeAgent
  <2>2. TypeFlags'
    BY <1>2, Zenon DEF Buffered, TypeFlags
  <2>3. TypeInbox'
    BY <1>2 DEF Buffered, TypeInbox
  <2>4. InOrder'
    <3>1. handled \o Append(pendingClientMessages, m)
            = Append(handled \o pendingClientMessages, m)
      BY DEF TypeInbox
    <3> QED
      BY <1>2, <3>1 DEF Buffered, InOrder, Joined, Booting
  <2>5. Known'
    BY <1>2 DEF Buffered, Known
  <2> QED
    BY <2>1, <2>2, <2>3, <2>4, <2>5
<1>3. CASE Missed
  BY <1>3 DEF Missed, TypeAgent, TypeFlags, TypeInbox, InOrder, Known, inbox
<1> QED
  BY <1>1, <1>2, <1>3 DEF Broadcast

\* The end of a boot does too, when the agent it ends with is seeded.
LEMMA BootEndsKeeps ==
  ASSUME IInv, NEW s \in AgentStates, NEW b \in {"none", "auto", "client"},
         s.query, proc \in {"selecting", "initializing"}, BootEnds(s, b)
  PROVE  IInv'
<1> USE DEF IInv
<1>1. /\ state' \in AgentStates /\ state'.query
      /\ build' \in {"none", "auto", "client"}
  BY GenerateFacts DEF BootEnds
<1>2. TypeAgent'
  BY <1>1 DEF BootEnds, TypeAgent
<1>3. TypeFlags'
  BY Zenon DEF BootEnds, TypeFlags
<1>4. TypeInbox'
  BY DEF BootEnds, TypeInbox
<1>5. TypePages'
  <2>1. connected' \in [Tabs -> {"none", "idle", "generating"}]
    BY DEF BootEnds, TypePages
  <2>2. UNCHANGED <<page, newChat, restored, isGenerating>>
    BY DEF BootEnds
  <2> QED
    BY <2>1, <2>2, Zenon DEF TypePages
<1>6. TypeSends'
  BY DEF BootEnds, TypeSends
<1>7. Counts'
  BY BoundsAssumption DEF BootEnds, Counts, Unselected
<1>8. InOrder'
  <2>1. handled = <<>> /\ pendingClientMessages = received
    <3>1. handled = <<>> /\ handled \o pendingClientMessages = received
      BY DEF InOrder, Booting
    <3> QED
      BY <3>1, ConcatEmptySeq DEF TypeInbox
  <2>2. handled' = received /\ pendingClientMessages' = <<>> /\ received' = received
    BY <2>1 DEF BootEnds, TypeInbox
  <2>3. handled' \o pendingClientMessages' = received'
    BY <2>2, ConcatEmptySeq DEF TypeInbox
  <2>4. proc' = "up"
    BY DEF BootEnds
  <2> QED
    BY <2>2, <2>3, <2>4 DEF InOrder, Booting
<1>9. Known'
  <2>1. requestedQuery
    BY DEF Known
  <2> QED
    BY <1>1, <2>1 DEF BootEnds, Known
<1> QED
  BY <1>2, <1>3, <1>4, <1>5, <1>6, <1>7, <1>8, <1>9

\* A new process knows nothing yet, and may seed the project.
LEMMA StartKeeps ==
  ASSUME IInv, StartProcess, boots < MaxBoots, creation \in {"session", "ok", "failed"},
         UNCHANGED <<creation, row, tab, visits, lost, seeds>>
  PROVE  IInv'
<1> USE DEF IInv
<1>1. TypeAgent'
  BY DEF StartProcess, TypeAgent, Booting, AgentStates, Unseeded
<1>2. TypeFlags'
  BY Zenon DEF StartProcess, TypeFlags
<1>3. TypeInbox'
  BY DEF StartProcess, TypeInbox
<1>4. TypePages' /\ TypeSends'
  BY Zenon DEF TypePages, TypeSends, tab
<1>5. Counts'
  BY BoundsAssumption DEF StartProcess, Counts, Unselected
<1>6. InOrder'
  BY DEF StartProcess, InOrder, Booting
<1>7. Known'
  BY DEF StartProcess, Known
<1> QED
  BY <1>1, <1>2, <1>3, <1>4, <1>5, <1>6, <1>7

-----------------------------------------------------------------------------
(* The steps of the API and of the process.                                *)

\* A step that leaves the tabs alone and the counts as they are is right when
\* it is right for the agent and its inbox.
LEMMA AgentSteps ==
  ASSUME IInv,
         \/ CreateSession \/ BootAgentSandbox \/ Process \/ Dies \/ Shutdown \/ Restart
         \/ Persist \/ GenerationEnds
  PROVE  IInv'
<1> USE DEF IInv
<1>1. CASE CreateSession
  <2>1. TypeAgent' /\ TypeInbox' /\ Counts' /\ InOrder' /\ Known'
    BY <1>1 DEF CreateSession, TypeAgent, TypeInbox, Counts, InOrder, Known, agent, inbox
  <2> QED
    BY <1>1, <2>1, Zenon DEF CreateSession, TypeFlags, TypePages, TypeSends, agent, tab
<1>2. CASE BootAgentSandbox
  BY <1>2, StartKeeps DEF BootAgentSandbox
<1>3. CASE LoadInitArgs
  <2>1. creation \in {"session", "ok", "failed"}
    BY <1>3 DEF LoadInitArgs, Known
  <2>2. requestedQuery' = TRUE
    BY <1>3, <2>1 DEF LoadInitArgs
  <2>3. TypeAgent' /\ TypeInbox' /\ Counts' /\ InOrder' /\ Known'
    BY <1>3, <2>1, <2>2 DEF LoadInitArgs, TypeAgent, TypeInbox, Counts, InOrder, Known,
       inbox, Booting, Unselected
  <2>4. TypeFlags'
    BY <1>3, <2>2, Zenon DEF LoadInitArgs, TypeFlags
  <2> QED
    BY <1>3, <2>3, <2>4, Zenon DEF LoadInitArgs, TypePages, TypeSends, tab
<1>4. CASE TransportReady
  <2>1. TypeAgent' /\ TypeInbox' /\ Counts' /\ InOrder' /\ Known'
    BY <1>4 DEF TransportReady, TypeAgent, TypeInbox, Counts, InOrder, Known,
       inbox, Booting, Unselected
  <2> QED
    BY <1>4, <2>1, Zenon DEF TransportReady, TypeFlags, TypePages, TypeSends, tab
<1>5. CASE LoadState
  <2>1. TypeAgent' /\ TypeInbox' /\ Counts' /\ InOrder' /\ Known'
    BY <1>5 DEF LoadState, TypeAgent, TypeInbox, Counts, InOrder, Known,
       inbox, Booting, Unselected
  <2> QED
    BY <1>5, <2>1, Zenon DEF LoadState, TypeFlags, TypePages, TypeSends, tab
<1>6. CASE InitializeProject
  <2>1. state' \in AgentStates /\ state'.query
    BY <1>6 DEF InitializeProject, TypeAgent, AgentStates
  <2>2. TypeAgent' /\ TypeInbox' /\ InOrder' /\ Known'
    BY <1>6, <2>1 DEF InitializeProject, TypeAgent, TypeInbox, InOrder, Known, inbox, Booting
  <2>3. Counts'
    BY <1>6, BoundsAssumption DEF InitializeProject, Counts, Unselected
  <2> QED
    BY <1>6, <2>2, <2>3, Zenon DEF InitializeProject, TypeFlags, TypePages, TypeSends, tab
<1>7. CASE BootFresh
  <2>1. /\ [state EXCEPT !.shouldBeGenerating = TRUE] \in AgentStates
        /\ [state EXCEPT !.shouldBeGenerating = TRUE].query
    BY <1>7 DEF BootFresh, Known, TypeAgent, AgentStates
  <2> QED
    BY <1>7, <2>1, BootEndsKeeps DEF BootFresh
<1>8. CASE BootResumed
  <2>1. state.query /\ state \in AgentStates
    BY <1>8 DEF BootResumed, Known, TypeAgent
  <2> QED
    BY <1>8, <2>1, BootEndsKeeps DEF BootResumed
<1>9. CASE Dies
  <2>1. TypeAgent' /\ TypeInbox' /\ InOrder' /\ Known'
    BY <1>9 DEF Dies, TypeAgent, TypeInbox, InOrder, Known, Booting
  <2>2. Counts'
    BY <1>9 DEF Dies, Counts, Unselected
  <2> QED
    BY <1>9, <2>1, <2>2, Zenon DEF Dies, TypeFlags, TypePages, TypeSends, tab
<1>10. CASE Shutdown
  <2>1. TypeAgent' /\ TypeInbox' /\ InOrder' /\ Known'
    BY <1>10 DEF Shutdown, TypeAgent, TypeInbox, InOrder, Known, Booting, inbox
  <2>2. Counts'
    BY <1>10 DEF Shutdown, Counts, Unselected
  <2> QED
    BY <1>10, <2>1, <2>2, Zenon DEF Shutdown, TypeFlags, TypePages, TypeSends, tab
<1>11. CASE Restart
  <2>1. creation \in {"session", "ok", "failed"}
    BY <1>11 DEF Restart, Known
  <2> QED
    BY <1>11, <2>1, StartKeeps DEF Restart
<1>12. CASE Persist
  <2>1. TypeAgent' /\ TypeInbox' /\ InOrder' /\ Known' /\ Counts'
    BY <1>12 DEF Persist, Persists, TypeAgent, TypeInbox, InOrder, Known, Counts, inbox
  <2> QED
    BY <1>12, <2>1, Zenon DEF Persist, TypeFlags, TypePages, TypeSends, tab
<1>13. CASE GenerationEnds
  <2>1. state' \in AgentStates /\ state'.query = state.query
    BY <1>13 DEF GenerationEnds, TypeAgent, AgentStates
  <2>2. proc = "up"
    BY <1>13 DEF GenerationEnds, Known
  <2>3. TypeAgent' /\ TypeInbox' /\ InOrder' /\ Known' /\ Counts'
    BY <1>13, <2>1, <2>2 DEF GenerationEnds, TypeAgent, TypeInbox, InOrder, Known, Counts, inbox
  <2> QED
    BY <1>13, <2>3, Zenon DEF GenerationEnds, TypeFlags, TypePages, TypeSends, tab
<1> QED
  BY <1>1, <1>2, <1>3, <1>4, <1>5, <1>6, <1>7, <1>8, <1>9, <1>10, <1>11, <1>12, <1>13
     DEF Process

\* The answer to the tab that creates the session.
LEMMA AnswerKeeps ==
  ASSUME IInv, NEW ok \in BOOLEAN, AnswerCreation(ok)
  PROVE  IInv'
<1> USE DEF IInv
<1>1. /\ creation' \in {"ok", "failed", "refused"}
      /\ proc # "absent" => creation' \in {"ok", "failed"}
  BY DEF AnswerCreation, Known
<1>2. TypeAgent' /\ TypeInbox' /\ Counts' /\ InOrder' /\ Known'
  BY <1>1 DEF AnswerCreation, TypeAgent, TypeInbox, Counts, InOrder, Known, agent, inbox
<1>3. page' \in [Tabs -> {"closed", "creating", "connecting", "joined", "failed"}]
  BY DEF AnswerCreation, TypePages
<1> QED
  BY <1>2, <1>3, Zenon DEF AnswerCreation, TypeFlags, TypePages, TypeSends, agent

-----------------------------------------------------------------------------
(* The steps of the tabs.                                                  *)

\* Steps of a tab that send nothing.
LEMMA QuietTabSteps ==
  ASSUME IInv, NEW t \in Tabs,
         OpenNew(t) \/ OpenExisting(t) \/ Leave(t) \/ Subscribed(t) \/ ChannelFails(t)
  PROVE  IInv'
<1> USE DEF IInv
<1>1. CASE OpenNew(t)
  <2>1. proc = "absent"
    BY <1>1 DEF OpenNew, Known
  <2>2. TypeAgent' /\ TypeInbox' /\ InOrder' /\ Known'
    BY <1>1, <2>1 DEF OpenNew, TypeAgent, TypeInbox, InOrder, Known, agent, inbox
  <2>3. Counts'
    BY <1>1, BoundsAssumption DEF OpenNew, Counts, agent
  <2>4. TypePages'
    <3>1. /\ page' \in [Tabs -> {"closed", "creating", "connecting", "joined", "failed"}]
          /\ newChat' \in [Tabs -> BOOLEAN]
      BY <1>1 DEF OpenNew, TypePages
    <3> QED
      BY <1>1, <3>1, Zenon DEF OpenNew, TypePages
  <2> QED
    BY <1>1, <2>2, <2>3, <2>4, Zenon DEF OpenNew, TypeFlags, TypeSends, agent
<1>2. CASE OpenExisting(t)
  <2>1. TypeAgent' /\ TypeInbox' /\ InOrder' /\ Known'
    BY <1>2 DEF OpenExisting, TypeAgent, TypeInbox, InOrder, Known, agent, inbox
  <2>2. Counts'
    BY <1>2, BoundsAssumption DEF OpenExisting, Counts, agent
  <2>3. TypePages'
    <3>1. /\ page' \in [Tabs -> {"closed", "creating", "connecting", "joined", "failed"}]
          /\ newChat' \in [Tabs -> BOOLEAN]
      BY <1>2 DEF OpenExisting, TypePages
    <3> QED
      BY <1>2, <3>1, Zenon DEF OpenExisting, TypePages
  <2> QED
    BY <1>2, <2>1, <2>2, <2>3, Zenon DEF OpenExisting, TypeFlags, TypeSends, agent
<1>3. CASE Leave(t)
  <2>1. TypeAgent' /\ TypeInbox' /\ InOrder' /\ Known' /\ Counts'
    BY <1>3 DEF Leave, TypeAgent, TypeInbox, InOrder, Known, Counts, agent, inbox
  <2>2. TypePages'
    <3>1. /\ page' \in [Tabs -> {"closed", "creating", "connecting", "joined", "failed"}]
          /\ connected' \in [Tabs -> {"none", "idle", "generating"}]
          /\ restored' \in [Tabs -> BOOLEAN] /\ isGenerating' \in [Tabs -> BOOLEAN]
      BY <1>3 DEF Leave, TypePages
    <3> QED
      BY <1>3, <3>1, Zenon DEF Leave, TypePages
  <2>3. TypeSends'
    BY <1>3, SendAssumption DEF Leave, TypeSends
  <2> QED
    BY <1>3, <2>1, <2>2, <2>3, Zenon DEF Leave, TypeFlags, agent
<1>4. CASE Subscribed(t)
  <2>1. TypeAgent' /\ TypeInbox' /\ InOrder' /\ Known' /\ Counts'
    BY <1>4 DEF Subscribed, TypeAgent, TypeInbox, InOrder, Known, Counts, agent, inbox
  <2>2. TypePages'
    <3>1. /\ page' \in [Tabs -> {"closed", "creating", "connecting", "joined", "failed"}]
          /\ isGenerating' \in [Tabs -> BOOLEAN]
      BY <1>4 DEF Subscribed, TypePages
    <3> QED
      BY <1>4, <3>1, Zenon DEF Subscribed, TypePages
  <2>3. TypeSends'
    BY <1>4, SendAssumption DEF Subscribed, TypeSends
  <2> QED
    BY <1>4, <2>1, <2>2, <2>3, Zenon DEF Subscribed, TypeFlags, agent
<1>5. CASE ChannelFails(t)
  <2>1. TypeAgent' /\ TypeInbox' /\ InOrder' /\ Known' /\ Counts'
    BY <1>5 DEF ChannelFails, TypeAgent, TypeInbox, InOrder, Known, Counts, agent, inbox
  <2>2. TypePages'
    <3>1. /\ page' \in [Tabs -> {"closed", "creating", "connecting", "joined", "failed"}]
          /\ connected' \in [Tabs -> {"none", "idle", "generating"}]
      BY <1>5 DEF ChannelFails, TypePages
    <3> QED
      BY <1>5, <3>1, Zenon DEF ChannelFails, TypePages
  <2>3. TypeSends'
    BY <1>5, SendAssumption DEF ChannelFails, TypeSends
  <2> QED
    BY <1>5, <2>1, <2>2, <2>3, Zenon DEF ChannelFails, TypeFlags, agent
<1> QED
  BY <1>1, <1>2, <1>3, <1>4, <1>5

\* What a tab may do to the agent, with or without a broadcast that arrives.
LEMMA SendKeepsAgent ==
  ASSUME IInv, NEW m \in Requests,
         Broadcast(m) \/ UNCHANGED <<inbox, state, build, begun>>,
         UNCHANGED <<creation, proc, requestedQuery, row>>
  PROVE  TypeAgent' /\ TypeFlags' /\ TypeInbox' /\ InOrder' /\ Known'
<1>1. CASE Broadcast(m)
  BY <1>1, BroadcastKeeps
<1>2. CASE UNCHANGED <<inbox, state, build, begun>>
  <2>1. TypeAgent' /\ TypeInbox' /\ InOrder' /\ Known'
    BY <1>2 DEF IInv, TypeAgent, TypeInbox, InOrder, Known, inbox
  <2> QED
    BY <1>2, <2>1, Zenon DEF IInv, TypeFlags
<1> QED
  BY <1>1, <1>2

LEMMA SendSteps ==
  ASSUME IInv, NEW t \in Tabs, NEW m \in Requests,
         SendAcknowledged(t, m) \/ SendUnacknowledged(t, m)
  PROVE  IInv'
<1> USE DEF IInv
<1>1. CASE SendAcknowledged(t, m)
  <2>1. TypeAgent' /\ TypeFlags' /\ TypeInbox' /\ InOrder' /\ Known'
    BY <1>1, SendKeepsAgent DEF SendAcknowledged
  <2>2. TypeSends'
    BY <1>1, SendAssumption DEF SendAcknowledged, TypeSends
  <2>3. Counts'
    BY <1>1 DEF SendAcknowledged, Counts
  <2> QED
    BY <1>1, <2>1, <2>2, <2>3, Zenon DEF SendAcknowledged, TypePages
<1>2. CASE SendUnacknowledged(t, m)
  <2>1. TypeAgent' /\ TypeFlags' /\ TypeInbox' /\ InOrder' /\ Known'
    BY <1>2, SendKeepsAgent DEF SendUnacknowledged
  <2>2. TypeSends'
    BY <1>2, SendAssumption DEF SendUnacknowledged, TypeSends
  <2>3. Counts'
    BY <1>2, BoundsAssumption DEF SendUnacknowledged, Counts
  <2> QED
    BY <1>2, <2>1, <2>2, <2>3, Zenon DEF SendUnacknowledged, TypePages
<1> QED
  BY <1>1, <1>2

LEMMA RestoreSteps ==
  ASSUME IInv, NEW t \in Tabs, AgentConnected(t)
  PROVE  IInv'
<1> USE DEF IInv
<1>1. /\ Broadcast("generate_all") \/ UNCHANGED <<inbox, state, build, begun>>
      /\ UNCHANGED <<creation, proc, requestedQuery, row>>
  BY DEF AgentConnected
<1>2. TypeAgent' /\ TypeFlags' /\ TypeInbox' /\ InOrder' /\ Known'
  BY <1>1, SendKeepsAgent DEF Requests
<1>3. TypePages'
  <2>1. /\ connected' \in [Tabs -> {"none", "idle", "generating"}]
        /\ restored' \in [Tabs -> BOOLEAN] /\ isGenerating' \in [Tabs -> BOOLEAN]
    BY DEF AgentConnected, TypePages
  <2> QED
    BY <2>1, Zenon DEF AgentConnected, TypePages
<1>4. Counts'
  BY BoundsAssumption DEF AgentConnected, Counts
<1> QED
  BY <1>2, <1>3, <1>4, Zenon DEF AgentConnected, TypeSends

-----------------------------------------------------------------------------
LEMMA InvariantStep == IInv /\ [Next]_vars => IInv'
<1> SUFFICES ASSUME IInv, [Next]_vars PROVE IInv'
  OBVIOUS
<1>1. CASE \/ CreateSession \/ BootAgentSandbox \/ Process \/ Dies \/ Shutdown
           \/ Restart \/ Persist \/ GenerationEnds
  BY <1>1, AgentSteps
<1>2. CASE \E ok \in BOOLEAN : AnswerCreation(ok)
  BY <1>2, AnswerKeeps
<1>3. CASE \E t \in Tabs : Tab(t)
  BY <1>3, QuietTabSteps, SendSteps, RestoreSteps DEF Tab
<1>4. CASE UNCHANGED vars
  <2> USE <1>4 DEF IInv, vars, agent, inbox, tab
  <2>1. TypeAgent' /\ TypeInbox' /\ InOrder' /\ Known' /\ Counts'
    BY DEF TypeAgent, TypeInbox, InOrder, Known, Counts
  <2> QED
    BY <2>1, Zenon DEF TypeFlags, TypePages, TypeSends
<1> QED
  BY <1>1, <1>2, <1>3, <1>4 DEF Next

LEMMA Invariant == Spec => []IInv
  BY InvariantInitially, InvariantStep, PTL DEF Spec

\* Every variable keeps its type, and the counters stay within their bounds.
THEOREM TypeCorrect == Spec => []TypeOK
<1>1. IInv => TypeOK
  <2> SUFFICES ASSUME IInv PROVE TypeOK
    OBVIOUS
  <2>1. seeds \in 0..MaxBoots
    BY BoundsAssumption DEF IInv, Counts
  <2> QED
    BY <2>1, Zenon DEF IInv, TypeOK, TypeAgent, TypeFlags, TypeInbox, TypePages,
       TypeSends, Counts
<1> QED
  BY <1>1, Invariant, PTL

\* The agent of a process is given the messages its channel delivered, in
\* order and without loss, and none before the project is there.
THEOREM CommandsAlwaysWait == Spec => []CommandsWaitForAgent
<1>1. IInv => CommandsWaitForAgent
  BY DEF IInv, InOrder, Known, CommandsWaitForAgent
<1> QED
  BY <1>1, Invariant, PTL

\* No process initialises a project over one whose query is stored.
THEOREM InitialisedOnlyOnce == Spec => ProjectInitialisedOnce
<1>1. ASSUME IInv, [Next]_vars, row.query
      PROVE  seeds' = seeds
  <2>1. CASE InitializeProject
    BY <1>1, <2>1 DEF InitializeProject, IInv, Known
  <2>2. CASE Next /\ ~InitializeProject
    <3>1. CASE \E t \in Tabs : Tab(t)
      BY <3>1 DEF Tab, OpenNew, OpenExisting, Leave, Subscribed, ChannelFails,
                  SendAcknowledged, SendUnacknowledged, AgentConnected
    <3>2. CASE Process
      BY <3>2, <2>2 DEF Process, LoadInitArgs, TransportReady, LoadState, BootFresh,
                        BootResumed, BootEnds
    <3>3. CASE ~Process /\ ~(\E t \in Tabs : Tab(t))
      BY <3>3, <2>2 DEF Next, CreateSession, BootAgentSandbox, AnswerCreation, Dies,
                        Shutdown, Restart, Persist, GenerationEnds
    <3> QED
      BY <3>1, <3>2, <3>3
  <2>3. CASE UNCHANGED vars
    BY <2>3 DEF vars
  <2> QED
    BY <1>1, <2>1, <2>2, <2>3
<1>2. IInv /\ [Next]_vars => [row.query => seeds' = seeds]_vars
  BY <1>1
<1> QED
  BY <1>2, Invariant, PTL DEF Spec, ProjectInitialisedOnce
-----------------------------------------------------------------------------
(* What is stored of a session stays stored.                               *)

\* No row says of the project that it has a query, or that it is complete, and
\* is then replaced by one that does not: not by the blank state a process
\* starts with, by one that lost its tabs, or by one that died half-way
\* (boot() loads the state before anything calls setState()).
StoredIsKept ==
  [][(row.query => row'.query) /\ (row.complete => row'.complete)]_row

\* A process that may write the row has taken over what the row says.
Kept ==
  proc \in Persists => (row.complete => state.complete)

\* Handling a message does not undo a project's completion.
LEMMA BroadcastCompletes ==
  ASSUME IInv, NEW m \in Requests,
         Broadcast(m) \/ UNCHANGED <<inbox, state, build, begun>>
  PROVE  state'.complete = state.complete
<1>1. GenerateState(state, build).complete = state.complete
  BY DEF GenerateState, AgentStates, IInv, TypeAgent
<1> QED
  BY <1>1 DEF Broadcast, Dispatched, Buffered, Missed

\* Neither does the end of the boot.
LEMMA BootCompletes ==
  ASSUME NEW s \in AgentStates, NEW b \in {"none", "auto", "client"}, BootEnds(s, b)
  PROVE  state'.complete = s.complete /\ row' = row
<1>1. GenerateState(s, b).complete = s.complete
  BY DEF GenerateState, AgentStates
<1> QED
  BY <1>1 DEF BootEnds

LEMMA KeptStep ==
  ASSUME IInv, Kept, [Next]_vars
  PROVE  Kept' /\ (row' # row => row' = state /\ proc \in Persists)
<1> USE DEF Kept, Persists
<1>t. state \in AgentStates
  BY DEF IInv, TypeAgent
<1>1. CASE \/ CreateSession \/ LoadInitArgs \/ TransportReady \/ LoadState \/ Dies
           \/ Shutdown \/ Persist \/ \E ok \in BOOLEAN : AnswerCreation(ok)
  BY <1>1 DEF CreateSession, LoadInitArgs, TransportReady, LoadState, Dies, Shutdown,
              Persist, AnswerCreation, agent
<1>2. CASE BootAgentSandbox \/ Restart
  BY <1>2 DEF BootAgentSandbox, Restart, StartProcess
<1>3. CASE InitializeProject
  <2>1. state = row /\ state'.complete = state.complete /\ row' = row
    BY <1>3, <1>t DEF InitializeProject, IInv, Known, AgentStates
  <2> QED
    BY <2>1
<1>4. CASE BootFresh
  <2> DEFINE s == [state EXCEPT !.shouldBeGenerating = TRUE]
  <2>1. s \in AgentStates /\ s.complete = state.complete
    BY <1>t DEF AgentStates
  <2>2. state'.complete = s.complete /\ row' = row
    BY <1>4, <2>1, BootCompletes DEF BootFresh
  <2> QED
    BY <1>4, <2>1, <2>2 DEF BootFresh
<1>5. CASE BootResumed
  <2>1. state = row /\ BootEnds(state, "none")
    BY <1>5 DEF BootResumed, IInv, Known
  <2> QED
    BY <1>t, <2>1, BootCompletes
<1>6. CASE GenerationEnds
  <2>1. PICK completed \in BOOLEAN :
          state' = [state EXCEPT !.complete = state.complete \/ completed,
                                 !.shouldBeGenerating = build = "auto" /\ @]
    BY <1>6 DEF GenerationEnds
  <2>2. state'.complete = (state.complete \/ completed)
    BY <1>t, <2>1 DEF AgentStates
  <2> QED
    BY <1>6, <2>2 DEF GenerationEnds
<1>7. ASSUME NEW t \in Tabs, Tab(t)
      PROVE  Kept' /\ row' = row
  <2>1. UNCHANGED <<proc, row>>
    BY <1>7 DEF Tab, OpenNew, OpenExisting, Leave, Subscribed, ChannelFails,
                SendAcknowledged, SendUnacknowledged, AgentConnected, agent
  <2>2. CASE OpenNew(t) \/ OpenExisting(t) \/ Leave(t) \/ Subscribed(t) \/ ChannelFails(t)
    BY <2>2 DEF OpenNew, OpenExisting, Leave, Subscribed, ChannelFails, agent
  <2>3. CASE \E m \in Requests : SendAcknowledged(t, m) \/ SendUnacknowledged(t, m)
    <3>1. PICK m \in Requests :
            Broadcast(m) \/ UNCHANGED <<inbox, state, build, begun>>
      BY <2>3 DEF SendAcknowledged, SendUnacknowledged
    <3> QED
      BY <2>1, <3>1, BroadcastCompletes
  <2>4. CASE AgentConnected(t)
    <3>1. Broadcast("generate_all") \/ UNCHANGED <<inbox, state, build, begun>>
      BY <2>4 DEF AgentConnected
    <3> QED
      BY <2>1, <3>1, BroadcastCompletes DEF Requests
  <2> QED
    BY <1>7, <2>1, <2>2, <2>3, <2>4 DEF Tab
<1>8. CASE UNCHANGED vars
  BY <1>8 DEF vars, agent
<1> QED
  BY <1>1, <1>2, <1>3, <1>4, <1>5, <1>6, <1>7, <1>8 DEF Next, Process

\* Whatever process writes the row of a session, its project is not forgotten.
THEOREM StoredAlwaysKept == Spec => StoredIsKept
<1>1. Init => Kept
  BY DEF Init, Kept, Persists
<1>2. ASSUME IInv, Kept, [Next]_vars
      PROVE  [(row.query => row'.query) /\ (row.complete => row'.complete)]_row
  <2>1. CASE row' = row
    BY <2>1
  <2>2. CASE row' = state /\ proc \in Persists
    <3>1. state.query
      BY <1>2, <2>2 DEF IInv, Known, Persists
    <3> QED
      BY <1>2, <2>2, <3>1 DEF Kept
  <2> QED
    BY <1>2, <2>1, <2>2, KeptStep
<1> QED
  BY <1>1, <1>2, KeptStep, Invariant, PTL DEF Spec, StoredIsKept

\* Nothing is generated without a project: a generation runs only in a process
\* whose boot is over and whose agent has a query, so that what a tab asks for
\* at any moment never meets an agent half made (main.ts assigns `agent` after
\* boot() has resolved).
GenerationHasProject == build # "none" => proc = "up" /\ state.query

\* No boot, death or message of a tab leaves a generation without its project.
THEOREM GenerationsHaveProject == Spec => []GenerationHasProject
<1>1. IInv => GenerationHasProject
  BY DEF IInv, Known, GenerationHasProject
<1> QED
  BY <1>1, Invariant, PTL
=============================================================================
