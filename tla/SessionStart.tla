----------------------------- MODULE SessionStart -----------------------------
(***************************************************************************)
(* How a session starts and how browsers join it: the request that creates *)
(* it and boots its sandbox, main() of the runtime with its buffer of      *)
(* early client messages, the boot of StandaloneAgent, the automatic start *)
(* of the first generation, and the tabs of the chat page, which join the  *)
(* session's Realtime channel, refresh, and send their first commands.     *)
(*                                                                         *)
(* Realtime is external: a broadcast reaches whoever has joined, or is     *)
(* lost; a send may fail to be acknowledged whether it was delivered or    *)
(* not. Nothing in the code restarts a process that ended: Restart is the  *)
(* sandbox being started again from outside.                               *)
(***************************************************************************)
EXTENDS Integers, Sequences

CONSTANTS
  Tabs,           \* tabs of browsers
  SendAttempts,   \* attempts of reliableSend()
  MaxVisits,      \* bound on the pages loaded
  MaxLost,        \* bound on the lost broadcasts and acknowledgements
  MaxBoots        \* bound on the processes of the session

ASSUME SendAssumption == SendAttempts \in Nat \ {0}
ASSUME BoundsAssumption == MaxVisits \in Nat /\ MaxLost \in Nat /\ MaxBoots \in Nat

Requests == {"get_conversation_state", "generate_all"}

VARIABLES
  creation,    \* startCodeGeneration(), or its outcome
  proc,        \* what main() awaits, if there is a process
  requestedQuery, \* the process found a query in init_args
  state,       \* [query, shouldBeGenerating, complete] of the agent
  row,         \* the same of the agent_state row
  build,       \* who called the generateAllFiles() that runs
  pendingClientMessages,
  page,        \* where each tab is
  newChat,     \* the tab created the session (no disableGenerate)
  toSend,      \* attempts left to each reliableSend() of a tab
  connected,   \* the agent_connected on its way to a tab
  restored,    \* isInitialStateRestored of a tab
  isGenerating,\* of a tab
  visits, lost, boots,
  \* history
  received,    \* messages the process's channel has delivered
  handled,     \* messages its agent has been given
  seeds,       \* projects initialised
  begun        \* the process has started a generation

agent == <<proc, requestedQuery, state, row, build>>
inbox == <<pendingClientMessages, received, handled>>
tab == <<page, newChat, toSend, connected, restored, isGenerating>>
vars == <<creation, agent, inbox, tab, visits, lost, boots, seeds, begun>>

AgentStates == [query : BOOLEAN, shouldBeGenerating : BOOLEAN, complete : BOOLEAN]
Unseeded == [query |-> FALSE, shouldBeGenerating |-> FALSE, complete |-> FALSE]

\* The process has joined the channel; its agent has been seeded.
Joined == {"loading", "selecting", "initializing", "up"}
Booting == {"starting", "joining", "loading", "selecting", "initializing"}
Persists == {"initializing", "up"}

Init ==
  /\ creation = "none"
  /\ proc = "absent" /\ requestedQuery = FALSE /\ build = "none"
  /\ state = Unseeded /\ row = Unseeded
  /\ pendingClientMessages = <<>> /\ received = <<>> /\ handled = <<>>
  /\ page = [t \in Tabs |-> "closed"] /\ newChat = [t \in Tabs |-> FALSE]
  /\ toSend = [t \in Tabs |-> [m \in Requests |-> 0]]
  /\ connected = [t \in Tabs |-> "none"]
  /\ restored = [t \in Tabs |-> FALSE] /\ isGenerating = [t \in Tabs |-> FALSE]
  /\ visits = 0 /\ lost = 0 /\ boots = 0 /\ seeds = 0 /\ begun = FALSE

-----------------------------------------------------------------------------
(* startCodeGeneration(): the rows, then the sandbox, then the answer.     *)

\* The session's row, with its init_args.
CreateSession ==
  /\ creation = "requested" /\ creation' = "session"
  /\ UNCHANGED <<agent, inbox, tab, visits, lost, boots, seeds, begun>>

StartProcess ==
  /\ proc' = "starting" /\ boots' = boots + 1 /\ begun' = FALSE
  /\ requestedQuery' = FALSE /\ state' = Unseeded /\ build' = "none"
  /\ pendingClientMessages' = <<>> /\ received' = <<>> /\ handled' = <<>>

\* The command that starts main.ts in a new sandbox.
BootAgentSandbox ==
  /\ creation = "session" /\ proc = "absent" /\ boots < MaxBoots
  /\ StartProcess
  /\ UNCHANGED <<creation, row, tab, visits, lost, seeds>>

\* The answer to the tab that asked: a failure leaves what was started, for
\* instance when the start command only timed out.
AnswerCreation(ok) ==
  /\ creation \in {"requested", "session"} /\ (ok => proc # "absent")
  /\ creation' = IF ok THEN "ok" ELSE IF creation = "session" THEN "failed" ELSE "refused"
  /\ page' = [t \in Tabs |-> IF page[t] # "creating" THEN page[t]
                             ELSE IF ok THEN "connecting" ELSE "closed"]
  /\ UNCHANGED <<agent, inbox, newChat, toSend, connected, restored, isGenerating,
                 visits, lost, boots, seeds, begun>>

-----------------------------------------------------------------------------
(* main() and StandaloneAgent.boot().                                      *)

LoadInitArgs ==
  /\ proc = "starting" /\ proc' = "joining"
  /\ requestedQuery' = (creation \in {"session", "ok", "failed"})
  /\ UNCHANGED <<creation, state, row, build, inbox, tab, visits, lost, boots, seeds, begun>>

TransportReady ==
  /\ proc = "joining" /\ proc' = "loading"
  /\ UNCHANGED <<creation, requestedQuery, state, row, build, inbox, tab, visits, lost,
                 boots, seeds, begun>>

LoadState ==
  /\ proc = "loading" /\ proc' = "selecting" /\ state' = row
  /\ UNCHANGED <<creation, requestedQuery, row, build, inbox, tab, visits, lost, boots,
                 seeds, begun>>

\* Mutant: a persisted query does not count.
SeedAgain ==
  /\ proc = "selecting" /\ requestedQuery
  /\ proc' = "initializing" /\ state' = [Unseeded EXCEPT !.query = TRUE]
  /\ seeds' = seeds + 1
  /\ UNCHANGED <<creation, requestedQuery, row, build, inbox, tab, visits, lost, boots, begun>>

\* initializeProject() up to the behavior's setState(); its commit is awaited.
InitializeProject ==
  /\ proc = "selecting" /\ ~state.query /\ requestedQuery
  /\ proc' = "initializing" /\ state' = [state EXCEPT !.query = TRUE]
  /\ seeds' = seeds + 1
  /\ UNCHANGED <<creation, requestedQuery, row, build, inbox, tab, visits, lost, boots, begun>>

\* What the handler of `generate_all` leaves in the state, and who builds.
GenerateState(s, b) ==
  [s EXCEPT !.shouldBeGenerating = b # "none" \/ ~s.complete]
GenerateBuild(s, b) == IF b = "none" /\ ~s.complete THEN "client" ELSE b

Asked == \E i \in DOMAIN pendingClientMessages : pendingClientMessages[i] = "generate_all"

\* boot() is over with state s and build b: agent_connected is broadcast, and
\* the buffered messages are given to the agent in the order they came.
BootEnds(s, b) ==
  /\ proc' = "up"
  /\ state' = IF Asked THEN GenerateState(s, b) ELSE s
  /\ build' = IF Asked THEN GenerateBuild(s, b) ELSE b
  /\ begun' = (begun \/ build' # "none")
  /\ handled' = handled \o pendingClientMessages /\ pendingClientMessages' = <<>>
  /\ \E missed \in SUBSET {t \in Tabs : page[t] = "joined"} :
       /\ lost' = IF missed = {} THEN lost ELSE lost + 1
       /\ lost' <= MaxLost
       /\ connected' = [t \in Tabs |->
            IF page[t] # "joined" \/ t \in missed THEN connected[t]
            ELSE IF s.shouldBeGenerating THEN "generating" ELSE "idle"]
  /\ UNCHANGED <<creation, requestedQuery, row, received, page, newChat, toSend, restored,
                 isGenerating, visits, boots, seeds>>

\* Mutant: generation waits for a client.
StartNothing ==
  /\ proc = "initializing" /\ BootEnds(state, "none")

\* startInitialGeneration() for the project just initialised.
BootFresh ==
  /\ proc = "initializing"
  /\ BootEnds([state EXCEPT !.shouldBeGenerating = TRUE], "auto")

\* The boot of a session that has a query already, or of one without any.
BootResumed ==
  /\ proc = "selecting" /\ (state.query \/ ~requestedQuery)
  /\ BootEnds(state, "none")

\* A rejected step of the boot ends the process, and so does a kill later.
Dies ==
  /\ proc \in Booting \cup {"up"} /\ proc' = "dead"
  /\ pendingClientMessages' = <<>> /\ build' = "none"
  /\ UNCHANGED <<creation, requestedQuery, state, row, received, handled, tab, visits,
                 lost, boots, seeds, begun>>

\* shutdown(): the state is flushed before the process exits.
Shutdown ==
  /\ proc = "up" /\ proc' = "dead" /\ row' = state /\ build' = "none"
  /\ UNCHANGED <<creation, requestedQuery, state, inbox, tab, visits, lost, boots, seeds, begun>>

Restart ==
  /\ proc = "dead" /\ boots < MaxBoots
  /\ StartProcess
  /\ UNCHANGED <<creation, row, tab, visits, lost, seeds>>

\* The state store writes the state of the last setState().
Persist ==
  /\ proc \in Persists /\ row # state /\ row' = state
  /\ UNCHANGED <<creation, proc, requestedQuery, state, build, inbox, tab, visits, lost,
                 boots, seeds, begun>>

\* generateAllFiles() settles and generationPromise is null. Only the handler
\* of generate_all clears the intent then; startInitialGeneration() does not.
\* A build whose template cannot be loaded rejects with the promise set, and
\* its .finally() clears nothing: to all that look at it, it never ends.
GenerationEnds ==
  /\ build # "none" /\ build' = "none"
  /\ \E completed \in BOOLEAN :
       state' = [state EXCEPT !.complete = state.complete \/ completed,
                              !.shouldBeGenerating = build = "auto" /\ @]
  /\ UNCHANGED <<creation, proc, requestedQuery, row, inbox, tab, visits, lost, boots,
                 seeds, begun>>

-----------------------------------------------------------------------------
(* A client message and the process: onClientMessage.                      *)

\* The agent is there: it handles the message.
Dispatched(m) ==
  /\ proc = "up"
  /\ handled' = Append(handled, m) /\ received' = Append(received, m)
  /\ state' = IF m = "generate_all" THEN GenerateState(state, build) ELSE state
  /\ build' = IF m = "generate_all" THEN GenerateBuild(state, build) ELSE build
  /\ begun' = (begun \/ build' # "none")
  /\ UNCHANGED pendingClientMessages

\* Mutant: messages that come before the agent are dropped.
Dropped(m) ==
  /\ proc \in Joined \ {"up"}
  /\ received' = Append(received, m)
  /\ UNCHANGED <<handled, pendingClientMessages, state, build, begun>>

\* The agent is booting: the message is kept for it.
Buffered(m) ==
  /\ proc \in Joined \ {"up"}
  /\ received' = Append(received, m)
  /\ pendingClientMessages' = Append(pendingClientMessages, m)
  /\ UNCHANGED <<handled, state, build, begun>>

\* Nobody has joined the channel for the session: Realtime delivers nothing.
Missed ==
  proc \notin Joined /\ UNCHANGED <<inbox, state, build, begun>>

Broadcast(m) == Dispatched(m) \/ Buffered(m) \/ Missed

-----------------------------------------------------------------------------
(* use-chat.ts and the handler of agent_connected.                         *)

\* /chat/new: the tab asks for the session.
OpenNew(t) ==
  /\ page[t] = "closed" /\ creation = "none" /\ visits < MaxVisits
  /\ creation' = "requested" /\ visits' = visits + 1
  /\ page' = [page EXCEPT ![t] = "creating"] /\ newChat' = [newChat EXCEPT ![t] = TRUE]
  /\ UNCHANGED <<agent, inbox, toSend, connected, restored, isGenerating, lost, boots,
                 seeds, begun>>

\* /chat/<id>: connectToAgent() finds the session's row.
OpenExisting(t) ==
  /\ page[t] = "closed" /\ creation \in {"session", "ok", "failed"} /\ visits < MaxVisits
  /\ visits' = visits + 1
  /\ page' = [page EXCEPT ![t] = "connecting"] /\ newChat' = [newChat EXCEPT ![t] = FALSE]
  /\ UNCHANGED <<creation, agent, inbox, toSend, connected, restored, isGenerating, lost,
                 boots, seeds, begun>>

\* The SUBSCRIBED status: the first commands are sent.
Subscribed(t) ==
  /\ page[t] = "connecting" /\ page' = [page EXCEPT ![t] = "joined"]
  /\ toSend' = [toSend EXCEPT ![t] =
       [m \in Requests |-> IF m = "generate_all" /\ ~newChat[t] THEN 0 ELSE SendAttempts]]
  /\ isGenerating' = [isGenerating EXCEPT ![t] = newChat[t]]
  /\ UNCHANGED <<creation, agent, inbox, newChat, connected, restored, visits, lost, boots,
                 seeds, begun>>

\* The page is left (closed, refreshed, or mounted again): all it had is gone.
Leave(t) ==
  /\ page[t] \in {"connecting", "joined", "failed"}
  /\ page' = [page EXCEPT ![t] = "closed"]
  /\ toSend' = [toSend EXCEPT ![t] = [m \in Requests |-> 0]]
  /\ connected' = [connected EXCEPT ![t] = "none"]
  /\ restored' = [restored EXCEPT ![t] = FALSE]
  /\ isGenerating' = [isGenerating EXCEPT ![t] = FALSE]
  /\ UNCHANGED <<creation, agent, inbox, newChat, visits, lost, boots, seeds, begun>>

\* CHANNEL_ERROR, TIMED_OUT or CLOSED: the user is asked to refresh.
ChannelFails(t) ==
  /\ page[t] \in {"connecting", "joined"} /\ page' = [page EXCEPT ![t] = "failed"]
  /\ toSend' = [toSend EXCEPT ![t] = [m \in Requests |-> 0]]
  /\ connected' = [connected EXCEPT ![t] = "none"]
  /\ UNCHANGED <<creation, agent, inbox, newChat, restored, isGenerating, visits, lost,
                 boots, seeds, begun>>

\* An attempt of reliableSend() that is acknowledged.
SendAcknowledged(t, m) ==
  /\ page[t] = "joined" /\ toSend[t][m] > 0
  /\ toSend' = [toSend EXCEPT ![t][m] = 0]
  /\ Broadcast(m)
  /\ UNCHANGED <<creation, proc, requestedQuery, row, page, newChat, connected, restored,
                 isGenerating, visits, lost, boots, seeds>>

\* Mutant: the loop makes one attempt too many.
SendOnceMore(t, m) ==
  /\ page[t] = "joined" /\ toSend[t][m] >= 0 /\ lost < MaxLost
  /\ toSend' = [toSend EXCEPT ![t][m] = @ - 1] /\ lost' = lost + 1
  /\ UNCHANGED <<creation, inbox, agent, begun, page, newChat, connected, restored,
                 isGenerating, visits, boots, seeds>>

\* One that is not, although the message may have been delivered.
SendUnacknowledged(t, m) ==
  /\ page[t] = "joined" /\ toSend[t][m] > 0 /\ lost < MaxLost
  /\ toSend' = [toSend EXCEPT ![t][m] = @ - 1] /\ lost' = lost + 1
  /\ (Broadcast(m) \/ UNCHANGED <<inbox, state, build, begun>>)
  /\ UNCHANGED <<creation, proc, requestedQuery, row, page, newChat, connected, restored,
                 isGenerating, visits, boots, seeds>>

\* agent_connected restores a tab once, and resumes what should be generating.
AgentConnected(t) ==
  /\ page[t] = "joined" /\ connected[t] # "none"
  /\ connected' = [connected EXCEPT ![t] = "none"]
  /\ restored' = [restored EXCEPT ![t] = TRUE]
  /\ LET resumes == ~restored[t] /\ connected[t] = "generating" /\ ~isGenerating[t]
     IN  /\ isGenerating' = [isGenerating EXCEPT ![t] = @ \/ resumes]
         /\ \/ resumes /\ Broadcast("generate_all") /\ UNCHANGED lost
            \/ resumes /\ lost < MaxLost /\ lost' = lost + 1
               /\ UNCHANGED <<inbox, state, build, begun>>
            \/ ~resumes /\ UNCHANGED <<inbox, state, build, begun, lost>>
  /\ UNCHANGED <<creation, proc, requestedQuery, row, page, newChat, toSend, visits, boots,
                 seeds>>

-----------------------------------------------------------------------------
Process ==
  LoadInitArgs \/ TransportReady \/ LoadState \/ InitializeProject \/ BootFresh \/ BootResumed

Tab(t) ==
  \/ OpenNew(t) \/ OpenExisting(t) \/ Leave(t) \/ Subscribed(t) \/ ChannelFails(t)
  \/ AgentConnected(t)
  \/ \E m \in Requests : SendAcknowledged(t, m) \/ SendUnacknowledged(t, m)

Next ==
  \/ CreateSession \/ BootAgentSandbox \/ (\E ok \in BOOLEAN : AnswerCreation(ok))
  \/ Process \/ Dies \/ Shutdown \/ Restart \/ Persist \/ GenerationEnds
  \/ \E t \in Tabs : Tab(t)

\* main() and the handler of a delivered broadcast always get their turn.
\* Nothing is assumed of the API, of the tabs or of how long a build takes.
Fairness ==
  /\ WF_vars(Process)
  /\ \A t \in Tabs : WF_vars(AgentConnected(t))

Spec == Init /\ [][Next]_vars /\ Fairness

-----------------------------------------------------------------------------
TypeOK ==
  /\ creation \in {"none", "requested", "session", "ok", "failed", "refused"}
  /\ proc \in Booting \cup {"absent", "up", "dead"} /\ requestedQuery \in BOOLEAN
  /\ state \in AgentStates /\ row \in AgentStates
  /\ build \in {"none", "auto", "client"}
  /\ pendingClientMessages \in Seq(Requests)
  /\ received \in Seq(Requests) /\ handled \in Seq(Requests)
  /\ page \in [Tabs -> {"closed", "creating", "connecting", "joined", "failed"}]
  /\ newChat \in [Tabs -> BOOLEAN]
  /\ toSend \in [Tabs -> [Requests -> 0..SendAttempts]]
  /\ connected \in [Tabs -> {"none", "idle", "generating"}]
  /\ restored \in [Tabs -> BOOLEAN] /\ isGenerating \in [Tabs -> BOOLEAN]
  /\ visits \in 0..MaxVisits /\ lost \in 0..MaxLost /\ boots \in 0..MaxBoots
  /\ seeds \in 0..MaxBoots /\ begun \in BOOLEAN

\* Of the messages the channel has delivered to a process, its agent has been
\* given a prefix, in the order they came, and the rest waits for it; and it is
\* given none before the project is there that `generate_all` builds (main.ts:
\* "no interleaving and no lost or reordered messages"; standaloneAgent.ts:
\* "by the time the agent boots it already has everything it needs").
CommandsWaitForAgent ==
  /\ proc \in Booting \cup {"up"} => handled \o pendingClientMessages = received
  /\ handled # <<>> => state.query

\* A session whose query is stored is never initialised again, whatever the
\* crashes: a restart resumes its project and does not put a template over it.
ProjectInitialisedOnce == [][row.query => seeds' = seeds]_vars

\* A process that starts on a new session begins a generation or ends: no tab
\* has to deliver anything (startInitialGeneration(): "deterministic and
\* independent of the client").
FreshSessionGenerates == (proc = "starting" /\ ~row.query) ~> (begun \/ proc = "dead")

\* The claim that a tab which joins a live agent has its state restored
\* (docs/llm.md: "Backend sends `agent_connected` with full state").
JoiningRestores ==
  \A t \in Tabs :
    (page[t] = "joined" /\ proc = "up") ~> (restored[t] \/ page[t] # "joined" \/ proc # "up")
=============================================================================
