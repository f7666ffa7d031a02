--------------------------- MODULE AgentPresence ---------------------------
(***************************************************************************)
(* Which PC agents of one repair session are online: the agent processes   *)
(* with their reconnection loop, the handlers of their WebSocket           *)
(* connections in the hub, the hub's registry of agents and the session's  *)
(* single pc_agent slot.  How AGENT_* events and snapshots with the slot   *)
(* reach the clients is the subject of SessionSync (AgentEvent).           *)
(*                                                                         *)
(* A connection has two ends that learn of its death independently: the    *)
(* agent may be back on a new connection before the handler of the old one *)
(* has ended.  Commands and results are the subject of ToolExecution.      *)
(***************************************************************************)
EXTENDS Naturals

CONSTANTS Agents,       \* agent_ids
          MaxConns,     \* bound: connections opened by all agents together
          MaxAttempts,  \* reconnect_max_attempts
          None          \* no agent

ASSUME NoneAssumption == None \notin Agents
ASSUME BoundAssumption == MaxConns \in Nat /\ MaxAttempts \in Nat

Conns  == 1..MaxConns
NoConn == 0

VARIABLES
    state,     \* AgentClient.state; "STOPPED" is OFFLINE after shutdown()
    attempts,  \* AgentClient._reconnect_attempts
    failures,  \* history: failed or lost connections since the agent was last ONLINE
    link,      \* the connection the agent runs on
    owner,     \* the agent that opened a connection
    up,        \* whether the transport of a connection is alive
    handler,   \* the hub's coroutine for a connection
    inbox,     \* the message of a connection the hub has not read
    greeted,   \* connections whose "registered" reply the agent can read
    registry,  \* AgentRegistry: agent -> the connection its send_json writes to
    slot,      \* the session's pc_agent
    told       \* history: whom the hub's last AGENT_* event names, and how

agentVars == <<state, attempts, failures, link>>
connVars  == <<owner, up, handler, inbox, greeted>>
hubVars   == <<registry, slot, told>>
vars      == <<agentVars, connVars, hubVars>>

(* An AGENT_* event of the session; no agent before the first. *)
Event(a, online) == [agent |-> a, online |-> online]

Init ==
    /\ state = [a \in Agents |-> "OFFLINE"]
    /\ attempts = [a \in Agents |-> 0]
    /\ failures = [a \in Agents |-> 0]
    /\ link = [a \in Agents |-> NoConn]
    /\ owner = [k \in Conns |-> None]
    /\ up = [k \in Conns |-> FALSE]
    /\ handler = [k \in Conns |-> "unused"]
    /\ inbox = [k \in Conns |-> "none"]
    /\ greeted = {}
    /\ registry = [a \in Agents |-> NoConn]
    /\ slot = None
    /\ told = Event(None, FALSE)

-----------------------------------------------------------------------------
(* The agent process                                                       *)

(* Mutant: failed attempts are not counted. *)
BackoffForever(a) ==
    /\ state' = [state EXCEPT ![a] = "RECONNECTING"]
    /\ link' = [link EXCEPT ![a] = NoConn]
    /\ failures' = [failures EXCEPT ![a] = IF @ > MaxAttempts THEN @ ELSE @ + 1]
    /\ UNCHANGED attempts

(* _connect_once ended with an exception: one more attempt, or the end. *)
Backoff(a) ==
    /\ attempts' = [attempts EXCEPT ![a] = @ + 1]
    /\ failures' = [failures EXCEPT ![a] = @ + 1]
    /\ state' = [state EXCEPT ![a] = IF attempts[a] + 1 > MaxAttempts THEN "ERROR"
                                     ELSE "RECONNECTING"]
    /\ link' = [link EXCEPT ![a] = NoConn]

(* The loop enters _connect_once: at the start, after a clean close, or    *)
(* when the backoff delay is over.                                         *)
StartConnect(a) ==
    /\ state[a] \in {"OFFLINE", "RECONNECTING"}
    /\ state' = [state EXCEPT ![a] = "CONNECTING"]
    /\ UNCHANGED <<attempts, failures, link, connVars, hubVars>>

(* The connection is open and the register message is sent on it. *)
Connected(a, k) ==
    /\ state[a] = "CONNECTING"
    /\ handler[k] = "unused"
    /\ \A j \in Conns : j < k => handler[j] # "unused"
    /\ state' = [state EXCEPT ![a] = "REGISTERING"]
    /\ link' = [link EXCEPT ![a] = k]
    /\ owner' = [owner EXCEPT ![k] = a]
    /\ up' = [up EXCEPT ![k] = TRUE]
    /\ handler' = [handler EXCEPT ![k] = "reading"]
    /\ inbox' = [inbox EXCEPT ![k] = "register"]
    /\ UNCHANGED <<attempts, failures, greeted, hubVars>>

ConnectFails(a) ==
    /\ state[a] = "CONNECTING"
    /\ Backoff(a)
    /\ UNCHANGED <<connVars, hubVars>>

Online(a) ==
    /\ state[a] = "REGISTERING"
    /\ link[a] \in greeted
    /\ state' = [state EXCEPT ![a] = "ONLINE"]
    /\ failures' = [failures EXCEPT ![a] = 0]
    /\ greeted' = greeted \ {link[a]}
    /\ UNCHANGED <<attempts, link, owner, up, handler, inbox, hubVars>>

(* A command sent to the registered agent overtook the reply: it is taken  *)
(* for a failed registration and the connection is closed.                 *)
Misread(a) ==
    LET k == link[a] IN
    /\ state[a] = "REGISTERING"
    /\ registry[a] = k
    /\ Backoff(a)
    /\ up' = [up EXCEPT ![k] = FALSE]
    /\ UNCHANGED <<owner, handler, inbox, greeted, hubVars>>

(* _heartbeat_sender; bound: one unread message per connection. *)
Beat(a) ==
    LET k == link[a] IN
    /\ state[a] = "ONLINE"
    /\ up[k]
    /\ inbox[k] = "none"
    /\ inbox' = [inbox EXCEPT ![k] = "heartbeat"]
    /\ UNCHANGED <<agentVars, owner, up, handler, greeted, hubVars>>

(* The agent finds its connection dead. *)
Lost(a) ==
    /\ state[a] \in {"REGISTERING", "ONLINE"}
    /\ ~up[link[a]]
    /\ Backoff(a)
    /\ UNCHANGED <<connVars, hubVars>>

(* The connection is closed with code 1000 or 1001: _connect_once returns  *)
(* and the attempts start again at zero.                                   *)
ClosedOk(a) ==
    /\ state[a] = "ONLINE"
    /\ state' = [state EXCEPT ![a] = "OFFLINE"]
    /\ attempts' = [attempts EXCEPT ![a] = 0]
    /\ link' = [link EXCEPT ![a] = NoConn]
    /\ up' = [up EXCEPT ![link[a]] = FALSE]
    /\ UNCHANGED <<failures, owner, handler, inbox, greeted, hubVars>>

(* shutdown(): the reconnection loop ends and the socket is closed. *)
Shutdown(a) ==
    /\ state[a] \notin {"ERROR", "STOPPED"}
    /\ state' = [state EXCEPT ![a] = "STOPPED"]
    /\ link' = [link EXCEPT ![a] = NoConn]
    /\ up' = [k \in Conns |-> up[k] /\ k # link[a]]
    /\ UNCHANGED <<attempts, failures, owner, handler, inbox, greeted, hubVars>>

-----------------------------------------------------------------------------
(* The network                                                             *)

(* A connection dies, with or without what the hub has not read of it. *)
Break(k) ==
    /\ up[k]
    /\ up' = [up EXCEPT ![k] = FALSE]
    /\ inbox' \in {inbox, [inbox EXCEPT ![k] = "none"]}
    /\ greeted' = greeted \ {k}
    /\ UNCHANGED <<agentVars, owner, handler, hubVars>>

-----------------------------------------------------------------------------
(* The hub                                                                 *)

(* Mutant: the session's slot gets the connection instead of the agent. *)
SlotIsConn(k) ==
    LET a == owner[k] IN
    /\ handler[k] = "reading"
    /\ inbox[k] = "register"
    /\ inbox' = [inbox EXCEPT ![k] = "none"]
    /\ handler' = [handler EXCEPT ![k] = "announcing"]
    /\ registry' = [registry EXCEPT ![a] = k]
    /\ slot' = k
    /\ told' = Event(a, TRUE)
    /\ UNCHANGED <<agentVars, owner, up, greeted>>

(* register_agent up to the awaited broadcast of AGENT_CONNECTED: any      *)
(* earlier registration of the agent is replaced.                          *)
HubRegister(k) ==
    LET a == owner[k] IN
    /\ handler[k] = "reading"
    /\ inbox[k] = "register"
    /\ inbox' = [inbox EXCEPT ![k] = "none"]
    /\ handler' = [handler EXCEPT ![k] = "announcing"]
    /\ registry' = [registry EXCEPT ![a] = k]
    /\ slot' = a
    /\ told' = Event(a, TRUE)
    /\ UNCHANGED <<agentVars, owner, up, greeted>>

(* Mutant: the handler remembers whom it registered only after the reply. *)
ReplyFirst(k) ==
    /\ handler[k] = "announcing"
    /\ handler' = [handler EXCEPT ![k] = IF up[k] THEN "serving" ELSE "reading"]
    /\ greeted' = IF up[k] THEN greeted \cup {k} ELSE greeted
    /\ UNCHANGED <<agentVars, owner, up, inbox, hubVars>>

(* After the broadcast the handler remembers whom it registered and        *)
(* replies; on a dead connection the reply is lost.                        *)
HubReply(k) ==
    /\ handler[k] = "announcing"
    /\ handler' = [handler EXCEPT ![k] = "serving"]
    /\ greeted' = IF up[k] THEN greeted \cup {k} ELSE greeted
    /\ UNCHANGED <<agentVars, owner, up, inbox, hubVars>>

(* heartbeat: refreshes whatever registration the agent has, then the      *)
(* slot; without one it changes nothing, and the error the agent is sent   *)
(* is only logged there, like the acknowledgement.                         *)
HubHeartbeat(k) ==
    LET a == owner[k] IN
    /\ handler[k] = "serving"
    /\ inbox[k] = "heartbeat"
    /\ inbox' = [inbox EXCEPT ![k] = "none"]
    /\ \/ /\ registry[a] # NoConn
          /\ slot' = a
          /\ told' = Event(a, TRUE)
       \/ /\ registry[a] = NoConn
          /\ UNCHANGED <<slot, told>>
    /\ UNCHANGED <<agentVars, owner, up, handler, greeted, registry>>

(* Mutant: an agent is removed without clearing the session's slot. *)
KeepSlot(a) ==
    IF registry[a] = NoConn THEN UNCHANGED hubVars
    ELSE /\ registry' = [registry EXCEPT ![a] = NoConn]
         /\ told' = Event(a, FALSE)
         /\ UNCHANGED slot

(* unregister_agent: by agent, whichever connection registered it; the     *)
(* slot is cleared whichever agent it shows.                               *)
Unregister(a) ==
    IF registry[a] = NoConn THEN UNCHANGED hubVars
    ELSE /\ registry' = [registry EXCEPT ![a] = NoConn]
         /\ slot' = None
         /\ told' = Event(a, FALSE)

(* The handler reads the end of its connection; its finally clause         *)
(* unregisters the agent if it had registered one.                         *)
HubEnd(k) ==
    /\ handler[k] \in {"reading", "serving"}
    /\ ~up[k]
    /\ inbox[k] = "none"
    /\ handler' = [handler EXCEPT ![k] = "ended"]
    /\ IF handler[k] = "serving" THEN Unregister(owner[k]) ELSE UNCHANGED hubVars
    /\ UNCHANGED <<agentVars, owner, up, inbox, greeted>>

(* The hub restarts: the registry is empty and a restored session has no   *)
(* agent.                                                                  *)
HubRestart ==
    /\ handler' = [k \in Conns |-> IF handler[k] = "unused" THEN "unused" ELSE "ended"]
    /\ up' = [k \in Conns |-> FALSE]
    /\ inbox' = [k \in Conns |-> "none"]
    /\ greeted' = {}
    /\ registry' = [a \in Agents |-> NoConn]
    /\ slot' = None
    /\ told' = Event(None, FALSE)
    /\ UNCHANGED <<agentVars, owner>>

-----------------------------------------------------------------------------
ConnectStep(a) == ConnectFails(a) \/ \E k \in Conns : Connected(a, k)
ReceiveStep(a) == Online(a) \/ Lost(a)
AgentStep(a) ==
    \/ StartConnect(a) \/ ConnectStep(a) \/ ReceiveStep(a)
    \/ Misread(a) \/ Beat(a) \/ ClosedOk(a) \/ Shutdown(a)

HandlerStep(k) == HubRegister(k) \/ HubReply(k) \/ HubHeartbeat(k) \/ HubEnd(k)

Next ==
    \/ \E a \in Agents : AgentStep(a)
    \/ \E k \in Conns : HandlerStep(k) \/ Break(k)
    \/ HubRestart

(* The hub's loop runs its handlers, the agent's loop its own: timers      *)
(* fire, a connection attempt succeeds or fails, what arrives is read.     *)
Fairness ==
    /\ \A k \in Conns : WF_vars(HandlerStep(k))
    /\ \A a \in Agents : /\ WF_vars(StartConnect(a))
                         /\ WF_vars(ConnectStep(a))
                         /\ WF_vars(ReceiveStep(a))

Spec == Init /\ [][Next]_vars /\ Fairness

-----------------------------------------------------------------------------
(* Properties                                                              *)

(* Types of the variables. *)
TypeOK ==
    /\ state \in [Agents -> {"OFFLINE", "CONNECTING", "REGISTERING", "ONLINE",
                             "RECONNECTING", "ERROR", "STOPPED"}]
    /\ attempts \in [Agents -> Nat]
    /\ failures \in [Agents -> Nat]
    /\ link \in [Agents -> Conns \cup {NoConn}]
    /\ owner \in [Conns -> Agents \cup {None}]
    /\ up \in [Conns -> BOOLEAN]
    /\ handler \in [Conns -> {"unused", "reading", "announcing", "serving", "ended"}]
    /\ inbox \in [Conns -> {"none", "register", "heartbeat"}]
    /\ greeted \subseteq Conns
    /\ registry \in [Agents -> Conns \cup {NoConn}]
    /\ slot \in Agents \cup {None}
    /\ told \in [agent : Agents \cup {None}, online : BOOLEAN]

(* The agent the session shows can be reached: the slot follows the        *)
(* registry through registrations, heartbeats and removals of several      *)
(* agents (_set_session_pc_agent).                                         *)
SlotIsRegistered == slot # None => registry[slot] # NoConn

(* No registration outlives its connection's handler: a registered agent   *)
(* is one whose handler still runs, so its finally clause is still to come *)
(* (register_agent, unregister_agent, agent_websocket).                    *)
RegisteredIsServed ==
    \A a \in Agents : registry[a] # NoConn =>
        owner[registry[a]] = a /\ handler[registry[a]] \in {"announcing", "serving"}

(* What docs/ARCHITECTURE.md says of AGENT_DISCONNECTED: the agent that    *)
(* the event names is offline, not online on a live connection.            *)
DisconnectedIsOffline ==
    \A a \in Agents : told = Event(a, FALSE) => ~(state[a] = "ONLINE" /\ up[link[a]])

(* What reconnect_max_attempts says: the agent gives up after that many    *)
(* attempts to reconnect failed.                                           *)
GivesUpAfterFailures == \A a \in Agents : state[a] = "ERROR" => failures[a] > MaxAttempts

(* A registration whose connection is dead does not stay. *)
DeadIsForgotten ==
    \A a \in Agents : \A k \in Conns :
        (registry[a] = k /\ ~up[k]) ~> (registry[a] # k)

(* The reconnection loop comes to an end: an agent that tries to connect   *)
(* gets online, gives up or is shut down, though attempts may fail at      *)
(* every point of the handshake.                                           *)
ConnectingSettles ==
    \A a \in Agents :
        (state[a] \in {"CONNECTING", "REGISTERING", "RECONNECTING"})
            ~> (state[a] \in {"ONLINE", "ERROR", "STOPPED"})
=============================================================================
