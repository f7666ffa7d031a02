------------------------------ MODULE LocalHub ------------------------------
(***************************************************************************)
(* Starting and stopping the desktop hub (src/local_hub/launcher.py,       *)
(* single_instance.py, __main__.py, HubAdvertiser of                       *)
(* src/app/hub/discovery.py): the processes of a PC, the two ports they    *)
(* compete for, the mDNS name and the agent processes they start.          *)
(*                                                                         *)
(* A process may be killed between any two steps.  What the operating      *)
(* system takes back then is the ports and the name; an agent lives on.    *)
(***************************************************************************)
EXTENDS FiniteSets

CONSTANTS
    Launches,  \* bound: the processes started, each used once
    Other,     \* a program that is not one of them: "uvicorn app.main:app", a hub elsewhere
    None

ASSUME HubAssumption == Other \notin Launches /\ None \notin Launches \cup {Other}

VARIABLES
    pc,       \* where each process is in launcher.main
    options,  \* start_pc_agent, start_mdns and start_ui of each, from its arguments and file
    lock,     \* who listens on the lock port
    port,     \* who listens on the hub's port
    names,    \* who answers for the hub's name on the LAN
    agents,   \* the processes whose agent process is alive
    dismissed, \* the processes that told their agent to end
    killed,   \* ghost: processes that did not end by themselves
    misled    \* ghost: processes that took another program for their server

hubVars == <<pc, options, lock, port, names, agents, dismissed, killed, misled>>

Running == {"config", "advertise", "serve", "wait", "agent", "run", "stop", "unregister", "exit"}

Goto(p, from, to) == pc[p] = from /\ pc' = [pc EXCEPT ![p] = to]

\* The process ends: its sockets are closed, its daemon threads stop with it.
Ended(p) ==
    /\ lock' = IF lock = p THEN None ELSE lock
    /\ port' = IF port = p THEN None ELSE port
    /\ names' = names \ {p}
    /\ UNCHANGED <<options, agents, dismissed>>

-----------------------------------------------------------------------------
(* The start *)

\* Windows starts the program, or the user does, perhaps once more.
Launch(p) == Goto(p, "off", "lock") /\ UNCHANGED <<options, lock, port, names, agents, dismissed, killed, misled>>

\* acquire_single_instance_lock; a second instance logs it and returns.
Acquire(p) ==
    /\ IF lock = None THEN Goto(p, "lock", "config") /\ lock' = p
       ELSE Goto(p, "lock", "gone") /\ UNCHANGED lock
    /\ UNCHANGED <<options, port, names, agents, dismissed, killed, misled>>

Configure(p) ==
    /\ Goto(p, "config", "advertise")
    /\ \E o \in [agent : BOOLEAN, mdns : BOOLEAN, ui : BOOLEAN] :
          options' = [options EXCEPT ![p] = o]
    /\ UNCHANGED <<lock, port, names, agents, dismissed, killed, misled>>

\* HubAdvertiser.start; registering a name that another hub has raises, before
\* any handler: the process ends.
Advertise(p) ==
    /\ IF options[p].mdns /\ names # {}
       THEN Goto(p, "advertise", "gone") /\ Ended(p)
       ELSE /\ Goto(p, "advertise", "serve")
            /\ names' = IF options[p].mdns THEN names \cup {p} ELSE names
            /\ UNCHANGED <<options, lock, port, agents, dismissed>>
    /\ UNCHANGED <<killed, misled>>

\* The server thread binds the port, or dies when it is taken.
Serve(p) ==
    /\ Goto(p, "serve", "wait")
    /\ port' = IF port = None THEN p ELSE port
    /\ UNCHANGED <<options, lock, names, agents, dismissed, killed, misled>>

\* _wait_hub_ready: GET /health answers, whoever it is that answers.
Ready(p) ==
    /\ port # None /\ Goto(p, "wait", "agent")
    /\ misled' = IF port = p THEN misled ELSE misled \cup {p}
    /\ UNCHANGED <<options, lock, port, names, agents, dismissed, killed>>

\* Mutant: a hub that is not ready is only logged.
NotReadyGoesOn(p) == Goto(p, "wait", "agent") /\ UNCHANGED <<options, lock, port, names, agents, dismissed, killed, misled>>

\* It does not within its time: RuntimeError, outside of the try block.
NotReady(p) ==
    /\ Goto(p, "wait", "gone") /\ Ended(p)
    /\ UNCHANGED <<killed, misled>>

StartAgent(p) ==
    /\ Goto(p, "agent", "run")
    /\ agents' = IF options[p].agent THEN agents \cup {p} ELSE agents
    /\ UNCHANGED <<options, lock, port, names, dismissed, killed, misled>>

-----------------------------------------------------------------------------
(* The end *)

\* The window is closed; without one, Ctrl+C, or the server thread is dead.
Close(p) == Goto(p, "run", "stop") /\ UNCHANGED <<options, lock, port, names, agents, dismissed, killed, misled>>

NoServer(p) == ~options[p].ui /\ port # p /\ Close(p)

\* Mutant: the agent is left to itself.
TerminateNot(p) == Goto(p, "stop", "unregister") /\ UNCHANGED <<options, lock, port, names, agents, dismissed, killed, misled>>

\* The finally block: agent_proc.terminate, which only signals the agent,
\* advertiser.stop, and the exit.
Terminate(p) ==
    /\ Goto(p, "stop", "unregister")
    /\ dismissed' = IF p \in agents THEN dismissed \cup {p} ELSE dismissed
    /\ UNCHANGED <<options, lock, port, names, agents, killed, misled>>

Unregister(p) ==
    /\ Goto(p, "unregister", "exit")
    /\ names' = names \ {p}
    /\ UNCHANGED <<options, lock, port, agents, dismissed, killed, misled>>

Exit(p) == Goto(p, "exit", "gone") /\ Ended(p) /\ UNCHANGED <<killed, misled>>

\* The process is killed, or raises where nothing catches it.
Kill(p) ==
    /\ pc[p] \in Running
    /\ pc' = [pc EXCEPT ![p] = "gone"]
    /\ killed' = killed \cup {p}
    /\ Ended(p)
    /\ UNCHANGED misled

\* An agent process ends, by itself or because it was told to.
AgentExits(p) ==
    /\ p \in agents
    /\ agents' = agents \ {p}
    /\ UNCHANGED <<pc, options, lock, port, names, dismissed, killed, misled>>

\* Programs that are not launched here take and release the port and the name.
OtherPort ==
    /\ port \in {None, Other}
    /\ port' = IF port = None THEN Other ELSE None
    /\ UNCHANGED <<pc, options, lock, names, agents, dismissed, killed, misled>>

OtherName ==
    /\ names \in {{}, {Other}}
    /\ names' = IF names = {} THEN {Other} ELSE {}
    /\ UNCHANGED <<pc, options, lock, port, agents, dismissed, killed, misled>>

-----------------------------------------------------------------------------
HubInit ==
    /\ pc = [p \in Launches |-> "off"]
    /\ options = [p \in Launches |-> [agent |-> TRUE, mdns |-> TRUE, ui |-> TRUE]]
    /\ lock = None /\ port = None
    /\ names = {} /\ agents = {} /\ dismissed = {}
    /\ killed = {} /\ misled = {}

\* Steps of launcher.main that wait for nothing, or for a time that ends.
Proceed(p) ==
    \/ Acquire(p) \/ Configure(p) \/ Advertise(p) \/ Serve(p)
    \/ Ready(p) \/ NotReady(p) \/ StartAgent(p) \/ NoServer(p)
    \/ Terminate(p) \/ Unregister(p) \/ Exit(p)

HubNext ==
    \/ \E p \in Launches : Proceed(p) \/ Launch(p) \/ Close(p) \/ Kill(p) \/ AgentExits(p)
    \/ OtherPort \/ OtherName

HubFairness == \A p \in Launches : WF_hubVars(Proceed(p))

HubSpec == HubInit /\ [][HubNext]_hubVars /\ HubFairness

-----------------------------------------------------------------------------
(* Properties *)

\* The type of the state.
HubTypeOK ==
    /\ pc \in [Launches -> {"off", "lock", "gone"} \cup Running]
    /\ options \in [Launches -> [agent : BOOLEAN, mdns : BOOLEAN, ui : BOOLEAN]]
    /\ lock \in Launches \cup {None}
    /\ port \in Launches \cup {None, Other}
    /\ names \subseteq Launches \cup {Other}
    /\ agents \subseteq Launches /\ dismissed \subseteq Launches
    /\ killed \subseteq Launches /\ misled \subseteq Launches

\* However the program is started again while it starts, runs or stops, one
\* process at most is past the lock, and only it serves the port or the name.
OneHub ==
    /\ \A p, q \in Launches : pc[p] \in Running /\ pc[q] \in Running => p = q
    /\ \A p \in Launches : p = port \/ p \in names => pc[p] \in Running

\* A hub that stops takes its agent with it: an agent without its hub, which
\* the next hub's agent will find connected under the same id, has been told
\* to end, or was left by a hub that was killed.
AgentHasItsHub ==
    \A p \in agents : pc[p] \in {"run", "stop"} \/ p \in dismissed \cup killed

\* The name is not announced for long without a server behind the port: the
\* start succeeds, or the process ends and its name with it; unless another
\* program answered the health check, and then stopped serving.
AnnouncedIsServed ==
    \A p \in Launches : p \in names ~> (port # None \/ p \notin names \/ p \in misled)

=============================================================================
