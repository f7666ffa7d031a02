--------------------------- MODULE ToolExecution ---------------------------
(***************************************************************************)
(* One repair session's tool executions, from the callers of the hub's     *)
(* ToolExecutionService.execute_tool to the handlers of the PC agent and   *)
(* back: the table of pending and completed executions with its shared     *)
(* futures, the commands and results in flight on the agent's WebSocket    *)
(* connections, and the dispatcher's cache in the agent process.           *)
(*                                                                         *)
(* The hub is one asyncio loop: an action is the code between two awaits   *)
(* that really suspend.  A connection is a value of its own, so that what  *)
(* was captured from an old connection can be told from the current one.   *)
(* The agent process is sequential and has at most one live connection.    *)
(* Tool ids, arguments and payloads are abstracted to the outcome of a     *)
(* command: "ok", "failed" (the handler raised) or "rejected" (refused     *)
(* before a handler ran).                                                  *)
(***************************************************************************)
EXTENDS Naturals, Sequences

CONSTANTS Calls,       \* invocations of execute_tool; each sends at most one command
          Requests,    \* request_ids
          MaxConns,    \* bound: connections the agent opens
          MaxCrashes,  \* bound: restarts of the agent process
          None         \* no value

Conns    == 1..MaxConns
NoConn   == 0
Outcomes == {"ok", "failed", "rejected"}
Command  == [req : Requests, cmd : Calls]           \* cmd: the command_id
Result   == [req : Requests, cmd : Calls, out : Outcomes]
Ack      == [req |-> None, cmd |-> None]              \* the "registered" reply
Run      == [cmd : Calls, out : {"ok", "failed"}, life : Nat]

ASSUME NoneAssumption == None \notin Calls /\ None \notin Result
ASSUME BoundAssumption == MaxConns \in Nat /\ MaxCrashes \in Nat

VARIABLES
    \* callers of execute_tool
    pc,         \* where each call stands
    req,        \* its request_id
    link,       \* the agent connection it captured before the audit event was awaited
    fut,        \* the future it awaits, named by the call that created it
    ret,        \* what it returned
    \* ToolExecutionStore
    pending,    \* request_id -> the future registered for it
    future,     \* the state of each future
    value,      \* the result a future was resolved with
    completed,  \* request_id -> the stored result
    \* connections
    status, registry, toAgent, toHub,
    publishing, \* the result a connection's handler is about to broadcast
    published,  \* TOOL_EXECUTE_RESULT events of each request
    \* agent process
    cache,      \* LocalToolDispatcher._completed
    life,       \* number of restarts
    ran         \* every handler execution, per request

callVars  == <<pc, req, link, fut, ret>>
storeVars == <<pending, future, value, completed>>
connVars  == <<status, registry, toAgent, toHub>>
hubVars   == <<publishing, published>>
agentVars == <<cache, life, ran>>
vars      == <<callVars, storeVars, connVars, hubVars, agentVars>>

Ended == {"returned", "refused", "timeout", "cancelled", "raised"}

Init ==
    /\ pc = [c \in Calls |-> "idle"]
    /\ req = [c \in Calls |-> None]
    /\ link = [c \in Calls |-> NoConn]
    /\ fut = [c \in Calls |-> None]
    /\ ret = [c \in Calls |-> None]
    /\ pending = [r \in Requests |-> None]
    /\ future = [c \in Calls |-> "none"]
    /\ value = [c \in Calls |-> None]
    /\ completed = [r \in Requests |-> None]
    /\ status = [k \in Conns |-> "unused"]
    /\ registry = NoConn
    /\ toAgent = [k \in Conns |-> <<>>]
    /\ toHub = [k \in Conns |-> <<>>]
    /\ publishing = [k \in Conns |-> None]
    /\ published = [r \in Requests |-> <<>>]
    /\ cache = [r \in Requests |-> None]
    /\ life = 0
    /\ ran = [r \in Requests |-> <<>>]

-----------------------------------------------------------------------------
(* ToolExecutionStore                                                      *)

(* Mutant: each registration creates its own future. *)
OwnFuture(c, r) == c

(* The future a call gets: the one already registered for the request, or *)
(* one of its own.                                                         *)
FutureFor(c, r) == IF pending[r] # None THEN pending[r] ELSE c

RegisterPending(c, r) ==
    LET f == FutureFor(c, r) IN
    /\ fut' = [fut EXCEPT ![c] = f]
    /\ pending' = [pending EXCEPT ![r] = f]
    /\ future' = [future EXCEPT ![f] = IF f = c THEN "open" ELSE @]

(* Mutant: a later result replaces the stored one. *)
AlwaysNew(m) == TRUE

(* Whether a result is the first one of its request. *)
IsNew(m) == completed[m.req] = None

(* Stores the first result of a request and resolves its waiter. *)
Complete(m) ==
    LET p == pending[m.req] IN
    /\ completed' = [completed EXCEPT ![m.req] = m]
    /\ pending' = [pending EXCEPT ![m.req] = None]
    /\ IF p # None /\ future[p] = "open"
       THEN /\ future' = [future EXCEPT ![p] = "done"]
            /\ value' = [value EXCEPT ![p] = m]
       ELSE UNCHANGED <<future, value>>

FailPending(r) == pending' = [pending EXCEPT ![r] = None]

-----------------------------------------------------------------------------
(* execute_tool.  Everything up to the audit event is one step: no await.  *)

(* A request that completed earlier is answered from the store. *)
ReturnCached(c, r) ==
    /\ pc[c] = "idle"
    /\ completed[r] # None
    /\ pc' = [pc EXCEPT ![c] = "returned"]
    /\ req' = [req EXCEPT ![c] = r]
    /\ ret' = [ret EXCEPT ![c] = completed[r]]
    /\ UNCHANGED <<link, fut, storeVars, connVars, hubVars, agentVars>>

(* Unknown or disabled tool, bad arguments, agent not online, capability   *)
(* or permission missing: nothing is registered.                           *)
Refuse(c, r) ==
    /\ pc[c] = "idle"
    /\ completed[r] = None
    /\ pc' = [pc EXCEPT ![c] = "refused"]
    /\ req' = [req EXCEPT ![c] = r]
    /\ UNCHANGED <<link, fut, ret, storeVars, connVars, hubVars, agentVars>>

(* The call registers its future, captures the agent's connection and      *)
(* suspends in the broadcast of TOOL_EXECUTION_STARTED.                     *)
Register(c, r) ==
    /\ pc[c] = "idle"
    /\ completed[r] = None
    /\ registry # NoConn
    /\ RegisterPending(c, r)
    /\ pc' = [pc EXCEPT ![c] = "auditing"]
    /\ req' = [req EXCEPT ![c] = r]
    /\ link' = [link EXCEPT ![c] = registry]
    /\ UNCHANGED <<ret, value, completed, connVars, hubVars, agentVars>>

(* Mutant: the envelope is built without the caller's command_id. *)
AnonymousCommand(c) == [req |-> req[c], cmd |-> None]

CommandOf(c) == [req |-> req[c], cmd |-> c]

(* The command goes out on the captured connection, whatever happened to   *)
(* it, to the store or to the future meanwhile.                            *)
Send(c) ==
    /\ pc[c] = "auditing"
    /\ status[link[c]] \in {"greeting", "greeted", "open"}
    /\ toAgent' = [toAgent EXCEPT ![link[c]] = Append(@, CommandOf(c))]
    /\ pc' = [pc EXCEPT ![c] = "waiting"]
    /\ UNCHANGED <<req, link, fut, ret, storeVars, status, registry, toHub,
                   hubVars, agentVars>>

(* The agent is gone and the socket does not know it yet. *)
SendLost(c) ==
    /\ pc[c] = "auditing"
    /\ status[link[c]] = "broken"
    /\ pc' = [pc EXCEPT ![c] = "waiting"]
    /\ UNCHANGED <<req, link, fut, ret, storeVars, connVars, hubVars, agentVars>>

(* Sending on a socket known to be closed raises: the exception leaves     *)
(* execute_tool and the pending entry stays.                               *)
SendRaises(c) ==
    /\ pc[c] = "auditing"
    /\ status[link[c]] \in {"broken", "closed"}
    /\ pc' = [pc EXCEPT ![c] = "raised"]
    /\ UNCHANGED <<req, link, fut, ret, storeVars, connVars, hubVars, agentVars>>

SendStep(c) == Send(c) \/ SendLost(c) \/ SendRaises(c)

(* wait_for returns the future's result. *)
Return(c) ==
    /\ pc[c] = "waiting"
    /\ future[fut[c]] = "done"
    /\ pc' = [pc EXCEPT ![c] = "returned"]
    /\ ret' = [ret EXCEPT ![c] = value[fut[c]]]
    /\ UNCHANGED <<req, link, fut, storeVars, connVars, hubVars, agentVars>>

(* A call that reaches wait_for after another caller's timeout cancelled   *)
(* the future they share gets CancelledError at once.                      *)
Cancelled(c) ==
    /\ pc[c] = "waiting"
    /\ future[fut[c]] = "cancelled"
    /\ pc' = [pc EXCEPT ![c] = "cancelled"]
    /\ UNCHANGED <<req, link, fut, ret, storeVars, connVars, hubVars, agentVars>>

Sharing(c) == {d \in Calls : pc[d] = "waiting" /\ fut[d] = fut[c]}

(* Mutant: the future is awaited without a timeout. *)
NoTimeout(c) == FALSE

(* The timer of c fires: wait_for cancels the future, fail_pending drops   *)
(* the entry.  The other calls waiting on that future wake in the same     *)
(* round of the loop, with their own timeout if it fired too, else with    *)
(* CancelledError.                                                         *)
Timeout(c) ==
    /\ pc[c] = "waiting"
    /\ future[fut[c]] = "open"
    /\ \E late \in SUBSET (Sharing(c) \ {c}) :
          pc' = [d \in Calls |-> IF d = c \/ d \in late THEN "timeout"
                                 ELSE IF d \in Sharing(c) THEN "cancelled"
                                 ELSE pc[d]]
    /\ future' = [future EXCEPT ![fut[c]] = "cancelled"]
    /\ FailPending(req[c])
    /\ UNCHANGED <<req, link, fut, ret, value, completed, connVars, hubVars, agentVars>>

(* The timer fires after the result was set and before the call resumed.   *)
TimeoutLate(c) ==
    /\ pc[c] = "waiting"
    /\ future[fut[c]] = "done"
    /\ pc' = [pc EXCEPT ![c] = "timeout"]
    /\ FailPending(req[c])
    /\ UNCHANGED <<req, link, fut, ret, future, value, completed, connVars,
                   hubVars, agentVars>>

Await(c) == Return(c) \/ Cancelled(c) \/ Timeout(c) \/ TimeoutLate(c)

-----------------------------------------------------------------------------
(* The hub's side of the agent connection                                  *)

(* register_agent: the new connection replaces whatever the registry holds *)
(* for the agent, then AGENT_CONNECTED is broadcast.                       *)
HubRegister(k) ==
    /\ status[k] = "unused"
    /\ \A j \in Conns : j < k => status[j] \in {"broken", "closed"}
    /\ status' = [status EXCEPT ![k] = "greeting"]
    /\ registry' = k
    /\ toAgent' = [j \in Conns |-> <<>>]   \* the agent has left its old receive loop
    /\ UNCHANGED <<toHub, callVars, storeVars, hubVars, agentVars>>

(* After the broadcast the hub answers "registered". *)
HubAck(k) ==
    /\ status[k] = "greeting"
    /\ status' = [status EXCEPT ![k] = "greeted"]
    /\ toAgent' = [toAgent EXCEPT ![k] = Append(@, Ack)]
    /\ UNCHANGED <<registry, toHub, callVars, storeVars, hubVars, agentVars>>

(* The connection's handler takes the next tool_execute_result.  A first   *)
(* result is stored and will be broadcast after the audit event; of a      *)
(* duplicate only the audit event is sent.                                 *)
HubReceive(k) ==
    /\ publishing[k] = None
    /\ status[k] \in {"open", "broken"}
    /\ toHub[k] # <<>>
    /\ toHub' = [toHub EXCEPT ![k] = Tail(@)]
    /\ LET m == Head(toHub[k]) IN
         \/ /\ IsNew(m)
            /\ Complete(m)
            /\ publishing' = [publishing EXCEPT ![k] = m]
         \/ /\ ~IsNew(m)
            /\ UNCHANGED <<storeVars, publishing>>
    /\ UNCHANGED <<callVars, status, registry, toAgent, published, agentVars>>

(* Mutant: nothing is broadcast if the agent left during the audit event. *)
HubPublishIfOpen(k) ==
    /\ publishing[k] # None
    /\ LET m == publishing[k] IN
         published' = IF status[k] = "open"
                      THEN [published EXCEPT ![m.req] = Append(@, m)] ELSE published
    /\ publishing' = [publishing EXCEPT ![k] = None]
    /\ UNCHANGED <<callVars, storeVars, connVars, agentVars>>

(* TOOL_EXECUTE_RESULT goes to the session's clients. *)
HubPublish(k) ==
    /\ publishing[k] # None
    /\ LET m == publishing[k] IN
         published' = [published EXCEPT ![m.req] = Append(@, m)]
    /\ publishing' = [publishing EXCEPT ![k] = None]
    /\ UNCHANGED <<callVars, storeVars, connVars, agentVars>>

(* The handler's finally clause: the registry entry of the agent is        *)
(* removed, whichever connection registered it.                            *)
HubUnregister(k) ==
    /\ status[k] = "broken"
    /\ toHub[k] = <<>>
    /\ publishing[k] = None
    /\ status' = [status EXCEPT ![k] = "closed"]
    /\ registry' = NoConn
    /\ UNCHANGED <<toAgent, toHub, callVars, storeVars, hubVars, agentVars>>

-----------------------------------------------------------------------------
(* The agent process                                                       *)

(* The reply to the register message was received. *)
AgentOnline(k) ==
    /\ status[k] = "greeted"
    /\ toAgent[k] # <<>>
    /\ Head(toAgent[k]) = Ack
    /\ status' = [status EXCEPT ![k] = "open"]
    /\ toAgent' = [toAgent EXCEPT ![k] = Tail(@)]
    /\ UNCHANGED <<registry, toHub, callVars, storeVars, hubVars, agentVars>>

(* A command overtook the reply: the agent reads it as a failed            *)
(* registration and drops the connection, and the command with it.         *)
AgentMisread(k) ==
    /\ status[k] \in {"greeting", "greeted"}
    /\ toAgent[k] # <<>>
    /\ Head(toAgent[k]) # Ack
    /\ status' = [status EXCEPT ![k] = "broken"]
    /\ toAgent' = [toAgent EXCEPT ![k] = <<>>]
    /\ UNCHANGED <<registry, toHub, callVars, storeVars, hubVars, agentVars>>

(* Mutant: the dispatcher does not look a request up before running it. *)
Forgotten(m) == None

Remembered(m) == cache[m.req]

(* Mutant: a reply reports success whatever happened. *)
ReplyOk(m, out) == [req |-> m.req, cmd |-> m.cmd, out |-> "ok"]

Reply(m, out) == [req |-> m.req, cmd |-> m.cmd, out |-> out]

(* LocalToolDispatcher.dispatch: a remembered reply is sent again; a       *)
(* command refused before its handler, or whose handler raises, leaves     *)
(* nothing behind; only a success is remembered.                           *)
Dispatch(m, reply) ==
    \/ /\ Remembered(m) # None
       /\ reply = Remembered(m)
       /\ UNCHANGED <<cache, ran>>
    \/ /\ Remembered(m) = None
       /\ reply = Reply(m, "rejected")
       /\ UNCHANGED <<cache, ran>>
    \/ /\ Remembered(m) = None
       /\ \E out \in {"ok", "failed"} :
            /\ reply = Reply(m, out)
            /\ ran' = [ran EXCEPT ![m.req] =
                         Append(@, [cmd |-> m.cmd, out |-> out, life |-> life])]
            /\ cache' = IF out = "ok" THEN [cache EXCEPT ![m.req] = reply] ELSE cache

(* The receive loop runs the next command and sends the reply; a command   *)
(* still buffered when the connection died runs too, and its reply is the  *)
(* last thing that loop attempts.                                          *)
AgentHandle(k) ==
    /\ status[k] \in {"open", "broken", "closed"}
    /\ toAgent[k] # <<>>
    /\ \E reply \in Result :
         /\ Dispatch(Head(toAgent[k]), reply)
         /\ toHub' = IF status[k] = "open"
                     THEN [toHub EXCEPT ![k] = Append(@, reply)] ELSE toHub
    /\ toAgent' = [toAgent EXCEPT ![k] = IF status[k] = "open" THEN Tail(@) ELSE <<>>]
    /\ UNCHANGED <<status, registry, callVars, storeVars, hubVars, life>>

-----------------------------------------------------------------------------
(* Failures                                                                *)

(* What the peer still reads of a channel when its connection dies. *)
Prefixes(s) == {SubSeq(s, 1, i) : i \in 0..Len(s)}

Drop(k) ==
    /\ status[k] \in {"greeting", "greeted", "open"}
    /\ status' = [status EXCEPT ![k] = "broken"]
    /\ \E s \in Prefixes(toAgent[k]) :
         /\ status[k] # "open" => s = <<>>   \* not yet in its receive loop
         /\ toAgent' = [toAgent EXCEPT ![k] = s]
    /\ \E s \in Prefixes(toHub[k]) : toHub' = [toHub EXCEPT ![k] = s]
    /\ UNCHANGED <<registry, callVars, storeVars, hubVars, agentVars>>

(* The agent process restarts: its connection dies, its cache is lost. *)
AgentCrash ==
    /\ life < MaxCrashes
    /\ life' = life + 1
    /\ cache' = [r \in Requests |-> None]
    /\ status' = [k \in Conns |-> IF status[k] \in {"greeting", "greeted", "open"}
                                  THEN "broken" ELSE status[k]]
    /\ toAgent' = [k \in Conns |-> <<>>]
    /\ UNCHANGED <<registry, toHub, callVars, storeVars, hubVars, ran>>

-----------------------------------------------------------------------------
CallStep(c) ==
    \/ \E r \in Requests : ReturnCached(c, r) \/ Refuse(c, r) \/ Register(c, r)
    \/ SendStep(c)
    \/ Await(c)

ConnStep(k) ==
    \/ HubRegister(k) \/ HubAck(k) \/ HubReceive(k) \/ HubPublish(k) \/ HubUnregister(k)
    \/ AgentOnline(k) \/ AgentMisread(k) \/ AgentHandle(k)
    \/ Drop(k)

Next == (\E c \in Calls : CallStep(c)) \/ (\E k \in Conns : ConnStep(k)) \/ AgentCrash

(* The event loop runs what is ready: a suspended broadcast ends, a timer  *)
(* fires.  Nothing is assumed of the agent or of the network.              *)
Fairness ==
    /\ \A c \in Calls : WF_vars(SendStep(c)) /\ WF_vars(Await(c))
    /\ \A k \in Conns : WF_vars(HubPublish(k))

Spec == Init /\ [][Next]_vars /\ Fairness

-----------------------------------------------------------------------------
(* Properties                                                              *)

(* Types of the variables. *)
TypeOK ==
    /\ pc \in [Calls -> {"idle", "auditing", "waiting"} \cup Ended]
    /\ req \in [Calls -> Requests \cup {None}]
    /\ link \in [Calls -> Conns \cup {NoConn}]
    /\ fut \in [Calls -> Calls \cup {None}]
    /\ ret \in [Calls -> Result \cup {None}]
    /\ pending \in [Requests -> Calls \cup {None}]
    /\ future \in [Calls -> {"none", "open", "cancelled", "done"}]
    /\ value \in [Calls -> Result \cup {None}]
    /\ completed \in [Requests -> Result \cup {None}]
    /\ status \in [Conns -> {"unused", "greeting", "greeted", "open", "broken", "closed"}]
    /\ registry \in Conns \cup {NoConn}
    /\ toAgent \in [Conns -> Seq(Command \cup {Ack})]
    /\ toHub \in [Conns -> Seq(Result)]
    /\ publishing \in [Conns -> Result \cup {None}]
    /\ published \in [Requests -> Seq(Result)]
    /\ cache \in [Requests -> Result \cup {None}]
    /\ life \in Nat
    /\ ran \in [Requests -> Seq(Run)]

(* No lost wake-up: as long as the future a call waits for (or is about to *)
(* wait for) is undecided, the pending table leads from its request to     *)
(* that very future, so that the answer which arrives reaches every caller *)
(* of the request (register_pending, complete, fail_pending).              *)
WaiterIsReachable ==
    \A c \in Calls :
        pc[c] \in {"auditing", "waiting"} /\ future[fut[c]] = "open"
            => pending[req[c]] = fut[c]

(* Callers agree: whatever connection, retry or cache the answer came      *)
(* through, execute_tool returns the one stored result of the request.     *)
CallersAgree ==
    \A c \in Calls :
        pc[c] = "returned" => ret[c] # None /\ ret[c] = completed[req[c]]

(* The session hears of a request's result at most once, and what it hears *)
(* is the stored result, though results of one request may be handled on   *)
(* two connections and the broadcast comes after an await.                 *)
PublishedOnce ==
    \A r \in Requests : published[r] \in {<<>>, <<completed[r]>>}

(* In one life of the agent process, no handler runs again for a request   *)
(* whose handler has succeeded, however often the command is delivered.    *)
NoRunAfterSuccess ==
    \A r \in Requests : \A i, j \in DOMAIN ran[r] :
        i < j /\ ran[r][i].out = "ok" => ran[r][i].life < ran[r][j].life

(* A stored result that says a handler ran is that of a handler execution  *)
(* of this very request, with that outcome.                                *)
ResultHasRun ==
    \A r \in Requests :
        completed[r] # None /\ completed[r].out # "rejected" =>
            \E i \in DOMAIN ran[r] : /\ ran[r][i].cmd = completed[r].cmd
                                     /\ ran[r][i].out = completed[r].out

(* What docs/PC_AGENT.md says: a duplicate request_id is not executed      *)
(* twice by a running agent.                                               *)
NotExecutedTwice ==
    \A r \in Requests : \A i, j \in DOMAIN ran[r] :
        i # j => ran[r][i].life # ran[r][j].life

(* Every call that got past registration ends, even if the agent never     *)
(* answers, its connection dies, or another caller of the same request     *)
(* times out first.                                                        *)
EveryCallEnds == \A c \in Calls : (pc[c] = "auditing") ~> (pc[c] \in Ended)

(* A result the hub has stored is eventually broadcast. *)
StoredIsPublished ==
    \A r \in Requests : (completed[r] # None) ~> (published[r] # <<>>)

(* The service this implements. *)
ServiceState(c) ==
    CASE pc[c] = "idle" -> "idle"
      [] pc[c] \in {"auditing", "waiting"} -> "open"
      [] pc[c] = "returned" -> "answered"
      [] OTHER -> "failed"

Service == INSTANCE ToolService
    WITH Answers <- Result, state <- [c \in Calls |-> ServiceState(c)],
         asked <- req, reply <- ret, answer <- completed, announced <- published

ImplementsService == Service!Spec
=============================================================================
