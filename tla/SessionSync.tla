---------------------------- MODULE SessionSync ----------------------------
(***************************************************************************)
(* One repair session shared by several client devices: the session in the *)
(* hub's memory, its snapshot on disk, the handlers of the clients'        *)
(* WebSocket connections, the hub's event loop, and each client's copy.    *)
(*                                                                         *)
(* A handler that broadcasts hands one send task per registered device to  *)
(* the event loop and goes on when all of them have run; other handlers    *)
(* run in between.  What a handler sends itself is written at once and     *)
(* overtakes the tasks that wait.  A written value is a number, unique to  *)
(* the write.                                                              *)
(***************************************************************************)
EXTENDS Naturals, SequencesExt

CONSTANTS Devices,      \* device_ids
          Seeders,      \* devices that connect with seed_demo
          Requests,     \* kinds of mutation the clients and the agent send
          MaxConns,     \* bound: connections opened by all devices together
          MaxWrites,    \* bound: writes to the session
          MaxRefusals,  \* bound: requests refused
          MaxRestarts,  \* bound: restarts of the hub
          None          \* no device

Announced == {"device", "issue", "pause", "resume", "core", "tests"}
Unannounced == {"associate", "detected", "chat"}

ASSUME DevicesAssumption ==
    IsFiniteSet(Devices) /\ None \notin Devices /\ Seeders \subseteq Devices
ASSUME RequestsAssumption ==
    Requests \subseteq Announced \cup Unannounced \cup {"rest", "tool", "presence"}
ASSUME BoundAssumption ==
    {MaxConns, MaxWrites, MaxRefusals, MaxRestarts} \subseteq Nat

(* The parts of a session; "core" is assistant_status, "tests" the         *)
(* diagnostics, "association" the device_context, "agent" the pc_agent.    *)
Context == {"device", "issue", "status"}
Fields  == Context \cup {"core", "tests", "association", "detected", "agent"}

Conns    == 1..MaxConns
NoConn   == 0
Agent    == MaxConns + 1       \* the handler of the PC agent's connection
Handlers == Conns \cup {Agent}

VARIABLES
    session,   \* RealtimeSessionData: version, fields, messages, paused
    saved,     \* realtime_snapshots
    clock,     \* history: number of writes so far
    history,   \* history: the context at each version
    acked,     \* history: newest acknowledged write of each field, and messages
    silent,    \* history: per device, the fields whose last write no message
               \* announces to it, or an older announcement may follow
    refusals, restarts,                       \* bounded counters
    ready,     \* the event loop's queue: send tasks and handlers to resume
    running,   \* the handler that goes on without yielding
    pc, req,   \* handlers: where they await, and the request in progress
    reg,       \* _ws_connections: device -> connection
    dev, up, chan, asks,         \* connections: device, transport, messages to
                                 \* the client, its unread snapshot requests
    link, again, view, ref,      \* clients: connection, whether the next one is
                                 \* a reconnect, state, stateVersionRef
    synced,    \* history: clients with a snapshot from their connection
    jumped     \* history: clients whose version passed over an update since then

sessionVars == <<session, clock, history, silent>>
boundVars   == <<refusals, restarts>>
loopVars    == <<ready, running>>
connVars    == <<dev, up, chan, asks>>
clientVars  == <<link, again, view, ref, synced, jumped>>
vars == <<sessionVars, saved, acked, boundVars, loopVars, pc, req, reg, connVars, clientVars>>

Unset   == [f \in Fields |-> 0]
Empty   == [v |-> 0, data |-> Unset, msgs |-> <<>>]
Nothing == [kind |-> "none", stamp |-> 0]
ContextOf(s) == [f \in Context |-> s.data[f]]

Init ==
    /\ session = [v |-> 0, data |-> Unset, msgs |-> <<>>, paused |-> FALSE]
    /\ saved = session
    /\ clock = 0
    /\ history = [v \in 0..MaxWrites |-> [f \in Context |-> 0]]
    /\ acked = [data |-> Unset, msgs |-> {}]
    /\ silent = [d \in Devices |-> {}]
    /\ refusals = 0 /\ restarts = 0
    /\ ready = <<>>
    /\ running = NoConn
    /\ pc = [h \in Handlers |-> IF h = Agent THEN "reading" ELSE "unused"]
    /\ req = [h \in Handlers |-> Nothing]
    /\ reg = [d \in Devices |-> NoConn]
    /\ dev = [k \in Conns |-> None]
    /\ up = [k \in Conns |-> FALSE]
    /\ chan = [k \in Conns |-> <<>>]
    /\ asks = [k \in Conns |-> 0]
    /\ link = [d \in Devices |-> NoConn]
    /\ again = [d \in Devices |-> FALSE]
    /\ view = [d \in Devices |-> Empty]
    /\ ref = [d \in Devices |-> 0]
    /\ synced = {}
    /\ jumped = {}

-----------------------------------------------------------------------------
(* The event loop                                                          *)

Send(d, m) == [task |-> "send", to |-> d, msg |-> m]
Resume(h)  == [task |-> "resume", handler |-> h]

Registered == {d \in Devices : reg[d] # NoConn}

(* broadcast_ws: the handler h awaits one task per target; without a       *)
(* target it goes on at once.  q is the queue it starts from.              *)
Await(q, h, targets, tasks) ==
    IF targets = {}
    THEN ready' = q /\ running' = h
    ELSE ready' = Append(q \o tasks, Resume(h)) /\ running' = NoConn

Broadcast(q, h, m) ==
    Await(q, h, Registered, SetToSeq({Send(d, m) : d \in Registered}))

(* The loop gives the turn to handler h. *)
Resumed(h) ==
    \/ running = h
    \/ /\ running = NoConn
       /\ ready # <<>>
       /\ ready[1] = Resume(h)

Rest == IF running = NoConn THEN Tail(ready) ELSE ready

(* _send_ws: written to the device's registered connection, if any; lost   *)
(* when the connection is dead.                                            *)
Written(d, m) ==
    IF reg[d] # NoConn /\ up[reg[d]]
    THEN [chan EXCEPT ![reg[d]] = Append(@, m)] ELSE chan

RunSend ==
    /\ running = NoConn
    /\ ready # <<>>
    /\ ready[1].task = "send"
    /\ chan' = Written(ready[1].to, ready[1].msg)
    /\ ready' = Tail(ready)
    /\ UNCHANGED <<sessionVars, saved, acked, boundVars, running, pc, req, reg,
                   dev, up, asks, clientVars>>

-----------------------------------------------------------------------------
(* The session                                                             *)

(* The fields fs get the value of this write. *)
Wrote(s, fs) ==
    [s EXCEPT !.data = [f \in Fields |-> IF f \in fs THEN clock + 1 ELSE s.data[f]]]

(* The session becomes s in one more write; the fields of hidden are       *)
(* written without a message that says so, those of told with one.         *)
Commit(s, told, hidden) ==
    /\ clock < MaxWrites
    /\ clock' = clock + 1
    /\ session' = s
    /\ history' = IF s.v > session.v THEN [history EXCEPT ![s.v] = ContextOf(s)]
                  ELSE history
    /\ silent' = [d \in Devices |-> (silent[d] \ told) \cup hidden]

Unseeded ==
    /\ \A f \in {"device", "issue", "tests"} : session.data[f] = 0
    /\ session.msgs = <<>>

Seeded ==
    [Wrote(session, {"device", "issue", "status", "tests"})
        EXCEPT !.v = @ + 1, !.msgs = <<clock + 1>>, !.paused = FALSE]

(* connect_device up to its awaited broadcast of DEVICE_CONNECTED.  A      *)
(* seeding device fills an empty session and no message says so.  Handlers *)
(* start in the order of their connections.                                *)
HubConnect(k) ==
    LET others == Registered \ {dev[k]} IN
    /\ running = NoConn
    /\ pc[k] = "accepted"
    /\ \A j \in Conns : j < k => pc[j] # "accepted"
    /\ pc' = [pc EXCEPT ![k] = "connecting"]
    /\ IF dev[k] \in Seeders /\ Unseeded
       THEN Commit(Seeded, {}, {"device", "issue", "status", "tests", "messages"})
       ELSE UNCHANGED sessionVars
    /\ Await(ready, k, others, <<>>)
    /\ UNCHANGED <<saved, acked, boundVars, req, reg, connVars, clientVars>>

Snapshot(s) == [kind |-> "snapshot", v |-> s.v, data |-> s.data, msgs |-> s.msgs]

(* Mutant: the first snapshot is the saved one, which a handler in its     *)
(* broadcast has still to replace.                                         *)
GreetSaved(k) ==
    /\ pc[k] = "connecting"
    /\ Resumed(k)
    /\ ready' = Rest
    /\ running' = NoConn
    /\ reg' = [reg EXCEPT ![dev[k]] = k]
    /\ chan' = IF up[k] THEN [chan EXCEPT ![k] = Append(@, Snapshot(saved))] ELSE chan
    /\ pc' = [pc EXCEPT ![k] = "reading"]
    /\ UNCHANGED <<sessionVars, saved, acked, boundVars, req, dev, up, asks, clientVars>>

(* The fields of which d may get an older announcement, whatever snapshot  *)
(* it gets now: one waits in the loop, or a handler has still to make it.  *)
Outdated(d) ==
    {f \in Fields :
        \/ \E i \in DOMAIN ready :
              /\ ready[i].task = "send" /\ ready[i].to = d
              /\ ready[i].msg.kind = "set" /\ ready[i].msg.field = f
              /\ ready[i].msg.val # session.data[f]
        \/ /\ f = "core"
           /\ \E h \in Handlers : /\ pc[h] = "saving" /\ req[h].kind = "core"
                                  /\ req[h].stamp # session.data["core"]}

(* persistable_snapshot: the agent is not kept. *)
Persistable(s) == [s EXCEPT !.data["agent"] = 0]

(* The rest of connect_device, register_ws and the first snapshot. *)
HubGreet(k) ==
    /\ pc[k] = "connecting"
    /\ Resumed(k)
    /\ ready' = Rest
    /\ running' = NoConn
    /\ saved' = Persistable(session)
    /\ reg' = [reg EXCEPT ![dev[k]] = k]
    /\ chan' = IF up[k] THEN [chan EXCEPT ![k] = Append(@, Snapshot(session))] ELSE chan
    /\ pc' = [pc EXCEPT ![k] = "reading"]
    /\ silent' = [silent EXCEPT ![dev[k]] = Outdated(dev[k])]
    /\ UNCHANGED <<session, clock, history, acked, boundVars, req, dev, up, asks, clientVars>>

FieldOf(kind) ==
    CASE kind \in {"pause", "resume"} -> "status"
      [] kind = "associate" -> "association"
      [] OTHER -> kind

(* Mutant: the request's kind is taken for the field it changes. *)
UpdateUnmapped(kind) ==
    [kind |-> "update", v |-> session.v + 1, field |-> kind, val |-> clock + 1]

Update(kind) ==
    [kind |-> "update", v |-> session.v + 1, field |-> FieldOf(kind), val |-> clock + 1]
Set(f, x) == [kind |-> "set", field |-> f, val |-> x]

(* A mutation is applied, its version assigned and its event broadcast in  *)
(* one step; the snapshot is saved only after the broadcast.               *)
Mutate(h, kind, next, m) ==
    /\ running = NoConn
    /\ pc[h] = "reading"
    /\ kind \in Requests
    /\ Commit([next EXCEPT !.v = @ + 1],
              IF kind = "chat" THEN {} ELSE {FieldOf(kind)},
              IF kind = "associate" THEN {"device"} ELSE {})
    /\ Broadcast(ready, h, m)
    /\ req' = [req EXCEPT ![h] = [kind |-> kind, stamp |-> clock + 1]]
    /\ pc' = [pc EXCEPT ![h] = "saving"]
    /\ UNCHANGED <<saved, acked, boundVars, reg, connVars, clientVars>>

(* update_repair_context, set_diagnosis_paused, set_assistant_status and   *)
(* update_diagnostic_measurement: SESSION_STATE_UPDATED.                   *)
HubUpdate(k, kind) ==
    /\ kind \in Announced
    /\ kind = "tests" => ~session.paused /\ session.data["tests"] # 0
    /\ Mutate(k, kind,
              [Wrote(session, {FieldOf(kind)}) EXCEPT
                  !.paused = IF FieldOf(kind) = "status" THEN kind = "pause" ELSE @],
              Update(kind))

(* add_chat_message *)
HubChat(k) ==
    Mutate(k, "chat", [session EXCEPT !.msgs = Append(@, clock + 1)],
           [kind |-> "chat", msg |-> clock + 1])

(* associate_repair_device, unassociate_repair_device: the session's       *)
(* device changes with the association, the event carries the latter.      *)
HubAssociate(k) ==
    Mutate(k, "associate", Wrote(session, {"association", "device"}),
           Set("association", clock + 1))

(* update_detected_devices, called by the handler of the agent. *)
HubDetected ==
    Mutate(Agent, "detected", Wrote(session, {"detected"}), Set("detected", clock + 1))

(* The request is over and acknowledged. *)
Finish(h) ==
    /\ pc' = [pc EXCEPT ![h] = "reading"]
    /\ req' = [req EXCEPT ![h] = Nothing]
    /\ acked' = IF req[h].kind = "chat"
                THEN [acked EXCEPT !.msgs = @ \cup {req[h].stamp}]
                ELSE [acked EXCEPT !.data[FieldOf(req[h].kind)] =
                          IF @ > req[h].stamp THEN @ ELSE req[h].stamp]

(* Mutant: the snapshot that is saved is the one before the last write. *)
SaveStale(h) ==
    /\ pc[h] = "saving"
    /\ Resumed(h)
    /\ UNCHANGED <<sessionVars, saved, boundVars, reg, connVars, clientVars>>
    /\ ready' = Rest /\ running' = NoConn /\ Finish(h)

(* Mutant: the legacy event carries what was saved before. *)
EchoSaved(h) ==
    LET kind == req[h].kind IN
    /\ pc[h] = "saving"
    /\ kind \in {"core", "tests"}
    /\ Resumed(h)
    /\ saved' = Persistable(session)
    /\ pc' = [pc EXCEPT ![h] = "echoing"]
    /\ Broadcast(Rest, h, Set(kind, saved.data[kind]))
    /\ UNCHANGED <<sessionVars, acked, boundVars, req, reg, connVars, clientVars>>

(* The broadcast is over: the session as it is now is saved.  A status and *)
(* a measurement are followed by their legacy event: the status of this    *)
(* request, but the diagnostics as they are now.                           *)
HubSave(h) ==
    LET kind == req[h].kind
        x == IF kind = "core" THEN req[h].stamp ELSE session.data["tests"]
    IN
    /\ pc[h] = "saving"
    /\ Resumed(h)
    /\ saved' = Persistable(session)
    /\ \/ /\ kind \in {"core", "tests"}
          /\ pc' = [pc EXCEPT ![h] = "echoing"]
          /\ Broadcast(Rest, h, Set(kind, x))
          /\ UNCHANGED <<acked, req>>
       \/ /\ kind \notin {"core", "tests"}
          /\ Finish(h)
          /\ ready' = Rest
          /\ running' = NoConn
    /\ UNCHANGED <<sessionVars, boundVars, reg, connVars, clientVars>>

HubEchoed(h) ==
    /\ pc[h] = "echoing"
    /\ Resumed(h)
    /\ Finish(h)
    /\ ready' = Rest
    /\ running' = NoConn
    /\ UNCHANGED <<sessionVars, saved, boundVars, reg, connVars, clientVars>>

(* A request is refused (bad value, unknown test, paused diagnosis): the   *)
(* rejection with the session's version overtakes the queued updates.      *)
HubReject(k) ==
    /\ running = NoConn
    /\ pc[k] = "reading"
    /\ refusals < MaxRefusals
    /\ refusals' = refusals + 1
    /\ chan' = Written(dev[k], [kind |-> "rejected", v |-> session.v])
    /\ UNCHANGED <<sessionVars, saved, acked, restarts, loopVars, pc, req, reg, dev,
                   up, asks, clientVars>>

(* Mutant: a request is not answered. *)
SnapshotForgotten(k) ==
    /\ running = NoConn
    /\ pc[k] = "reading"
    /\ asks[k] > 0
    /\ asks' = [asks EXCEPT ![k] = @ - 1]
    /\ UNCHANGED <<sessionVars, saved, acked, boundVars, loopVars, pc, req, reg, dev,
                   up, chan, clientVars>>

(* request_snapshot: answered on whatever connection the device has. *)
HubSnapshot(k) ==
    /\ running = NoConn
    /\ pc[k] = "reading"
    /\ asks[k] > 0
    /\ asks' = [asks EXCEPT ![k] = @ - 1]
    /\ chan' = Written(dev[k], Snapshot(session))
    /\ silent' = [silent EXCEPT ![dev[k]] = @ \cap Outdated(dev[k])]
    /\ UNCHANGED <<session, clock, history, saved, acked, boundVars, loopVars, pc, req, reg, dev,
                   up, clientVars>>

(* disconnect_device up to its awaited broadcast: the connection is dead,  *)
(* or its handler ends it for a message it cannot accept (ValueError).     *)
HubEnd(k) ==
    /\ running = NoConn
    /\ pc[k] = "reading"
    /\ up[k] => refusals < MaxRefusals
    /\ refusals' = IF up[k] THEN refusals + 1 ELSE refusals
    /\ pc' = [pc EXCEPT ![k] = "closing"]
    /\ asks' = [asks EXCEPT ![k] = 0]
    /\ Await(ready, k, Registered, <<>>)
    /\ UNCHANGED <<sessionVars, saved, acked, restarts, req, reg, dev, up, chan,
                   clientVars>>

(* unregister_ws: by device, whichever connection is registered. *)
HubUnregister(k) ==
    /\ pc[k] = "closing"
    /\ Resumed(k)
    /\ ready' = Rest
    /\ running' = NoConn
    /\ pc' = [pc EXCEPT ![k] = "ended"]
    /\ reg' = [reg EXCEPT ![dev[k]] = NoConn]
    /\ up' = [up EXCEPT ![k] = FALSE]
    /\ UNCHANGED <<sessionVars, saved, acked, boundVars, req, dev, chan, asks, clientVars>>

(* POST /api/v1/sessions for the session that exists: no version, no       *)
(* event, not saved.  The request runs on a thread of its own, so anything *)
(* may come between its assignments.                                       *)
RestCreate ==
    /\ "rest" \in Requests
    /\ \E f \in {"device", "issue"} : Commit(Wrote(session, {f}), {}, {f})
    /\ UNCHANGED <<saved, acked, boundVars, loopVars, pc, req, reg, connVars, clientVars>>

(* An event about the field f that has no version, broadcast by a caller   *)
(* of another module: the handler of the agent or of an HTTP request.      *)
Announce(s, told, hidden, f) ==
    /\ running = NoConn
    /\ Commit(s, told, hidden)
    /\ ready' = ready \o SetToSeq({Send(d, Set(f, clock + 1)) : d \in Registered})
    /\ UNCHANGED <<saved, acked, boundVars, running, pc, req, reg, connVars, clientVars>>

(* TOOL_EXECUTION_STARTED, or _COMPLETED without success: the clients set  *)
(* their assistant status, the session keeps its own (_emit_tool_audit).   *)
ToolEvent ==
    /\ "tool" \in Requests
    /\ Announce(session, {}, {"core"}, "core")

(* register_agent, heartbeat, unregister_agent: the session's slot and the *)
(* AGENT_* event about it; no agent and an offline one are the same here.  *)
AgentEvent ==
    /\ "presence" \in Requests
    /\ Announce(Wrote(session, {"agent"}), {"agent"}, {}, "agent")

(* The hub stops and starts again from the saved snapshot. *)
HubRestart ==
    /\ restarts < MaxRestarts
    /\ restarts' = restarts + 1
    /\ session' = saved
    /\ silent' = [d \in Devices |-> {}]
    /\ ready' = <<>>
    /\ running' = NoConn
    /\ pc' = [h \in Handlers |-> IF h = Agent THEN "reading"
                                 ELSE IF pc[h] = "unused" THEN "unused" ELSE "ended"]
    /\ req' = [h \in Handlers |-> Nothing]
    /\ reg' = [d \in Devices |-> NoConn]
    /\ up' = [k \in Conns |-> FALSE]
    /\ asks' = [k \in Conns |-> 0]
    /\ UNCHANGED <<saved, clock, history, acked, refusals, dev, chan, clientVars>>

-----------------------------------------------------------------------------
(* The clients                                                             *)

(* openSocket succeeds; after a reconnection the client asks for a         *)
(* snapshot at once.  A client may give up at any time (scheduleReconnect).*)
Open(d, k) ==
    /\ link[d] = NoConn
    /\ pc[k] = "unused"
    /\ \A j \in Conns : j < k => pc[j] # "unused"
    /\ link' = [link EXCEPT ![d] = k]
    /\ pc' = [pc EXCEPT ![k] = "accepted"]
    /\ dev' = [dev EXCEPT ![k] = d]
    /\ up' = [up EXCEPT ![k] = TRUE]
    /\ asks' = [asks EXCEPT ![k] = IF again[d] THEN 1 ELSE 0]
    /\ UNCHANGED <<sessionVars, saved, acked, boundVars, loopVars, req, reg, chan,
                   again, view, ref, synced, jumped>>

(* onclose: the client keeps what it shows and will reconnect. *)
Dropped(d) ==
    LET k == link[d] IN
    /\ k # NoConn
    /\ ~up[k]
    /\ link' = [link EXCEPT ![d] = NoConn]
    /\ again' = [again EXCEPT ![d] = TRUE]
    /\ chan' = [chan EXCEPT ![k] = <<>>]
    /\ synced' = synced \ {d}
    /\ UNCHANGED <<sessionVars, saved, acked, boundVars, loopVars, pc, req, reg, dev,
                   up, asks, view, ref, jumped>>

(* The page is reloaded: the connection is closed and the state is new. *)
Reload(d) ==
    LET k == link[d] IN
    /\ k # NoConn
    /\ link' = [link EXCEPT ![d] = NoConn]
    /\ again' = [again EXCEPT ![d] = FALSE]
    /\ up' = [up EXCEPT ![k] = FALSE]
    /\ chan' = [chan EXCEPT ![k] = <<>>]
    /\ view' = [view EXCEPT ![d] = Empty]
    /\ ref' = [ref EXCEPT ![d] = 0]
    /\ synced' = synced \ {d}
    /\ jumped' = jumped \ {d}
    /\ UNCHANGED <<sessionVars, saved, acked, boundVars, loopVars, pc, req, reg, dev, asks>>

(* Mutant: one missed version is not noticed. *)
GapOfTwo(d, m) == m.kind = "update" /\ m.v > ref[d] + 2

(* shouldRequestSnapshot: an update past the next version is dropped and a *)
(* snapshot requested.                                                     *)
IsGap(d, m) == m.kind = "update" /\ m.v > ref[d] + 1

(* Mutant: updates are applied whatever their version. *)
AppliedAlways(c, m) ==
    CASE m.kind = "snapshot" -> [v |-> m.v, data |-> m.data, msgs |-> m.msgs]
      [] m.kind = "update"   -> [c EXCEPT !.v = m.v, !.data[m.field] = m.val]
      [] m.kind = "set"      -> [c EXCEPT !.data[m.field] = m.val]
      [] m.kind = "chat"     -> [c EXCEPT !.msgs = Append(@, m.msg)]
      [] m.kind = "rejected" -> [c EXCEPT !.v = IF @ > m.v THEN @ ELSE m.v]

(* The reducer: what the state c becomes with message m. *)
Applied(c, m) ==
    CASE m.kind = "snapshot" -> [v |-> m.v, data |-> m.data, msgs |-> m.msgs]
      [] m.kind = "update"   -> IF m.v <= c.v THEN c
                                ELSE [c EXCEPT !.v = m.v, !.data[m.field] = m.val]
      [] m.kind = "set"      -> [c EXCEPT !.data[m.field] = m.val]
      [] m.kind = "chat"     -> [c EXCEPT !.msgs = Append(@, m.msg)]
      [] m.kind = "rejected" -> [c EXCEPT !.v = IF @ > m.v THEN @ ELSE m.v]

(* The version passes over updates the client may still need: raised by a  *)
(* rejection, or by an update past a gap that stateVersionRef, not yet     *)
(* rendered since a snapshot lowered the version, does not show.           *)
Jumps(d, m) ==
    \/ m.kind = "rejected" /\ m.v > view[d].v
    \/ m.kind = "update" /\ ref[d] > view[d].v /\ m.v > view[d].v + 1

(* onMessage *)
Receive(d) ==
    LET k == link[d]
        m == chan[k][1]
    IN
    /\ k # NoConn
    /\ chan[k] # <<>>
    /\ chan' = [chan EXCEPT ![k] = Tail(@)]
    /\ \/ /\ IsGap(d, m)
          /\ asks' = [asks EXCEPT ![k] = IF up[k] THEN @ + 1 ELSE @]
          /\ UNCHANGED <<view, synced, jumped>>
       \/ /\ ~IsGap(d, m)
          /\ view' = [view EXCEPT ![d] = Applied(@, m)]
          /\ IF m.kind = "snapshot"
             THEN synced' = synced \cup {d} /\ jumped' = jumped \ {d}
             ELSE /\ UNCHANGED synced
                  /\ jumped' = IF Jumps(d, m) THEN jumped \cup {d} ELSE jumped
          /\ UNCHANGED asks
    /\ UNCHANGED <<sessionVars, saved, acked, boundVars, loopVars, pc, req, reg, dev,
                   up, link, again, ref>>

(* The provider is rendered with the current state. *)
Render(d) ==
    /\ ref[d] # view[d].v
    /\ ref' = [ref EXCEPT ![d] = view[d].v]
    /\ UNCHANGED <<sessionVars, saved, acked, boundVars, loopVars, pc, req, reg,
                   connVars, link, again, view, synced, jumped>>

(* A tool panel is opened or closed: the client sets its assistant status. *)
ToolPanel(d) ==
    /\ "tool" \in Requests
    /\ clock < MaxWrites
    /\ clock' = clock + 1
    /\ view' = [view EXCEPT ![d].data["core"] = clock + 1]
    /\ silent' = [silent EXCEPT ![d] = @ \cup {"core"}]
    /\ UNCHANGED <<session, history, saved, acked, boundVars, loopVars, pc, req, reg,
                   connVars, link, again, ref, synced, jumped>>

(* The network: a connection dies. *)
Break(k) ==
    /\ up[k]
    /\ up' = [up EXCEPT ![k] = FALSE]
    /\ UNCHANGED <<sessionVars, saved, acked, boundVars, loopVars, pc, req, reg, dev,
                   chan, asks, clientVars>>

-----------------------------------------------------------------------------
HandlerStep(k) ==
    \/ HubConnect(k) \/ HubGreet(k)
    \/ \E kind \in Announced : HubUpdate(k, kind)
    \/ HubChat(k) \/ HubAssociate(k) \/ HubReject(k) \/ HubSnapshot(k)
    \/ HubEnd(k) \/ HubUnregister(k)

ClientStep(d) ==
    \/ \E k \in Conns : Open(d, k)
    \/ Dropped(d) \/ Reload(d) \/ Receive(d) \/ Render(d) \/ ToolPanel(d)

Next ==
    \/ RunSend
    \/ \E k \in Conns : HandlerStep(k) \/ Break(k)
    \/ \E h \in Handlers : HubSave(h) \/ HubEchoed(h)
    \/ HubDetected \/ RestCreate \/ ToolEvent \/ AgentEvent \/ HubRestart
    \/ \E d \in Devices : ClientStep(d)

(* The loop runs what is ready, handlers read what has arrived, clients    *)
(* process what they receive and render it.                                *)
Fairness ==
    /\ WF_vars(RunSend)
    /\ \A h \in Handlers : WF_vars(HubSave(h) \/ HubEchoed(h))
    /\ \A k \in Conns : /\ WF_vars(HubConnect(k) \/ HubGreet(k) \/ HubUnregister(k))
                        /\ WF_vars(HubSnapshot(k))
                        /\ WF_vars(~up[k] /\ HubEnd(k))
    /\ \A d \in Devices : WF_vars(Receive(d)) /\ WF_vars(Render(d))

Spec == Init /\ [][Next]_vars /\ Fairness
-----------------------------------------------------------------------------
(* Properties                                                              *)

Message ==
    [kind : {"snapshot"}, v : Nat, data : [Fields -> Nat], msgs : Seq(Nat)]
    \cup [kind : {"update"}, v : Nat, field : Fields, val : Nat]
    \cup [kind : {"set"}, field : Fields, val : Nat]
    \cup [kind : {"chat"}, msg : Nat]
    \cup [kind : {"rejected"}, v : Nat]

Task == [task : {"send"}, to : Devices, msg : Message]
        \cup [task : {"resume"}, handler : Handlers]

SessionType == [v : Nat, data : [Fields -> Nat], msgs : Seq(Nat), paused : BOOLEAN]
ViewType    == [v : Nat, data : [Fields -> Nat], msgs : Seq(Nat)]

(* Types of the variables. *)
TypeOK ==
    /\ session \in SessionType
    /\ saved \in SessionType
    /\ clock \in Nat
    /\ history \in [0..MaxWrites -> [Context -> Nat]]
    /\ acked \in [data : [Fields -> Nat], msgs : SUBSET Nat]
    /\ silent \in [Devices -> SUBSET (Fields \cup {"messages"})]
    /\ refusals \in Nat /\ restarts \in Nat
    /\ ready \in Seq(Task)
    /\ running \in Handlers \cup {NoConn}
    /\ pc \in [Handlers -> {"unused", "accepted", "connecting", "reading", "saving",
                            "echoing", "closing", "ended"}]
    /\ req \in [Handlers -> [kind : Announced \cup Unannounced \cup {"none"}, stamp : Nat]]
    /\ reg \in [Devices -> Conns \cup {NoConn}]
    /\ dev \in [Conns -> Devices \cup {None}]
    /\ up \in [Conns -> BOOLEAN]
    /\ chan \in [Conns -> Seq(Message)]
    /\ asks \in [Conns -> Nat]
    /\ link \in [Devices -> Conns \cup {NoConn}]
    /\ again \in [Devices -> BOOLEAN]
    /\ view \in [Devices -> ViewType]
    /\ ref \in [Devices -> Nat]
    /\ synced \subseteq Devices /\ jumped \subseteq Devices

(* What an acknowledged request wrote survives a crash of the hub: it is   *)
(* in the saved snapshot, or a later write of the same field is, though    *)
(* handlers save in another order than they write (_persist_session).      *)
AckedIsDurable ==
    /\ \A f \in Fields : acked.data[f] <= saved.data[f]
    /\ acked.msgs \subseteq ToSet(saved.msgs)

(* The context a client shows is the one the session had at the client's   *)
(* version: no update was lost, applied twice or out of order, though      *)
(* snapshots overtake updates and versions are taken by events that carry  *)
(* none; clients whose version jumped are excepted (APPLY_STATE_UPDATE,     *)
(* shouldRequestSnapshot, _broadcast_state_update).                        *)
ContextAt(d) ==
    d \in synced /\ up[link[d]] =>
        \A f \in Context : view[d].data[f] = history[view[d].v][f]
ContextAtVersion == \A d \in Devices \ jumped : ContextAt(d)

(* What docs/ARCHITECTURE.md says of state_version: a client that misses a *)
(* version asks for a snapshot and invents no state, so the context it     *)
(* shows is that of its version.                                           *)
VersionMeansState == \A d \in Devices : ContextAt(d)

Connected(d) == link[d] # NoConn /\ up[link[d]] /\ reg[d] = link[d]

(* When nothing is on its way a registered client shows what the session   *)
(* holds, except what was written without a message that says so, what an  *)
(* older announcement may have replaced, and the assistant status after an *)
(* event or a panel that changed it in clients only (silent; broadcast_ws  *)
(* with the unversioned events, _send_ws).                                 *)
QuietAgreement ==
    ready = <<>> /\ running = NoConn =>
        \A d \in Devices \ jumped :
            Connected(d) /\ chan[link[d]] = <<>> /\ asks[link[d]] = 0 =>
                /\ \A f \in Fields \ silent[d] : view[d].data[f] = session.data[f]
                /\ "messages" \notin silent[d] => ToSet(session.msgs) \subseteq ToSet(view[d].msgs)

(* On a connection that has brought a snapshot a client never goes back to *)
(* an earlier version, though snapshots, rejections and updates overtake   *)
(* one another (STATE_UPDATE_REJECTED, APPLY_SNAPSHOT).                    *)
VersionNeverFalls ==
    [][\A d \in Devices :
          d \in synced /\ link'[d] = link[d] => view'[d].v >= view[d].v]_vars

(* What docs/ARCHITECTURE.md says of SESSION_SNAPSHOT: the whole state on  *)
(* request_snapshot, here for a request handled on a live connection.      *)
SnapshotIsSent ==
    [][\A k \in Conns :
          asks'[k] < asks[k] /\ pc'[k] = "reading" /\ up[k] /\ link[dev[k]] = k
              => chan'[k] # chan[k]]_vars

(* An update on its way to a client reaches it, by itself or in a          *)
(* snapshot, unless the client's connection or registration is lost.       *)
Coming(d, v) ==
    \E i \in DOMAIN ready :
        /\ ready[i].task = "send" /\ ready[i].to = d
        /\ ready[i].msg.kind = "update" /\ ready[i].msg.v = v
UpdateArrives ==
    \A d \in Devices : \A v \in 1..MaxWrites :
        Coming(d, v) ~> (view[d].v >= v \/ ~Connected(d))
=============================================================================
