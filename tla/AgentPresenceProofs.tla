------------------------ MODULE AgentPresenceProofs ------------------------
(***************************************************************************)
(* Proofs about AgentPresence, for every set of agents, every number of    *)
(* connections and every reconnect_max_attempts.                           *)
(***************************************************************************)
EXTENDS AgentPresence, TLAPS

(* A connection in use belongs to an agent, and an agent past its connect  *)
(* runs on a connection.                                                   *)
LinksInUse ==
    /\ \A k \in Conns : handler[k] # "unused" => owner[k] \in Agents
    /\ \A a \in Agents : state[a] \in {"REGISTERING", "ONLINE"} => link[a] \in Conns

IInv ==
    /\ TypeOK
    /\ LinksInUse
    /\ SlotIsRegistered
    /\ RegisteredIsServed

-----------------------------------------------------------------------------
(* Initially nobody is connected, registered. *)
LEMMA InitIInv == Init => IInv
<1> USE NoneAssumption, BoundAssumption DEF Event, Conns, NoConn
<1>1. Init => TypeOK /\ LinksInUse
  BY DEF Init, TypeOK, LinksInUse
<1>2. Init => SlotIsRegistered /\ RegisteredIsServed
  BY DEF Init, SlotIsRegistered, RegisteredIsServed
<1> QED
  BY <1>1, <1>2 DEF IInv

(* A step that leaves the hub's side of the connections alone. *)
LEMMA HubFrame ==
    ASSUME SlotIsRegistered, RegisteredIsServed,
           UNCHANGED <<owner, handler, hubVars>>
    PROVE  (SlotIsRegistered /\ RegisteredIsServed)'
BY DEF SlotIsRegistered, RegisteredIsServed, hubVars

(* An event that names an agent. *)
LEMMA EventType ==
    ASSUME NEW a \in Agents, NEW online \in BOOLEAN
    PROVE  Event(a, online) \in [agent : Agents \cup {None}, online : BOOLEAN]
BY DEF Event

(* The reconnection loop preserves the invariant: what it does to its own  *)
(* state and to the transport is not what the registry depends on.         *)
LEMMA AgentPreserves == ASSUME IInv, NEW a \in Agents, AgentStep(a) PROVE IInv'
<1> USE BoundAssumption DEF IInv, TypeOK, LinksInUse, agentVars, connVars, hubVars, Conns, NoConn
<1>1. CASE StartConnect(a)
  BY <1>1, HubFrame DEF StartConnect
<1>2. CASE ConnectFails(a)
  BY <1>2, HubFrame DEF ConnectFails, Backoff
<1>3. ASSUME NEW k \in Conns, Connected(a, k) PROVE IInv'
  <2>1. TypeOK' /\ LinksInUse'
    BY <1>3 DEF Connected
  <2>2. (SlotIsRegistered /\ RegisteredIsServed)'
    BY <1>3 DEF Connected, SlotIsRegistered, RegisteredIsServed
  <2> QED
    BY <2>1, <2>2
<1>4. CASE Online(a)
  BY <1>4, HubFrame DEF Online
<1>5. CASE Lost(a)
  <2>1. TypeOK' /\ LinksInUse'
    BY <1>5 DEF Lost, Backoff
  <2> QED
    BY <1>5, <2>1, HubFrame DEF Lost
<1>6. CASE Misread(a)
  <2>1. TypeOK' /\ LinksInUse'
    BY <1>6 DEF Misread, Backoff
  <2> QED
    BY <1>6, <2>1, HubFrame DEF Misread
<1>7. CASE Beat(a)
  BY <1>7, HubFrame DEF Beat
<1>8. CASE ClosedOk(a)
  BY <1>8, HubFrame DEF ClosedOk
<1>9. CASE Shutdown(a)
  BY <1>9, HubFrame DEF Shutdown
<1> QED
  BY <1>1, <1>2, <1>3, <1>4, <1>5, <1>6, <1>7, <1>8, <1>9
  DEF AgentStep, ConnectStep, ReceiveStep

(* The hub's handlers preserve it: a registration is made for the owner of *)
(* the connection whose handler makes it, and a handler that ends removes  *)
(* the registration of that owner.                                         *)
LEMMA HandlerPreserves == ASSUME IInv, NEW k \in Conns, HandlerStep(k) PROVE IInv'
<1> USE NoneAssumption, BoundAssumption
    DEF IInv, TypeOK, LinksInUse, agentVars, connVars, hubVars, Event, Conns, NoConn
<1>1. CASE HubRegister(k)
  <2>1. owner[k] \in Agents
    BY <1>1 DEF HubRegister
  <2>2. TypeOK' /\ LinksInUse'
    BY <1>1, <2>1 DEF HubRegister
  <2>3. SlotIsRegistered'
    BY <1>1, <2>1 DEF HubRegister, SlotIsRegistered
  <2>4. RegisteredIsServed'
    BY <1>1, <2>1 DEF HubRegister, RegisteredIsServed
  <2> QED
    BY <2>2, <2>3, <2>4
<1>2. CASE HubReply(k)
  <2>1. TypeOK' /\ LinksInUse'
    BY <1>2 DEF HubReply
  <2>2. (SlotIsRegistered /\ RegisteredIsServed)'
    BY <1>2 DEF HubReply, SlotIsRegistered, RegisteredIsServed
  <2> QED
    BY <2>1, <2>2
<1>3. CASE HubHeartbeat(k)
  <2>1. owner[k] \in Agents
    BY <1>3 DEF HubHeartbeat
  <2> HIDE DEF Event
  <2>2. TypeOK' /\ LinksInUse'
    BY <1>3, <2>1, EventType DEF HubHeartbeat
  <2>3. (SlotIsRegistered /\ RegisteredIsServed)'
    BY <1>3, <2>1 DEF HubHeartbeat, SlotIsRegistered, RegisteredIsServed
  <2> QED
    BY <2>2, <2>3
<1>4. CASE HubEnd(k)
  <2>1. owner[k] \in Agents
    BY <1>4 DEF HubEnd
  <2> HIDE DEF Event
  <2>2. TypeOK' /\ LinksInUse'
    BY <1>4, <2>1, EventType DEF HubEnd, Unregister
  <2>3. SlotIsRegistered'
    BY <1>4, <2>1 DEF HubEnd, Unregister, SlotIsRegistered
  <2>4. ASSUME NEW b \in Agents, registry'[b] # NoConn
        PROVE  /\ owner'[registry'[b]] = b
               /\ handler'[registry'[b]] \in {"announcing", "serving"}
    <3>1. registry[b] # NoConn /\ registry'[b] = registry[b]
      BY <1>4, <2>1, <2>4 DEF HubEnd, Unregister
    <3>2. registry[b] \in Conns /\ owner[registry[b]] = b
          /\ handler[registry[b]] \in {"announcing", "serving"}
      BY <3>1 DEF RegisteredIsServed
    <3>3. registry[b] # k
      <4>1. CASE handler[k] = "reading"
        BY <3>2, <4>1
      <4>2. CASE handler[k] = "serving"
        <5>1. registry'[owner[k]] = NoConn
          BY <1>4, <2>1, <4>2 DEF HubEnd, Unregister
        <5> QED
          BY <2>4, <3>2, <5>1
      <4> QED
        BY <1>4, <4>1, <4>2 DEF HubEnd
    <3>4. handler' = [handler EXCEPT ![k] = "ended"] /\ owner' = owner
      BY <1>4 DEF HubEnd
    <3> QED
      BY <3>1, <3>2, <3>3, <3>4
  <2>5. RegisteredIsServed'
    BY <2>4 DEF RegisteredIsServed
  <2> QED
    BY <2>2, <2>3, <2>5
<1> QED
  BY <1>1, <1>2, <1>3, <1>4 DEF HandlerStep

(* Every step preserves the invariant. *)
LEMMA StepIInv == IInv /\ [Next]_vars => IInv'
<1> SUFFICES ASSUME IInv, [Next]_vars PROVE IInv'
  OBVIOUS
<1>1. ASSUME NEW k \in Conns, Break(k) PROVE IInv'
  BY <1>1, HubFrame DEF Break, IInv, TypeOK, LinksInUse, agentVars, hubVars
<1>2. CASE HubRestart
  <2> USE BoundAssumption DEF IInv, TypeOK, LinksInUse, agentVars, Event, Conns, NoConn
  <2>1. TypeOK' /\ LinksInUse'
    BY <1>2 DEF HubRestart
  <2>2. (SlotIsRegistered /\ RegisteredIsServed)'
    BY <1>2, NoneAssumption DEF HubRestart, SlotIsRegistered, RegisteredIsServed
  <2> QED
    BY <2>1, <2>2
<1>3. CASE UNCHANGED vars
  BY <1>3, HubFrame DEF IInv, TypeOK, LinksInUse, vars, agentVars, connVars, hubVars
<1> QED
  BY <1>1, <1>2, <1>3, AgentPreserves, HandlerPreserves DEF Next

(* Every reachable state satisfies the invariant. *)
THEOREM Invariance == Spec => []IInv
BY InitIInv, StepIInv, PTL DEF Spec

(* The variables keep their types. *)
THEOREM TypeCorrect == Spec => []TypeOK
<1>1. IInv => TypeOK
  BY DEF IInv
<1> QED
  BY <1>1, Invariance, PTL

(* The agent the session shows is registered. *)
THEOREM SlotFollowsRegistry == Spec => []SlotIsRegistered
<1>1. IInv => SlotIsRegistered
  BY DEF IInv
<1> QED
  BY <1>1, Invariance, PTL

(* A registration never outlives the handler that will remove it. *)
THEOREM NoDanglingRegistration == Spec => []RegisteredIsServed
<1>1. IInv => RegisteredIsServed
  BY DEF IInv
<1> QED
  BY <1>1, Invariance, PTL
=============================================================================
