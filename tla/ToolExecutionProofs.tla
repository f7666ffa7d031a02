------------------------ MODULE ToolExecutionProofs ------------------------
(***************************************************************************)
(* Proofs about ToolExecution, for every set of calls and requests and     *)
(* every number of connections and agent restarts.                         *)
(***************************************************************************)
EXTENDS ToolExecution, SequenceTheorems, TLAPS

(* A call between registration and its end has a request, a future and a   *)
(* captured connection.                                                    *)
ActiveCalls ==
    \A c \in Calls : pc[c] \in {"auditing", "waiting"} =>
        req[c] \in Requests /\ fut[c] \in Calls /\ link[c] \in Conns

TypeInv == TypeOK /\ ActiveCalls

(* The agent meets the reply to its registration once, before it is        *)
(* online: what its receive loop reads are commands.                       *)
AckOnce ==
    \A k \in Conns :
        /\ \A i, j \in DOMAIN toAgent[k] :
               toAgent[k][i] = Ack /\ toAgent[k][j] = Ack => i = j
        /\ status[k] # "greeted" => Ack \notin {toAgent[k][i] : i \in DOMAIN toAgent[k]}

-----------------------------------------------------------------------------
(* Sequences *)

(* What the peer still reads of a channel is a sequence over the same set. *)
LEMMA PrefixType ==
    ASSUME NEW S, NEW s \in Seq(S), NEW t \in Prefixes(s)
    PROVE  /\ t \in Seq(S)
           /\ \A i \in DOMAIN t : i \in DOMAIN s /\ t[i] = s[i]
<1>1. PICK n \in 0..Len(s) : t = SubSeq(s, 1, n)
  BY DEF Prefixes
<1>2. Len(s) \in Nat /\ s \in [1..Len(s) -> S] /\ DOMAIN s = 1..Len(s)
  BY LenProperties
<1>3. t = [i \in 1..n |-> s[i]]
  BY <1>1, <1>2, SubSeqProperties
<1>4. t \in [1..n -> S] /\ DOMAIN t = 1..n
  BY <1>2, <1>3
<1>5. t \in Seq(S)
  BY <1>4, SeqDef
<1> QED
  BY <1>2, <1>3, <1>4, <1>5

-----------------------------------------------------------------------------
(* Types *)

(* The initial state has the types. *)
LEMMA InitType == Init => TypeInv
BY BoundAssumption, NoneAssumption DEF Init, TypeInv, TypeOK, ActiveCalls, Conns, NoConn

(* The steps of the callers preserve the types. *)
LEMMA CallType == ASSUME TypeInv, NEW c \in Calls, CallStep(c) PROVE TypeInv'
<1> USE DEF TypeInv, TypeOK, ActiveCalls, callVars, storeVars, connVars, hubVars, agentVars
<1>1. ASSUME NEW r \in Requests, ReturnCached(c, r) PROVE TypeInv'
  BY <1>1 DEF ReturnCached, Ended
<1>2. ASSUME NEW r \in Requests, Refuse(c, r) PROVE TypeInv'
  BY <1>2 DEF Refuse, Ended
<1>3. ASSUME NEW r \in Requests, Register(c, r) PROVE TypeInv'
  <2>1. FutureFor(c, r) \in Calls
    BY DEF FutureFor
  <2>2. registry \in Conns
    BY <1>3 DEF Register
  <2> QED
    BY <1>3, <2>1, <2>2 DEF Register, RegisterPending
<1>4. CASE Send(c)
  <2>1. CommandOf(c) \in Command
    BY <1>4 DEF Send, CommandOf, Command
  <2> QED
    BY <1>4, <2>1 DEF Send
<1>5. CASE SendLost(c)
  BY <1>5 DEF SendLost
<1>6. CASE SendRaises(c)
  BY <1>6 DEF SendRaises, Ended
<1>7. CASE Return(c)
  BY <1>7 DEF Return, Ended
<1>8. CASE Cancelled(c)
  BY <1>8 DEF Cancelled, Ended
<1>9. CASE Timeout(c)
  BY <1>9 DEF Timeout, FailPending, Ended
<1>10. CASE TimeoutLate(c)
  BY <1>10 DEF TimeoutLate, FailPending, Ended
<1> QED
  BY <1>1, <1>2, <1>3, <1>4, <1>5, <1>6, <1>7, <1>8, <1>9, <1>10
     DEF CallStep, SendStep, Await

(* The outcome of a command is a result, and the dispatcher's state keeps  *)
(* its type.                                                               *)
LEMMA DispatchType ==
    ASSUME TypeOK, NEW m \in Command, NEW reply, Dispatch(m, reply)
    PROVE  /\ reply \in Result
           /\ cache' \in [Requests -> Result \cup {None}]
           /\ ran' \in [Requests -> Seq(Run)]
<1> USE DEF TypeOK, Command
<1>1. CASE Remembered(m) # None /\ reply = Remembered(m) /\ UNCHANGED <<cache, ran>>
  BY <1>1 DEF Remembered
<1>2. CASE reply = Reply(m, "rejected") /\ UNCHANGED <<cache, ran>>
  BY <1>2 DEF Reply, Result, Outcomes
<1>3. ASSUME NEW out \in {"ok", "failed"}, reply = Reply(m, out),
             ran' = [ran EXCEPT ![m.req] =
                       Append(@, [cmd |-> m.cmd, out |-> out, life |-> life])],
             cache' = IF out = "ok" THEN [cache EXCEPT ![m.req] = reply] ELSE cache
      PROVE  /\ reply \in Result
             /\ cache' \in [Requests -> Result \cup {None}]
             /\ ran' \in [Requests -> Seq(Run)]
  <2>1. reply \in Result
    BY <1>3 DEF Reply, Result, Outcomes
  <2>2. [cmd |-> m.cmd, out |-> out, life |-> life] \in Run
    BY DEF Run
  <2>3. m.req \in Requests /\ ran[m.req] \in Seq(Run)
    OBVIOUS
  <2>4. Append(ran[m.req], [cmd |-> m.cmd, out |-> out, life |-> life]) \in Seq(Run)
    BY <2>2, <2>3, AppendProperties
  <2> QED
    BY <1>3, <2>1, <2>3, <2>4
<1> QED
  BY <1>1, <1>2, <1>3 DEF Dispatch

(* So do the steps of the hub's and the agent's side of a connection.      *)
LEMMA ConnType == ASSUME TypeInv, AckOnce, NEW k \in Conns, ConnStep(k) PROVE TypeInv'
<1> USE DEF TypeInv, TypeOK, ActiveCalls, callVars, storeVars, connVars, hubVars, agentVars
<1>1. CASE HubRegister(k)
  BY <1>1 DEF HubRegister
<1>2. CASE HubAck(k)
  BY <1>2 DEF HubAck
<1>3. CASE HubReceive(k)
  <2> DEFINE m == Head(toHub[k])
  <2>1. m \in Result /\ Tail(toHub[k]) \in Seq(Result)
    BY <1>3, HeadTailProperties DEF HubReceive
  <2>2. m.req \in Requests
    BY <2>1 DEF Result
  <2>3. toHub' \in [Conns -> Seq(Result)]
    BY <1>3, <2>1 DEF HubReceive
  <2>4. CASE Complete(m) /\ publishing' = [publishing EXCEPT ![k] = m]
    <3>1. /\ completed' \in [Requests -> Result \cup {None}]
          /\ pending' \in [Requests -> Calls \cup {None}]
          /\ publishing' \in [Conns -> Result \cup {None}]
      BY <2>1, <2>2, <2>4 DEF Complete
    <3>2. /\ future' \in [Calls -> {"none", "open", "cancelled", "done"}]
          /\ value' \in [Calls -> Result \cup {None}]
      BY <2>1, <2>2, <2>4 DEF Complete
    <3> QED
      BY <1>3, <2>3, <3>1, <3>2 DEF HubReceive
  <2>5. CASE UNCHANGED <<storeVars, publishing>>
    BY <1>3, <2>3, <2>5 DEF HubReceive
  <2> QED
    BY <1>3, <2>4, <2>5 DEF HubReceive
<1>4. CASE HubPublish(k)
  <2>1. publishing[k] \in Result /\ publishing[k].req \in Requests
    BY <1>4 DEF HubPublish, Result
  <2>2. Append(published[publishing[k].req], publishing[k]) \in Seq(Result)
    BY <2>1, AppendProperties
  <2> QED
    BY <1>4, <2>1, <2>2 DEF HubPublish
<1>5. CASE HubUnregister(k)
  BY <1>5 DEF HubUnregister
<1>6. CASE AgentOnline(k)
  <2>1. Tail(toAgent[k]) \in Seq(Command \cup {Ack})
    BY <1>6, HeadTailProperties DEF AgentOnline
  <2> QED
    BY <1>6, <2>1 DEF AgentOnline
<1>7. CASE AgentMisread(k)
  BY <1>7 DEF AgentMisread
<1>8. CASE AgentHandle(k)
  <2>1. toAgent[k] \in Seq(Command \cup {Ack}) /\ toAgent[k] # <<>>
    BY <1>8 DEF AgentHandle
  <2>2. /\ Head(toAgent[k]) \in Command
        /\ Tail(toAgent[k]) \in Seq(Command \cup {Ack})
    <3>1. 1 \in DOMAIN toAgent[k] /\ Head(toAgent[k]) = toAgent[k][1]
      BY <2>1, HeadTailProperties
    <3>2. toAgent[k][1] # Ack
      BY <1>8, <3>1 DEF AgentHandle, AckOnce
    <3> QED
      BY <2>1, <3>1, <3>2, HeadTailProperties
  <2>3. PICK reply \in Result :
           /\ Dispatch(Head(toAgent[k]), reply)
           /\ toHub' = IF status[k] = "open"
                       THEN [toHub EXCEPT ![k] = Append(@, reply)] ELSE toHub
    BY <1>8 DEF AgentHandle
  <2>4. /\ cache' \in [Requests -> Result \cup {None}]
        /\ ran' \in [Requests -> Seq(Run)]
    BY <2>2, <2>3, DispatchType
  <2>5. Append(toHub[k], reply) \in Seq(Result)
    BY AppendProperties
  <2>6. toHub' \in [Conns -> Seq(Result)]
    BY <2>3, <2>5
  <2>7. toAgent' \in [Conns -> Seq(Command \cup {Ack})]
    BY <1>8, <2>2 DEF AgentHandle
  <2> QED
    BY <1>8, <2>4, <2>6, <2>7 DEF AgentHandle
<1>9. CASE Drop(k)
  <2>1. \A s \in Prefixes(toAgent[k]) : s \in Seq(Command \cup {Ack})
    BY PrefixType
  <2>2. \A s \in Prefixes(toHub[k]) : s \in Seq(Result)
    BY PrefixType
  <2> QED
    BY <1>9, <2>1, <2>2 DEF Drop
<1> QED
  BY <1>1, <1>2, <1>3, <1>4, <1>5, <1>6, <1>7, <1>8, <1>9 DEF ConnStep

(* So does a restart of the agent process. *)
LEMMA CrashType == ASSUME TypeInv, AgentCrash PROVE TypeInv'
BY DEF AgentCrash, TypeInv, TypeOK, ActiveCalls, callVars, storeVars, connVars, hubVars, agentVars

-----------------------------------------------------------------------------
(* The registration reply                                                  *)

(* Every step keeps the registration reply out of the receive loop. *)
LEMMA AckStep == ASSUME TypeInv, AckOnce, Next PROVE AckOnce'
<1> USE DEF TypeInv, TypeOK, callVars, storeVars, connVars, hubVars, agentVars
<1>1. ASSUME NEW c \in Calls, CallStep(c), ~Send(c) PROVE AckOnce'
  <2>1. UNCHANGED <<toAgent, status>>
    BY <1>1 DEF CallStep, SendStep, Await, ReturnCached, Refuse, Register, SendLost,
       SendRaises, Return, Cancelled, Timeout, TimeoutLate
  <2> QED
    BY <2>1 DEF AckOnce
<1>2. ASSUME NEW c \in Calls, Send(c) PROVE AckOnce'
  <2>1. CommandOf(c) \in Command /\ CommandOf(c) # Ack /\ link[c] \in Conns
    BY <1>2, NoneAssumption DEF Send, CommandOf, Ack, ActiveCalls, Command
  <2>2. toAgent[link[c]] \in Seq(Command \cup {Ack})
    BY <2>1
  <2>3. /\ toAgent' = [toAgent EXCEPT ![link[c]] = Append(@, CommandOf(c))]
        /\ status' = status
    BY <1>2 DEF Send
  <2>4. \A i \in DOMAIN Append(toAgent[link[c]], CommandOf(c)) :
            Append(toAgent[link[c]], CommandOf(c))[i] = Ack =>
                i \in DOMAIN toAgent[link[c]] /\ toAgent[link[c]][i] = Ack
    BY <2>1, <2>2, AppendProperties
  <2>5. \A k \in Conns : \A i \in DOMAIN toAgent'[k] :
            toAgent'[k][i] = Ack => i \in DOMAIN toAgent[k] /\ toAgent[k][i] = Ack
    BY <2>1, <2>3, <2>4
  <2> QED
    BY <2>3, <2>5 DEF AckOnce
<1>3. ASSUME NEW k \in Conns, HubReceive(k) \/ HubPublish(k) PROVE AckOnce'
  BY <1>3 DEF HubReceive, HubPublish, AckOnce
<1>4. ASSUME NEW k \in Conns, HubRegister(k) PROVE AckOnce'
  BY <1>4 DEF HubRegister, AckOnce
<1>5. ASSUME NEW k \in Conns, HubAck(k) PROVE AckOnce'
  <2>1. \A i \in DOMAIN toAgent[k] : toAgent[k][i] # Ack
    BY <1>5 DEF HubAck, AckOnce
  <2>2. \A i \in DOMAIN Append(toAgent[k], Ack) :
            Append(toAgent[k], Ack)[i] = Ack => i = Len(toAgent[k]) + 1
    BY <2>1, AppendProperties
  <2> QED
    BY <1>5, <2>2 DEF HubAck, AckOnce
<1>6. ASSUME NEW k \in Conns, HubUnregister(k) PROVE AckOnce'
  BY <1>6 DEF HubUnregister, AckOnce
<1>7. ASSUME NEW k \in Conns, AgentOnline(k) PROVE AckOnce'
  <2>1. toAgent[k] \in Seq(Command \cup {Ack}) /\ toAgent[k] # <<>> /\ toAgent[k][1] = Ack
    BY <1>7, HeadTailProperties DEF AgentOnline
  <2>2. \A i \in DOMAIN Tail(toAgent[k]) : Tail(toAgent[k])[i] # Ack
    BY <2>1, HeadTailProperties DEF AckOnce
  <2> QED
    BY <1>7, <2>2 DEF AgentOnline, AckOnce
<1>8. ASSUME NEW k \in Conns, AgentMisread(k) PROVE AckOnce'
  BY <1>8 DEF AgentMisread, AckOnce
<1>9. ASSUME NEW k \in Conns, AgentHandle(k) PROVE AckOnce'
  <2>1. toAgent[k] \in Seq(Command \cup {Ack}) /\ toAgent[k] # <<>>
    BY <1>9 DEF AgentHandle
  <2>2. \A i \in DOMAIN toAgent[k] : toAgent[k][i] # Ack
    BY <1>9 DEF AgentHandle, AckOnce
  <2>3. \A i \in DOMAIN Tail(toAgent[k]) : Tail(toAgent[k])[i] # Ack
    BY <2>1, <2>2, HeadTailProperties
  <2> QED
    BY <1>9, <2>3 DEF AgentHandle, AckOnce
<1>10. ASSUME NEW k \in Conns, Drop(k) PROVE AckOnce'
  <2>1. PICK s \in Prefixes(toAgent[k]) : /\ status[k] # "open" => s = <<>>
                                          /\ toAgent' = [toAgent EXCEPT ![k] = s]
    BY <1>10 DEF Drop
  <2>2. ASSUME status[k] = "open" PROVE \A i \in DOMAIN s : s[i] # Ack
    <3>1. \A i \in DOMAIN toAgent[k] : toAgent[k][i] # Ack
      BY <2>2 DEF AckOnce
    <3>2. toAgent[k] \in Seq(Command \cup {Ack})
      OBVIOUS
    <3> HIDE DEF TypeOK, TypeInv
    <3> QED
      BY <3>1, <3>2, PrefixType
  <2>3. \A i \in DOMAIN s : s[i] # Ack
    BY <2>1, <2>2
  <2> QED
    BY <1>10, <2>1, <2>3 DEF Drop, AckOnce
<1>11. CASE AgentCrash
  BY <1>11 DEF AgentCrash, AckOnce
<1> QED
  BY <1>1, <1>2, <1>3, <1>4, <1>5, <1>6, <1>7, <1>8, <1>9, <1>10, <1>11
  DEF Next, ConnStep, CallStep

-----------------------------------------------------------------------------
(* The store and its waiters                                               *)

(* A call that has not started owns no future. *)
IdleIsFresh == \A c \in Calls : pc[c] = "idle" => fut[c] = None /\ future[c] = "none"

(* A future is shared only by calls of one request, and its creator is one *)
(* of them.                                                                *)
SharedByRequest ==
    \A c \in Calls : fut[c] # None =>
        /\ pc[fut[c]] # "idle"
        /\ req[c] \in Requests
        /\ req[fut[c]] = req[c]

(* The pending table holds undecided futures of unanswered requests. *)
PendingIsOpen ==
    \A r \in Requests : pending[r] # None =>
        completed[r] = None /\ future[pending[r]] = "open" /\ req[pending[r]] = r

(* A resolved future carries the stored result of its request. *)
ResolvedIsStored ==
    \A c \in Calls : future[c] = "done" =>
        /\ req[c] \in Requests
        /\ completed[req[c]] # None
        /\ value[c] = completed[req[c]]

ReturnedIsStored ==
    \A c \in Calls : pc[c] = "returned" => req[c] \in Requests

StoreInv ==
    /\ IdleIsFresh
    /\ SharedByRequest
    /\ PendingIsOpen
    /\ ResolvedIsStored
    /\ WaiterIsReachable
    /\ ReturnedIsStored
    /\ CallersAgree

(* A result waiting to be broadcast is stored and was not broadcast yet,   *)
(* and no two connections are about to broadcast for one request.          *)
PublishInv ==
    /\ \A k \in Conns : publishing[k] # None =>
          /\ completed[publishing[k].req] = publishing[k]
          /\ published[publishing[k].req] = <<>>
    /\ \A j, k \in Conns :
          publishing[j] # None /\ publishing[k] # None
            /\ publishing[j].req = publishing[k].req => j = k
    /\ \A r \in Requests :
          published[r] # <<>> => completed[r] # None /\ published[r] = <<completed[r]>>

(* The handler execution a result speaks of is among the runs rs. *)
RunIn(rs, m) ==
    m.out = "rejected" \/
    \E i \in DOMAIN rs[m.req] : rs[m.req][i].cmd = m.cmd /\ rs[m.req][i].out = m.out

HasRun(m) == RunIn(ran, m)

(* Every result, wherever it is, comes from a run of its request. *)
ResultsHaveRuns ==
    /\ \A r \in Requests : cache[r] # None => cache[r].req = r /\ HasRun(cache[r])
    /\ \A k \in Conns : \A i \in DOMAIN toHub[k] : HasRun(toHub[k][i])
    /\ \A r \in Requests : completed[r] # None => completed[r].req = r /\ HasRun(completed[r])

(* Runs are recorded in the order of the agent's lives, and a success of   *)
(* the current life is in the cache.                                       *)
RunsAreOrdered ==
    \A r \in Requests :
        /\ \A i \in DOMAIN ran[r] :
              /\ ran[r][i].life <= life
              /\ ran[r][i].out = "ok" /\ ran[r][i].life = life => cache[r] # None

IInv == TypeInv /\ AckOnce /\ StoreInv /\ PublishInv /\ ResultsHaveRuns /\ RunsAreOrdered /\ NoRunAfterSuccess

(* The empty store has no waiters. *)
LEMMA InitStore == Init => StoreInv
BY NoneAssumption
DEF Init, StoreInv, IdleIsFresh, SharedByRequest, PendingIsOpen, ResolvedIsStored,
    WaiterIsReachable, ReturnedIsStored, CallersAgree

(* A step that leaves the store and the callers alone. *)
LEMMA StoreFrame ==
    ASSUME StoreInv, UNCHANGED <<callVars, storeVars>> PROVE StoreInv'
BY DEF StoreInv, IdleIsFresh, SharedByRequest, PendingIsOpen, ResolvedIsStored,
       WaiterIsReachable, ReturnedIsStored, CallersAgree, callVars, storeVars

(* Registration gives the call the one future of its request. *)
LEMMA StoreRegister ==
    ASSUME TypeInv, StoreInv, NEW c \in Calls, NEW r \in Requests, Register(c, r)
    PROVE  StoreInv'
<1> DEFINE f == FutureFor(c, r)
<1> USE NoneAssumption DEF TypeInv, TypeOK
<1>1. /\ pc[c] = "idle" /\ completed[r] = None /\ fut[c] = None /\ future[c] = "none"
      /\ pc' = [pc EXCEPT ![c] = "auditing"]
      /\ req' = [req EXCEPT ![c] = r]
      /\ fut' = [fut EXCEPT ![c] = f]
      /\ pending' = [pending EXCEPT ![r] = f]
      /\ future' = [future EXCEPT ![f] = IF f = c THEN "open" ELSE @]
      /\ UNCHANGED <<ret, value, completed>>
  BY DEF Register, RegisterPending, StoreInv, IdleIsFresh
<1>2. f \in Calls
  BY DEF FutureFor
<1>3. CASE pending[r] # None
  <2>1. f = pending[r] /\ future[f] = "open" /\ req[f] = r /\ f # c
    BY <1>1, <1>3 DEF FutureFor, StoreInv, PendingIsOpen
  <2>2. pending' = pending /\ future' = future /\ pc[f] # "idle"
    BY <1>1, <1>2, <2>1 DEF StoreInv, IdleIsFresh
  <2> QED
    BY <1>1, <1>2, <2>1, <2>2
    DEF StoreInv, IdleIsFresh, SharedByRequest, PendingIsOpen, ResolvedIsStored,
        WaiterIsReachable, ReturnedIsStored, CallersAgree
<1>4. CASE pending[r] = None
  <2>1. f = c /\ future' = [future EXCEPT ![c] = "open"]
    BY <1>1, <1>4 DEF FutureFor
  <2>2. \A d \in Calls : d # c => fut[d] # c
    BY <1>1 DEF StoreInv, SharedByRequest
  <2>3. IdleIsFresh' /\ SharedByRequest'
    BY <1>1, <2>1, <2>2 DEF StoreInv, IdleIsFresh, SharedByRequest
  <2>4. \A q \in Requests : pending[q] # c
    BY <1>1 DEF StoreInv, PendingIsOpen
  <2>5. PendingIsOpen' /\ ResolvedIsStored'
    BY <1>1, <2>1, <2>4 DEF StoreInv, PendingIsOpen, ResolvedIsStored
  <2>6. WaiterIsReachable'
    BY <1>1, <1>4, <2>1, <2>2 DEF StoreInv, WaiterIsReachable, SharedByRequest, ActiveCalls
  <2>7. ReturnedIsStored' /\ CallersAgree'
    BY <1>1 DEF StoreInv, ReturnedIsStored, CallersAgree
  <2> QED
    BY <2>3, <2>5, <2>6, <2>7 DEF StoreInv
<1> QED
  BY <1>3, <1>4

(* A timeout decides the future of its call and frees the request. *)
LEMMA StoreTimeout ==
    ASSUME TypeInv, StoreInv, NEW c \in Calls, Timeout(c) PROVE StoreInv'
<1> USE NoneAssumption DEF TypeInv, TypeOK
<1>1. /\ pc[c] = "waiting" /\ future[fut[c]] = "open"
      /\ future' = [future EXCEPT ![fut[c]] = "cancelled"]
      /\ pending' = [pending EXCEPT ![req[c]] = None]
      /\ UNCHANGED <<req, fut, ret, value, completed>>
  BY DEF Timeout, FailPending
<1>2. /\ req[c] \in Requests /\ fut[c] \in Calls /\ pending[req[c]] = fut[c]
  BY <1>1 DEF ActiveCalls, StoreInv, WaiterIsReachable
<1>3. /\ \A d \in Calls : pc'[d] = "idle" <=> pc[d] = "idle"
      /\ \A d \in Calls : pc'[d] \in {"auditing", "waiting"} =>
             pc[d] \in {"auditing", "waiting"} /\ (pc'[d] = "waiting" => fut[d] # fut[c])
      /\ \A d \in Calls : pc'[d] = "returned" => pc[d] = "returned"
  BY DEF Timeout, Sharing
<1>4. \A q \in Requests : pending[q] = fut[c] => q = req[c]
  <2>1. fut[c] # None /\ req[fut[c]] = req[c]
    BY <1>2 DEF StoreInv, PendingIsOpen
  <2> QED
    BY <2>1 DEF StoreInv, PendingIsOpen
<1>5. IdleIsFresh' /\ SharedByRequest' /\ ReturnedIsStored' /\ CallersAgree'
  BY <1>1, <1>2, <1>3
  DEF StoreInv, IdleIsFresh, SharedByRequest, ReturnedIsStored, CallersAgree
<1>6. PendingIsOpen' /\ ResolvedIsStored'
  BY <1>1, <1>2, <1>4 DEF StoreInv, PendingIsOpen, ResolvedIsStored
<1>7. WaiterIsReachable'
  BY <1>1, <1>2, <1>3 DEF StoreInv, WaiterIsReachable, ActiveCalls
<1> QED
  BY <1>5, <1>6, <1>7 DEF StoreInv

(* A timer that fires after the result was set frees no request another
   call still waits for. *)
LEMMA StoreTimeoutLate ==
    ASSUME TypeInv, StoreInv, NEW c \in Calls, TimeoutLate(c) PROVE StoreInv'
<1> USE NoneAssumption DEF TypeInv, TypeOK
<1>1. /\ pc[c] = "waiting" /\ future[fut[c]] = "done"
      /\ pc' = [pc EXCEPT ![c] = "timeout"]
      /\ pending' = [pending EXCEPT ![req[c]] = None]
      /\ UNCHANGED <<req, fut, ret, future, value, completed>>
  BY DEF TimeoutLate, FailPending
<1>2. req[c] \in Requests /\ fut[c] \in Calls
  BY <1>1 DEF ActiveCalls
<1>3. completed[req[c]] # None
  BY <1>1, <1>2 DEF StoreInv, ResolvedIsStored, SharedByRequest
<1>4. pending' = pending
  BY <1>1, <1>2, <1>3 DEF StoreInv, PendingIsOpen
<1> QED
  BY <1>1, <1>4
  DEF StoreInv, IdleIsFresh, SharedByRequest, PendingIsOpen, ResolvedIsStored,
      WaiterIsReachable, ReturnedIsStored, CallersAgree

(* A first result is stored, and the future its request waits on gets it. *)
LEMMA StoreComplete ==
    ASSUME TypeInv, StoreInv, NEW m \in Result, IsNew(m), Complete(m), UNCHANGED callVars
    PROVE  StoreInv'
<1> DEFINE p == pending[m.req]
<1> USE NoneAssumption DEF TypeInv, TypeOK
<1>1. m.req \in Requests /\ m # None
  BY DEF Result
<1>2. /\ completed[m.req] = None
      /\ completed' = [completed EXCEPT ![m.req] = m]
      /\ pending' = [pending EXCEPT ![m.req] = None]
      /\ UNCHANGED <<pc, req, fut, ret>>
  BY DEF IsNew, Complete, callVars
<1>3. CASE p # None
  <2>1. p \in Calls /\ future[p] = "open" /\ req[p] = m.req
    BY <1>1, <1>3 DEF StoreInv, PendingIsOpen
  <2>2. future' = [future EXCEPT ![p] = "done"] /\ value' = [value EXCEPT ![p] = m]
    BY <1>3, <2>1 DEF Complete
  <2>3. \A q \in Requests : pending[q] = p => q = m.req
    BY <2>1 DEF StoreInv, PendingIsOpen
  <2>4. IdleIsFresh' /\ SharedByRequest' /\ ReturnedIsStored'
    BY <1>2, <2>1, <2>2 DEF StoreInv, IdleIsFresh, SharedByRequest, ReturnedIsStored
  <2>5. PendingIsOpen'
    BY <1>1, <1>2, <2>1, <2>2, <2>3 DEF StoreInv, PendingIsOpen
  <2>6. ResolvedIsStored' /\ CallersAgree'
    BY <1>1, <1>2, <2>1, <2>2 DEF StoreInv, ResolvedIsStored, CallersAgree, ReturnedIsStored
  <2>7. WaiterIsReachable'
    BY <1>1, <1>2, <2>1, <2>2 DEF StoreInv, WaiterIsReachable, ActiveCalls
  <2> QED
    BY <2>4, <2>5, <2>6, <2>7 DEF StoreInv
<1>4. CASE p = None
  <2>1. future' = future /\ value' = value /\ pending' = pending
    BY <1>1, <1>2, <1>4 DEF Complete
  <2> QED
    BY <1>1, <1>2, <2>1
    DEF StoreInv, IdleIsFresh, SharedByRequest, PendingIsOpen, ResolvedIsStored,
        WaiterIsReachable, ReturnedIsStored, CallersAgree
<1> QED
  BY <1>3, <1>4

(* Every step preserves the relation between the store and its waiters. *)
LEMMA StoreStep == ASSUME TypeInv, AckOnce, StoreInv, Next PROVE StoreInv'
<1> USE NoneAssumption DEF TypeInv, TypeOK, callVars, storeVars, connVars, hubVars, agentVars
<1>1. ASSUME NEW c \in Calls, NEW r \in Requests, ReturnCached(c, r) PROVE StoreInv'
  BY <1>1 DEF ReturnCached, StoreInv, IdleIsFresh, SharedByRequest, PendingIsOpen,
     ResolvedIsStored, WaiterIsReachable, ReturnedIsStored, CallersAgree
<1>2. ASSUME NEW c \in Calls, NEW r \in Requests, Refuse(c, r) PROVE StoreInv'
  BY <1>2 DEF Refuse, StoreInv, IdleIsFresh, SharedByRequest, PendingIsOpen,
     ResolvedIsStored, WaiterIsReachable, ReturnedIsStored, CallersAgree, Ended
<1>3. ASSUME NEW c \in Calls, SendStep(c) PROVE StoreInv'
  <2>1. /\ pc[c] = "auditing"
        /\ \E w \in {"waiting", "raised"} : pc' = [pc EXCEPT ![c] = w]
        /\ UNCHANGED <<req, fut, ret, pending, future, value, completed>>
    BY <1>3 DEF SendStep, Send, SendLost, SendRaises
  <2> QED
    BY <2>1 DEF StoreInv, IdleIsFresh, SharedByRequest, PendingIsOpen,
       ResolvedIsStored, WaiterIsReachable, ReturnedIsStored, CallersAgree
<1>4. ASSUME NEW c \in Calls, Return(c) PROVE StoreInv'
  <2>1. req[c] \in Requests /\ fut[c] \in Calls /\ fut[c] # None
    BY <1>4 DEF Return, ActiveCalls
  <2>2. value[fut[c]] # None /\ value[fut[c]] = completed[req[c]]
    BY <1>4, <2>1 DEF Return, StoreInv, SharedByRequest, ResolvedIsStored
  <2> QED
    BY <1>4, <2>1, <2>2 DEF Return, StoreInv, IdleIsFresh, SharedByRequest, PendingIsOpen,
       ResolvedIsStored, WaiterIsReachable, ReturnedIsStored, CallersAgree
<1>5. ASSUME NEW c \in Calls, Cancelled(c) PROVE StoreInv'
  BY <1>5 DEF Cancelled, StoreInv, IdleIsFresh, SharedByRequest, PendingIsOpen,
     ResolvedIsStored, WaiterIsReachable, ReturnedIsStored, CallersAgree
<1>6. ASSUME NEW k \in Conns, HubReceive(k) PROVE StoreInv'
  <2>1. Head(toHub[k]) \in Result
    BY <1>6, HeadTailProperties DEF HubReceive
  <2> QED
    BY <1>6, <2>1, StoreComplete, StoreFrame DEF HubReceive
<1>7. ASSUME NEW k \in Conns, ConnStep(k), ~HubReceive(k) PROVE StoreInv'
  BY <1>7, StoreFrame DEF ConnStep, HubRegister, HubAck, HubPublish, HubUnregister,
     AgentOnline, AgentMisread, AgentHandle, Drop
<1>8. CASE AgentCrash
  BY <1>8, StoreFrame DEF AgentCrash
<1> QED
  BY <1>1, <1>2, <1>3, <1>4, <1>5, <1>6, <1>7, <1>8,
     StoreRegister, StoreTimeout, StoreTimeoutLate
  DEF Next, CallStep, Await

-----------------------------------------------------------------------------
(* Broadcasts                                                              *)

(* Nothing is broadcast initially. *)
LEMMA InitPublish == Init => PublishInv
BY DEF Init, PublishInv

(* Every step keeps at most one broadcast per request under way or done. *)
LEMMA PublishStep == ASSUME TypeInv, PublishInv, Next PROVE PublishInv'
<1> USE NoneAssumption DEF TypeInv, TypeOK, callVars, storeVars, connVars, hubVars, agentVars
<1>1. ASSUME NEW k \in Conns, HubReceive(k) PROVE PublishInv'
  <2> DEFINE m == Head(toHub[k])
  <2>1. m \in Result /\ m # None /\ m.req \in Requests
    <3>1. m \in Result
      BY <1>1, HeadTailProperties DEF HubReceive
    <3> QED
      BY <3>1 DEF Result
  <2>2. CASE UNCHANGED <<storeVars, publishing>>
    BY <1>1, <2>2 DEF HubReceive, PublishInv
  <2>3. CASE IsNew(m) /\ Complete(m) /\ publishing' = [publishing EXCEPT ![k] = m]
    <3>1. /\ completed[m.req] = None
          /\ completed' = [completed EXCEPT ![m.req] = m]
          /\ published' = published
      BY <1>1, <2>3 DEF HubReceive, IsNew, Complete
    <3>2. published[m.req] = <<>>
      BY <2>1, <3>1 DEF PublishInv
    <3>3. \A j \in Conns : publishing[j] # None =>
             publishing[j].req # m.req /\ publishing[j].req \in Requests
      BY <2>1, <3>1 DEF PublishInv, Result
    <3>4. \A j \in Conns : publishing'[j] # None =>
             /\ completed'[publishing'[j].req] = publishing'[j]
             /\ published'[publishing'[j].req] = <<>>
      BY <2>1, <2>3, <3>1, <3>2, <3>3 DEF PublishInv
    <3>5. \A i, j \in Conns :
             publishing'[i] # None /\ publishing'[j] # None
               /\ publishing'[i].req = publishing'[j].req => i = j
      BY <2>1, <2>3, <3>3 DEF PublishInv
    <3>6. \A r \in Requests : published'[r] # <<>> =>
             completed'[r] # None /\ published'[r] = <<completed'[r]>>
      BY <2>1, <3>1, <3>2 DEF PublishInv
    <3> QED
      BY <3>4, <3>5, <3>6 DEF PublishInv
  <2> QED
    BY <1>1, <2>2, <2>3 DEF HubReceive
<1>2. ASSUME NEW k \in Conns, HubPublish(k) PROVE PublishInv'
  <2> DEFINE m == publishing[k]
  <2>1. /\ m # None /\ m \in Result /\ m.req \in Requests
        /\ published' = [published EXCEPT ![m.req] = Append(@, m)]
        /\ publishing' = [publishing EXCEPT ![k] = None]
        /\ completed' = completed
    BY <1>2 DEF HubPublish, Result
  <2>2. completed[m.req] = m /\ published[m.req] = <<>>
    BY <2>1 DEF PublishInv
  <2>3. published' = [published EXCEPT ![m.req] = <<m>>]
    BY <2>1, <2>2
  <2>4. \A j \in Conns : publishing'[j] # None =>
           publishing[j] = publishing'[j] /\ publishing[j].req # m.req
    BY <2>1 DEF PublishInv
  <2> HIDE DEF m
  <2> QED
    BY <2>1, <2>2, <2>3, <2>4 DEF PublishInv
<1>3. ASSUME UNCHANGED <<completed, publishing, published>> PROVE PublishInv'
  BY <1>3 DEF PublishInv
<1>4. ASSUME NEW c \in Calls, CallStep(c) PROVE UNCHANGED <<completed, publishing, published>>
  BY <1>4 DEF CallStep, SendStep, Await, ReturnCached, Refuse, Register, Send, SendLost,
     SendRaises, Return, Cancelled, Timeout, TimeoutLate
<1>5. ASSUME NEW k \in Conns, ConnStep(k), ~HubReceive(k), ~HubPublish(k)
      PROVE UNCHANGED <<completed, publishing, published>>
  BY <1>5 DEF ConnStep, HubRegister, HubAck, HubUnregister, AgentOnline, AgentMisread,
     AgentHandle, Drop
<1>6. AgentCrash => UNCHANGED <<completed, publishing, published>>
  BY DEF AgentCrash
<1> QED
  BY <1>1, <1>2, <1>3, <1>4, <1>5, <1>6 DEF Next

-----------------------------------------------------------------------------
(* The agent's runs                                                        *)

(* No handler has run initially. *)
LEMMA InitRuns == Init => ResultsHaveRuns /\ RunsAreOrdered /\ NoRunAfterSuccess
BY DEF Init, ResultsHaveRuns, RunsAreOrdered, NoRunAfterSuccess

(* Runs rs2 extend the runs rs1. *)
Extends(rs1, rs2) ==
    \A r \in Requests : \A i \in DOMAIN rs1[r] : i \in DOMAIN rs2[r] /\ rs2[r][i] = rs1[r][i]

(* A run once recorded stays recorded. *)
LEMMA RunsGrow ==
    ASSUME NEW rs1, NEW rs2, NEW m, Extends(rs1, rs2), m.req \in Requests, RunIn(rs1, m)
    PROVE  RunIn(rs2, m)
BY DEF Extends, RunIn

(* What dispatch does to the record of runs and to the cache. *)
LEMMA DispatchRuns ==
    ASSUME TypeInv, RunsAreOrdered, NoRunAfterSuccess, ResultsHaveRuns, life' = life,
           NEW m \in Command, NEW reply, Dispatch(m, reply)
    PROVE  /\ Extends(ran, ran')
           /\ reply.req = m.req
           /\ RunIn(ran', reply)
           /\ \A r \in Requests : cache'[r] # None => cache'[r].req = r /\ RunIn(ran', cache'[r])
           /\ RunsAreOrdered'
           /\ NoRunAfterSuccess'
<1> USE NoneAssumption DEF TypeInv, TypeOK, Command
<1>1. ASSUME UNCHANGED <<cache, ran>>
      PROVE  /\ Extends(ran, ran')
             /\ \A r \in Requests : cache'[r] # None => cache'[r].req = r /\ RunIn(ran', cache'[r])
             /\ RunsAreOrdered'
             /\ NoRunAfterSuccess'
  BY <1>1 DEF Extends, ResultsHaveRuns, HasRun, RunsAreOrdered, NoRunAfterSuccess
<1>2. CASE Remembered(m) # None /\ reply = Remembered(m) /\ UNCHANGED <<cache, ran>>
  <2>1. reply.req = m.req /\ RunIn(ran, reply)
    BY <1>2 DEF Remembered, ResultsHaveRuns, HasRun
  <2> QED
    BY <1>1, <1>2, <2>1
<1>3. CASE reply = Reply(m, "rejected") /\ UNCHANGED <<cache, ran>>
  <2>1. reply.req = m.req /\ RunIn(ran, reply)
    BY <1>3 DEF Reply, RunIn
  <2> QED
    BY <1>1, <1>3, <2>1
<1>4. ASSUME NEW out \in {"ok", "failed"}, Remembered(m) = None, reply = Reply(m, out),
             ran' = [ran EXCEPT ![m.req] =
                       Append(@, [cmd |-> m.cmd, out |-> out, life |-> life])],
             cache' = IF out = "ok" THEN [cache EXCEPT ![m.req] = reply] ELSE cache
      PROVE  /\ Extends(ran, ran')
             /\ reply.req = m.req
             /\ RunIn(ran', reply)
             /\ \A r \in Requests : cache'[r] # None => cache'[r].req = r /\ RunIn(ran', cache'[r])
             /\ RunsAreOrdered'
             /\ NoRunAfterSuccess'
  <2> DEFINE run == [cmd |-> m.cmd, out |-> out, life |-> life]
             old == ran[m.req]
             n   == Len(old)
  <2>1. /\ m.req \in Requests /\ old = ran[m.req] /\ old \in Seq(Run) /\ run \in Run
        /\ n \in Nat /\ DOMAIN old = 1..n
        /\ run.cmd = m.cmd /\ run.out = out /\ run.life = life
    BY LenProperties DEF Run
  <2>2. /\ DOMAIN Append(old, run) = 1..(n + 1)
        /\ Append(old, run)[n + 1] = run
        /\ \A i \in 1..n : Append(old, run)[i] = old[i]
    BY <2>1, AppendProperties, LenProperties
  <2>3. /\ ran'[m.req] = Append(old, run)
        /\ \A r \in Requests : r # m.req => ran'[r] = ran[r]
    BY <1>4, <2>1
  <2>4. cache[m.req] = None
    BY <1>4 DEF Remembered
  <2>5. reply \in Result /\ reply.req = m.req /\ reply.cmd = m.cmd /\ reply.out = out
    BY <1>4 DEF Reply, Result, Outcomes
  <2> HIDE DEF run, old, n
  <2>6. /\ DOMAIN ran'[m.req] = 1..(n + 1)
        /\ ran'[m.req][n + 1] = run
        /\ \A i \in 1..n : i \in DOMAIN old /\ ran'[m.req][i] = ran[m.req][i]
    BY <2>1, <2>2, <2>3
  <2>7. Extends(ran, ran')
    <3>1. \A i \in DOMAIN ran[m.req] :
             i \in DOMAIN ran'[m.req] /\ ran'[m.req][i] = ran[m.req][i]
      <4> SUFFICES ASSUME NEW i \in DOMAIN ran[m.req]
                   PROVE  i \in DOMAIN ran'[m.req] /\ ran'[m.req][i] = ran[m.req][i]
        OBVIOUS
      <4>1. i \in 1..n /\ i \in 1..(n + 1)
        BY <2>1
      <4> QED
        BY <4>1, <2>6
    <3> HIDE DEF TypeInv, TypeOK
    <3> QED
      BY <2>3, <3>1 DEF Extends
  <2>8. RunIn(ran', reply)
    <3>1. n + 1 \in DOMAIN ran'[m.req]
      BY <2>1, <2>6
    <3> HIDE DEF TypeInv, TypeOK
    <3> QED
      BY <2>1, <2>5, <2>6, <3>1 DEF RunIn
  <2>9. \A r \in Requests : cache'[r] # None => cache'[r].req = r /\ RunIn(ran', cache'[r])
    <3>1. ASSUME NEW r \in Requests, cache[r] # None
          PROVE  cache[r].req = r /\ RunIn(ran', cache[r])
      BY <3>1, <2>7, RunsGrow DEF ResultsHaveRuns, HasRun
    <3>2. ASSUME NEW r \in Requests
          PROVE  cache'[r] = cache[r] \/ (r = m.req /\ cache'[r] = reply)
      BY <1>4
    <3> QED
      BY <2>5, <2>8, <3>1, <3>2
  <2>10. \A i \in DOMAIN old :
            old[i].life \in Nat /\ old[i].life <= life /\ (old[i].out = "ok" => old[i].life < life)
    <3>1. \A i \in DOMAIN old : old[i].life \in Nat
      <4>1. old \in [1..n -> Run]
        BY <2>1, LenProperties DEF n
      <4>2. \A x \in Run : x.life \in Nat
        BY DEF Run
      <4> QED
        BY <2>1, <4>1, <4>2
    <3>2. \A i \in DOMAIN old :
             old[i].life <= life /\ (old[i].out = "ok" => old[i].life # life)
      BY <2>1, <2>4 DEF RunsAreOrdered
    <3> QED
      BY <3>1, <3>2
  <2>11. RunsAreOrdered'
    <3>1. ASSUME NEW r \in Requests, r # m.req, NEW i \in DOMAIN ran'[r]
          PROVE  /\ ran'[r][i].life <= life'
                 /\ ran'[r][i].out = "ok" /\ ran'[r][i].life = life' => cache'[r] # None
      BY <1>4, <2>3, <3>1 DEF RunsAreOrdered
    <3>2. ASSUME NEW i \in 1..n
          PROVE  ran'[m.req][i].life <= life' /\
                 (ran'[m.req][i].out = "ok" => ran'[m.req][i].life # life')
      <4>1. i \in DOMAIN old /\ ran'[m.req][i] = old[i]
        BY <2>1, <2>6
      <4>2. /\ old[i].life \in Nat /\ life \in Nat /\ old[i].life <= life
            /\ old[i].out = "ok" => old[i].life < life
        BY <2>10, <4>1
      <4> QED
        BY <4>1, <4>2
    <3>3. out = "ok" => cache'[m.req] # None
      BY <1>4, <2>1, <2>5
    <3>4. ran'[m.req][n + 1].life = life' /\ ran'[m.req][n + 1].out = out
      BY <2>1, <2>6
    <3>5. ASSUME NEW i \in DOMAIN ran'[m.req]
          PROVE  /\ ran'[m.req][i].life <= life'
                 /\ ran'[m.req][i].out = "ok" /\ ran'[m.req][i].life = life' => cache'[m.req] # None
      <4>1. i \in 1..n \/ i = n + 1
        BY <2>1, <2>6
      <4> QED
        BY <4>1, <3>2, <3>3, <3>4
    <3> QED
      BY <3>1, <3>5 DEF RunsAreOrdered
  <2>12. NoRunAfterSuccess'
    <3>1. ASSUME NEW i \in DOMAIN ran'[m.req], NEW j \in DOMAIN ran'[m.req],
                 i < j, ran'[m.req][i].out = "ok"
          PROVE  ran'[m.req][i].life < ran'[m.req][j].life
      <4>1. i \in 1..n /\ i \in DOMAIN old /\ ran'[m.req][i] = old[i]
        BY <3>1, <2>1, <2>6
      <4>2. CASE j = n + 1
        BY <3>1, <4>1, <4>2, <2>1, <2>6, <2>10
      <4>3. CASE j \in 1..n
        BY <3>1, <4>1, <4>3, <2>1, <2>6 DEF NoRunAfterSuccess
      <4> QED
        BY <4>2, <4>3, <2>1, <2>6
    <3>2. ASSUME NEW r \in Requests, r # m.req PROVE ran'[r] = ran[r]
      BY <2>3, <3>2
    <3> QED
      BY <3>1, <3>2 DEF NoRunAfterSuccess
  <2> QED
    BY <2>5, <2>7, <2>8, <2>9, <2>11, <2>12
<1> QED
  BY <1>2, <1>3, <1>4 DEF Dispatch

(* What the agent's receive loop takes from a connection is a command. *)
LEMMA HeadIsCommand ==
    ASSUME TypeInv, AckOnce, NEW k \in Conns, AgentHandle(k)
    PROVE  Head(toAgent[k]) \in Command
<1> USE DEF TypeInv, TypeOK
<1>1. toAgent[k] \in Seq(Command \cup {Ack}) /\ toAgent[k] # <<>>
  BY DEF AgentHandle
<1>2. 1 \in DOMAIN toAgent[k] /\ Head(toAgent[k]) = toAgent[k][1]
  BY <1>1, HeadTailProperties
<1>3. toAgent[k][1] # Ack
  BY <1>2 DEF AgentHandle, AckOnce
<1> QED
  BY <1>1, <1>2, <1>3, HeadTailProperties

RunInv == ResultsHaveRuns /\ RunsAreOrdered /\ NoRunAfterSuccess

(* The record of handler executions keeps its invariants. *)
LEMMA RunStep == ASSUME TypeInv, AckOnce, RunInv, Next PROVE RunInv'
<1> USE DEF RunInv
<1>1. ASSUME UNCHANGED <<ran, cache, life, completed, toHub>> PROVE RunInv'
  BY <1>1 DEF ResultsHaveRuns, RunsAreOrdered, NoRunAfterSuccess, HasRun, RunIn
<1>2. ASSUME NEW c \in Calls, CallStep(c) PROVE RunInv'
  <2>1. UNCHANGED <<ran, cache, life, completed, toHub>>
    BY <1>2 DEF CallStep, SendStep, Await, ReturnCached, Refuse, Register, Send, SendLost,
       SendRaises, Return, Cancelled, Timeout, TimeoutLate, storeVars, connVars, agentVars
  <2> QED
    BY <1>1, <2>1
<1>3. ASSUME NEW k \in Conns, ConnStep(k), ~HubReceive(k), ~AgentHandle(k), ~Drop(k)
      PROVE  RunInv'
  <2>1. UNCHANGED <<ran, cache, life, completed, toHub>>
    BY <1>3 DEF ConnStep, HubRegister, HubAck, HubPublish, HubUnregister, AgentOnline,
       AgentMisread, storeVars, connVars, agentVars
  <2> QED
    BY <1>1, <2>1
<1>4. ASSUME NEW k \in Conns, HubReceive(k) PROVE RunInv'
  <2> DEFINE m == Head(toHub[k])
  <2>1. UNCHANGED <<ran, cache, life>> /\ toHub' = [toHub EXCEPT ![k] = Tail(@)]
    BY <1>4 DEF HubReceive, agentVars
  <2>2. toHub[k] \in Seq(Result) /\ toHub[k] # <<>>
    BY <1>4 DEF HubReceive, TypeInv, TypeOK
  <2>3. /\ m \in Result /\ 1 \in DOMAIN toHub[k] /\ m = toHub[k][1]
        /\ \A i \in DOMAIN Tail(toHub[k]) :
              i + 1 \in DOMAIN toHub[k] /\ Tail(toHub[k])[i] = toHub[k][i + 1]
    BY <2>2, HeadTailProperties, LenProperties
  <2>4. \A j \in Conns : \A i \in DOMAIN toHub'[j] : HasRun(toHub'[j][i])
    BY <2>1, <2>3 DEF ResultsHaveRuns, TypeInv, TypeOK
  <2>5. HasRun(m)
    BY <2>3 DEF ResultsHaveRuns
  <2>6. completed' = completed \/ completed' = [completed EXCEPT ![m.req] = m]
    BY <1>4 DEF HubReceive, Complete, storeVars
  <2>7. \A r \in Requests : completed'[r] # None =>
            completed'[r].req = r /\ HasRun(completed'[r])
    <3> HIDE DEF m
    <3> QED
      BY <2>5, <2>6, SMTT(30) DEF ResultsHaveRuns, TypeInv, TypeOK
  <2>8. ResultsHaveRuns'
    BY <2>1, <2>4, <2>7 DEF ResultsHaveRuns, HasRun, RunIn
  <2>9. RunsAreOrdered' /\ NoRunAfterSuccess'
    BY <2>1 DEF RunsAreOrdered, NoRunAfterSuccess
  <2> QED
    BY <2>8, <2>9
<1>5. ASSUME NEW k \in Conns, AgentHandle(k) PROVE RunInv'
  <2> DEFINE m == Head(toAgent[k])
  <2>1. m \in Command
    BY <1>5, HeadIsCommand
  <2>2. PICK reply \in Result :
           /\ Dispatch(m, reply)
           /\ toHub' = IF status[k] = "open"
                       THEN [toHub EXCEPT ![k] = Append(@, reply)] ELSE toHub
    BY <1>5 DEF AgentHandle
  <2>3. life' = life /\ completed' = completed
    BY <1>5 DEF AgentHandle, storeVars
  <2> HIDE DEF m
  <2>4. /\ Extends(ran, ran')
        /\ reply.req = m.req
        /\ RunIn(ran', reply)
        /\ \A r \in Requests : cache'[r] # None => cache'[r].req = r /\ RunIn(ran', cache'[r])
        /\ RunsAreOrdered'
        /\ NoRunAfterSuccess'
    BY <2>1, <2>2, <2>3, DispatchRuns
  <2>5. \A x \in Result : RunIn(ran, x) => RunIn(ran', x)
    BY <2>4, RunsGrow DEF Result
  <2>6. \A j \in Conns : \A i \in DOMAIN toHub'[j] : RunIn(ran', toHub'[j][i])
    <3> SUFFICES ASSUME NEW j \in Conns, NEW i \in DOMAIN toHub'[j]
                 PROVE  RunIn(ran', toHub'[j][i])
      OBVIOUS
    <3>1. toHub[j] \in Seq(Result) /\ toHub \in [Conns -> Seq(Result)]
      BY DEF TypeInv, TypeOK
    <3>2. ASSUME i \in DOMAIN toHub[j] PROVE RunIn(ran', toHub[j][i])
      <4>1. toHub[j][i] \in Result
        BY <3>1, <3>2, ElementOfSeq, LenProperties
      <4> QED
        BY <3>2, <4>1, <2>5 DEF ResultsHaveRuns, HasRun
    <3>3. CASE toHub'[j] = toHub[j]
      BY <3>2, <3>3
    <3>4. CASE toHub'[j] = Append(toHub[j], reply)
      <4>1. (i \in DOMAIN toHub[j] /\ toHub'[j][i] = toHub[j][i]) \/ toHub'[j][i] = reply
        BY <3>1, <3>4, AppendProperties, LenProperties
      <4> QED
        BY <2>4, <3>2, <4>1
    <3> QED
      BY <2>2, <3>1, <3>3, <3>4
  <2>7. \A r \in Requests : completed'[r] # None =>
            completed'[r].req = r /\ RunIn(ran', completed'[r])
    BY <2>3, <2>5 DEF ResultsHaveRuns, HasRun, TypeInv, TypeOK
  <2> QED
    BY <2>4, <2>6, <2>7 DEF ResultsHaveRuns, HasRun
<1>6. ASSUME NEW k \in Conns, Drop(k) PROVE RunInv'
  <2>1. UNCHANGED <<ran, cache, life, completed>>
    BY <1>6 DEF Drop, storeVars, agentVars
  <2>2. PICK s \in Prefixes(toHub[k]) : toHub' = [toHub EXCEPT ![k] = s]
    BY <1>6 DEF Drop
  <2>3. \A i \in DOMAIN s : i \in DOMAIN toHub[k] /\ s[i] = toHub[k][i]
    <3>1. toHub[k] \in Seq(Result)
      BY DEF TypeInv, TypeOK
    <3> QED
      BY <3>1, PrefixType
  <2>4. \A j \in Conns : \A i \in DOMAIN toHub'[j] : HasRun(toHub'[j][i])
    BY <2>2, <2>3 DEF ResultsHaveRuns, TypeInv, TypeOK
  <2> QED
    BY <2>1, <2>4 DEF ResultsHaveRuns, RunsAreOrdered, NoRunAfterSuccess, HasRun, RunIn
<1>7. CASE AgentCrash
  <2>1. /\ life \in Nat /\ life' = life + 1 /\ UNCHANGED <<ran, completed, toHub>>
        /\ cache' = [r \in Requests |-> None]
    BY <1>7 DEF AgentCrash, storeVars, TypeInv, TypeOK
  <2>2. ResultsHaveRuns' /\ NoRunAfterSuccess'
    BY <2>1 DEF ResultsHaveRuns, NoRunAfterSuccess, HasRun, RunIn
  <2>3. \A r \in Requests : \A i \in DOMAIN ran[r] : ran[r][i].life \in Nat
    <3>1. \A x \in Run : x.life \in Nat
      BY DEF Run
    <3>2. \A r \in Requests : \A i \in DOMAIN ran[r] : ran[r][i] \in Run
      BY ElementOfSeq, LenProperties DEF TypeInv, TypeOK
    <3> QED
      BY <3>1, <3>2
  <2>4. RunsAreOrdered'
    BY <2>1, <2>3 DEF RunsAreOrdered
  <2> QED
    BY <2>2, <2>4
<1> QED
  BY <1>2, <1>3, <1>4, <1>5, <1>6, <1>7 DEF Next

-----------------------------------------------------------------------------
(* The inductive invariant                                                 *)

(* The invariant holds initially. *)
LEMMA InitIInv == Init => IInv
<1>1. Init => AckOnce
  BY DEF Init, AckOnce
<1> QED
  BY <1>1, InitType, InitStore, InitPublish, InitRuns DEF IInv

(* Every step of the callers, the hub, the agent and the network preserves *)
(* it, and so does a step that changes nothing.                            *)
LEMMA StepIInv == IInv /\ [Next]_vars => IInv'
<1> SUFFICES ASSUME IInv, [Next]_vars PROVE IInv'
  OBVIOUS
<1>1. CASE Next
  <2>1. TypeInv'
    BY <1>1, CallType, ConnType, CrashType DEF Next, IInv
  <2> QED
    BY <1>1, <2>1, AckStep, StoreStep, PublishStep, RunStep DEF IInv, RunInv
<1>2. CASE UNCHANGED vars
  BY <1>2 DEF IInv, vars, callVars, storeVars, connVars, hubVars, agentVars, TypeInv, TypeOK,
     ActiveCalls, AckOnce, StoreInv, IdleIsFresh, SharedByRequest, PendingIsOpen,
     ResolvedIsStored, WaiterIsReachable, ReturnedIsStored, CallersAgree, PublishInv,
     ResultsHaveRuns, RunsAreOrdered, NoRunAfterSuccess, HasRun, RunIn
<1> QED
  BY <1>1, <1>2

(* Every reachable state satisfies the invariant. *)
THEOREM Invariance == Spec => []IInv
BY InitIInv, StepIInv, PTL DEF Spec

(* The variables keep their types. *)
THEOREM TypeCorrect == Spec => []TypeOK
<1>1. IInv => TypeOK
  BY DEF IInv, TypeInv
<1> QED
  BY <1>1, Invariance, PTL

(* No wake-up is lost: the pending table leads to every undecided future   *)
(* somebody waits for.                                                     *)
THEOREM NoLostWakeup == Spec => []WaiterIsReachable
<1>1. IInv => WaiterIsReachable
  BY DEF IInv, StoreInv
<1> QED
  BY <1>1, Invariance, PTL

(* All callers of a request that get an answer get the stored one. *)
THEOREM OneAnswer == Spec => []CallersAgree
<1>1. IInv => CallersAgree
  BY DEF IInv, StoreInv
<1> QED
  BY <1>1, Invariance, PTL

(* The session hears of a result at most once, and of the stored one. *)
THEOREM OneBroadcast == Spec => []PublishedOnce
<1>1. IInv => PublishedOnce
  BY DEF IInv, PublishInv, PublishedOnce
<1> QED
  BY <1>1, Invariance, PTL

(* No handler runs after a success of its request in one agent's life. *)
THEOREM SuccessIsLast == Spec => []NoRunAfterSuccess
<1>1. IInv => NoRunAfterSuccess
  BY DEF IInv
<1> QED
  BY <1>1, Invariance, PTL

(* A stored result that claims a handler execution has one. *)
THEOREM StoredHasRun == Spec => []ResultHasRun
<1>1. IInv => ResultHasRun
  BY DEF IInv, ResultsHaveRuns, HasRun, RunIn, ResultHasRun
<1> QED
  BY <1>1, Invariance, PTL

-----------------------------------------------------------------------------
(* Refinement                                                              *)

(* The initial state of the service is that of the implementation. *)
LEMMA RefineInit == Init => Service!Init
BY DEF Init, Service!Init, ServiceState

(* A step of a caller is a step of the service, or changes nothing of it. *)
LEMMA RefineCall ==
    ASSUME TypeInv, StoreInv, NEW c \in Calls, CallStep(c)
    PROVE  [Service!Next]_(Service!vars)
<1> USE NoneAssumption DEF TypeInv, TypeOK, callVars, storeVars, connVars, hubVars, agentVars, ServiceState
<1>1. ASSUME NEW r \in Requests, ReturnCached(c, r) PROVE Service!AskAgain(c, r)
  BY <1>1 DEF ReturnCached, Service!AskAgain
<1>2. ASSUME NEW r \in Requests, Refuse(c, r) PROVE Service!Refuse(c, r)
  BY <1>2 DEF Refuse, Service!Refuse
<1>3. ASSUME NEW r \in Requests, Register(c, r) PROVE Service!Ask(c, r)
  BY <1>3 DEF Register, Service!Ask
<1>4. CASE Send(c) \/ SendLost(c)
  <2>1. [d \in Calls |-> ServiceState(d)]' = [d \in Calls |-> ServiceState(d)]
    BY <1>4 DEF Send, SendLost
  <2> QED
    BY <1>4, <2>1 DEF Send, SendLost, Service!vars
<1>5. CASE SendRaises(c) \/ Cancelled(c) \/ TimeoutLate(c)
  <2>1. Service!Fail({c})
    BY <1>5 DEF SendRaises, Cancelled, TimeoutLate, Service!Fail
  <2> QED
    BY <2>1 DEF Service!Next
<1>6. CASE Return(c)
  <2>1. value[fut[c]] = completed[req[c]] /\ completed[req[c]] # None
    BY <1>6 DEF Return, ActiveCalls, StoreInv, SharedByRequest, ResolvedIsStored
  <2>2. Service!Return(c)
    BY <1>6, <2>1 DEF Return, Service!Return
  <2> QED
    BY <2>2 DEF Service!Next
<1>7. CASE Timeout(c)
  <2> DEFINE S == Sharing(c)
  <2>1. Service!Fail(S)
    BY <1>7 DEF Timeout, Sharing, Service!Fail
  <2>2. S \in SUBSET Calls
    BY DEF Sharing
  <2> HIDE DEF S
  <2>3. \E T \in SUBSET Calls : Service!Fail(T)
    <3> HIDE DEF TypeOK, TypeInv, ServiceState
    <3> QED
      BY <2>1, <2>2 DEF Service!Fail
  <2> QED
    BY <2>3 DEF Service!Next
<1> QED
  BY <1>1, <1>2, <1>3, <1>4, <1>5, <1>6, <1>7 DEF CallStep, SendStep, Await, Service!Next

(* On the hub's side of a connection, storing a first result answers its   *)
(* request and the broadcast announces the answer; the rest is hidden.     *)
LEMMA RefineConn ==
    ASSUME TypeInv, PublishInv, NEW k \in Conns, ConnStep(k)
    PROVE  [Service!Next]_(Service!vars)
<1> USE NoneAssumption DEF TypeInv, TypeOK, callVars, storeVars, connVars, hubVars, agentVars
<1>1. ASSUME UNCHANGED <<pc, req, ret, completed, published>> PROVE UNCHANGED Service!vars
  BY <1>1 DEF Service!vars, ServiceState
<1>2. CASE HubReceive(k)
  <2> DEFINE m == Head(toHub[k])
  <2>1. m \in Result /\ m.req \in Requests
    <3>1. m \in Result
      BY <1>2, HeadTailProperties DEF HubReceive
    <3> QED
      BY <3>1 DEF Result
  <2>2. UNCHANGED <<pc, req, ret, published>>
    BY <1>2 DEF HubReceive
  <2>3. CASE IsNew(m) /\ Complete(m)
    <3>1. Service!Answer(m.req, m)
      BY <2>2, <2>3 DEF IsNew, Complete, Service!Answer, ServiceState
    <3> QED
      BY <2>1, <3>1 DEF Service!Next
  <2>4. CASE UNCHANGED storeVars
    BY <1>1, <2>2, <2>4
  <2> QED
    BY <1>2, <2>3, <2>4 DEF HubReceive
<1>3. CASE HubPublish(k)
  <2> DEFINE m == publishing[k]
  <2>1. /\ m # None /\ m \in Result /\ m.req \in Requests
        /\ published' = [published EXCEPT ![m.req] = Append(@, m)]
        /\ UNCHANGED <<pc, req, ret, completed>>
    BY <1>3 DEF HubPublish, Result
  <2>2. completed[m.req] = m /\ published[m.req] = <<>>
    BY <2>1 DEF PublishInv
  <2>3. published' = [published EXCEPT ![m.req] = <<completed[m.req]>>]
    BY <2>1, <2>2
  <2> HIDE DEF m
  <2>4. Service!Announce(m.req)
    BY <2>1, <2>2, <2>3 DEF Service!Announce, ServiceState
  <2> QED
    BY <2>1, <2>4 DEF Service!Next
<1>4. CASE ~HubReceive(k) /\ ~HubPublish(k)
  <2>1. UNCHANGED <<pc, req, ret, completed, published>>
    BY <1>4 DEF ConnStep, HubRegister, HubAck, HubUnregister, AgentOnline, AgentMisread,
       AgentHandle, Drop
  <2> QED
    BY <1>1, <2>1
<1> QED
  BY <1>2, <1>3, <1>4

(* Every step of the implementation is a step of the service or a stutter. *)
LEMMA RefineStep == IInv /\ [Next]_vars => [Service!Next]_(Service!vars)
<1> SUFFICES ASSUME IInv, [Next]_vars PROVE [Service!Next]_(Service!vars)
  OBVIOUS
<1> USE DEF callVars, storeVars, connVars, hubVars, agentVars
<1>1. ASSUME UNCHANGED <<pc, req, ret, completed, published>> PROVE UNCHANGED Service!vars
  BY <1>1 DEF Service!vars, ServiceState
<1>2. CASE AgentCrash \/ UNCHANGED vars
  BY <1>1, <1>2 DEF AgentCrash, vars
<1> QED
  BY <1>2, RefineCall, RefineConn DEF Next, IInv

(* The hub with its agent implements the abstract tool service: one answer *)
(* per request, which never changes and is announced at most once.         *)
THEOREM Refinement == Spec => ImplementsService
<1>1. Init => Service!Init
  BY RefineInit
<1>2. IInv /\ [Next]_vars => [Service!Next]_(Service!vars)
  BY RefineStep
<1> QED
  BY <1>1, <1>2, Invariance, PTL DEF Spec, ImplementsService, Service!Spec
=============================================================================
