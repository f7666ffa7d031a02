-------------------------- MODULE SessionQuietProofs --------------------------
(***************************************************************************)
(* Proofs about SessionSync: what the clients show when nothing is on its  *)
(* way.  For any devices, requests, bounds and restarts.                   *)
(*                                                                         *)
(* The messages for a device are a line: those on its connection, then the *)
(* sends that wait in the event loop.  A message is wrong about a field if *)
(* it takes the client away from the session's value, right if it brings   *)
(* it there.  The invariant: behind every wrong message of the line comes  *)
(* a right one, and the client shows the value or a right one comes; or a  *)
(* handler has still to echo it.  Turns, owners and lanes are what that    *)
(* needs to be kept.                                                       *)
(***************************************************************************)
EXTENDS SessionSyncProofs

-----------------------------------------------------------------------------
(* Turns. Who awaits is in the event loop's queue, once, or has the turn.  *)

Waiting == {"connecting", "saving", "echoing", "closing"}

Turn(q, r, p) ==
    /\ \A h \in Handlers : p[h] \in Waiting => r = h \/ \E i \in DOMAIN q : q[i] = Resume(h)
    /\ \A h \in Handlers : \A i \in DOMAIN q : q[i] = Resume(h) =>
          /\ p[h] \in Waiting /\ r # h
          /\ \A j \in DOMAIN q : q[j] = Resume(h) => i = j

(* A handler that goes on from its broadcast without waiting had nobody to *)
(* send to.                                                                *)
TurnInv ==
    /\ Turn(ready, running, pc)
    /\ \A h \in Handlers : running = h /\ pc[h] \in {"saving", "echoing"} => Registered = {}

(* The queue r is q without its first n tasks and with tasks of N added.   *)
Grown(q, r, n, N) ==
    /\ n \in Nat /\ n <= Len(q) /\ Len(q) <= Len(r) + n
    /\ \A i \in 1..Len(r) : IF i + n <= Len(q) THEN r[i] = q[i + n] ELSE r[i] \in N

LEMMA GrownItself == ASSUME NEW q \in Seq(Task), NEW N PROVE Grown(q, q, 0, N)
BY DEF Grown

LEMMA GrownTail ==
    ASSUME NEW q \in Seq(Task), q # <<>>, NEW N PROVE Grown(q, Tail(q), 1, N)
BY DEF Grown

(* What was in the queue is in it still, in the same order. *)
LEMMA GrownIndices ==
    ASSUME NEW q \in Seq(Task), NEW r \in Seq(Task), NEW n, NEW N, Grown(q, r, n, N)
    PROVE  /\ n \in Nat
           /\ \A i \in DOMAIN q : i \in Nat /\ (i > n => i - n \in DOMAIN r /\ r[i - n] = q[i])
           /\ \A i \in DOMAIN r :
                 /\ i \in Nat
                 /\ \/ i + n \in DOMAIN q /\ r[i] = q[i + n]
                    \/ i + n > Len(q) /\ r[i] \in N
<1>1. /\ n \in Nat /\ n <= Len(q) /\ Len(q) <= Len(r) + n
      /\ \A i \in 1..Len(r) : IF i + n <= Len(q) THEN r[i] = q[i + n] ELSE r[i] \in N
  BY DEF Grown
<1>2. DOMAIN q = 1..Len(q) /\ DOMAIN r = 1..Len(r) /\ Len(q) \in Nat /\ Len(r) \in Nat
  OBVIOUS
<1>3. ASSUME NEW i \in DOMAIN q, i > n PROVE i - n \in DOMAIN r /\ r[i - n] = q[i]
  <2>1. i - n \in 1..Len(r) /\ (i - n) + n = i /\ i <= Len(q)
    BY <1>1, <1>2, <1>3
  <2> QED
    BY <1>1, <1>2, <2>1
<1>4. ASSUME NEW i \in DOMAIN r
      PROVE  \/ i + n \in DOMAIN q /\ r[i] = q[i + n]
             \/ i + n > Len(q) /\ r[i] \in N
  BY <1>1, <1>2
<1> QED
  BY <1>1, <1>2, <1>3, <1>4

(* The handler h waits behind new tasks of N. *)
Queued(q, h, N) ==
    /\ running' = NoConn
    /\ ready' \in Seq(Task)
    /\ Grown(q, ready', 0, N \cup {Resume(h)})
    /\ Len(ready') \in DOMAIN ready' /\ Len(ready') > Len(q)
    /\ ready'[Len(ready')] = Resume(h)
    /\ \A i \in DOMAIN ready' : Len(q) < i /\ i < Len(ready') => ready'[i].task = "send"

LEMMA AwaitGrows ==
    ASSUME NEW q \in Seq(Task), NEW h \in Handlers, NEW targets, NEW tasks \in Seq(Task),
           Await(q, h, targets, tasks), NEW N,
           \A i \in DOMAIN tasks : tasks[i] \in N /\ tasks[i].task = "send"
    PROVE  \/ targets = {} /\ ready' = q /\ running' = h
           \/ /\ targets # {} /\ Queued(q, h, N)
              /\ \A j \in DOMAIN tasks :
                    Len(q) + j \in DOMAIN ready' /\ ready'[Len(q) + j] = tasks[j]
<1> DEFINE b == Append(q \o tasks, Resume(h))
<1>1. Resume(h) \in Task
  BY DEF Resume, Task
<1>2. /\ b \in Seq(Task) /\ Len(b) = Len(q) + Len(tasks) + 1
      /\ Len(q) \in Nat /\ Len(tasks) \in Nat
      /\ DOMAIN b = 1..Len(b) /\ DOMAIN tasks = 1..Len(tasks) /\ DOMAIN q = 1..Len(q)
  BY <1>1
<1>3. /\ \A i \in 1..Len(q) : b[i] = q[i]
      /\ \A i \in 1..Len(tasks) : b[Len(q) + i] = tasks[i]
      /\ b[Len(b)] = Resume(h)
  BY <1>1, <1>2
<1> HIDE DEF b
<1>4. \A i \in 1..Len(b) :
          \/ i <= Len(q)
          \/ i = Len(b)
          \/ i - Len(q) \in 1..Len(tasks) /\ i = Len(q) + (i - Len(q))
  BY <1>2
<1>5. \A i \in 1..Len(b) : Len(q) < i /\ i < Len(b) => b[i] \in N /\ b[i].task = "send"
  <2> TAKE i \in 1..Len(b)
  <2> HAVE Len(q) < i /\ i < Len(b)
  <2>1. i - Len(q) \in 1..Len(tasks) /\ b[i] = tasks[i - Len(q)]
    BY <1>2, <1>3, <1>4
  <2> QED
    BY <1>2, <2>1
<1>6. Grown(q, b, 0, N \cup {Resume(h)})
  <2>1. ASSUME NEW i \in 1..Len(b)
        PROVE  /\ i + 0 = i
               /\ i \notin 1..Len(q) => Len(q) < i /\ (i = Len(b) \/ i < Len(b))
    <3>1. i \in Nat /\ 1 <= i /\ i <= Len(b) /\ Len(b) \in Nat /\ Len(q) \in Nat
      BY <1>2
    <3> QED
      BY <3>1
  <2>2. \A i \in 1..Len(b) :
            IF i + 0 <= Len(q) THEN b[i] = q[i + 0] ELSE b[i] \in N \cup {Resume(h)}
    <3> TAKE i \in 1..Len(b)
    <3>1. CASE i \in 1..Len(q)
      BY <1>2, <1>3, <2>1, <3>1
    <3>2. CASE i \notin 1..Len(q)
      <4>1. ~(i <= Len(q)) /\ b[i] \in N \cup {Resume(h)}
        BY <1>2, <1>3, <1>5, <2>1, <3>2
      <4> QED
        BY <2>1, <4>1
    <3> QED
      BY <3>1, <3>2
  <2> QED
    BY <1>2, <2>2 DEF Grown
<1>7. CASE targets = {}
  BY <1>7 DEF Await
<1>8. CASE targets # {}
  <2>1. ready' = b /\ running' = NoConn
    BY <1>8 DEF Await, b
  <2>2. \A j \in DOMAIN tasks : Len(q) + j \in DOMAIN b /\ b[Len(q) + j] = tasks[j]
    BY <1>2, <1>3
  <2> QED
    BY <1>2, <1>3, <1>5, <1>6, <1>8, <2>1, <2>2 DEF Queued
<1> QED
  BY <1>7, <1>8

(* One send to each of a set of devices, and to no other. *)
LEMMA SendsToAll ==
    ASSUME NEW D \in SUBSET Devices, NEW m \in Message
    PROVE  LET T == {Send(d, m) : d \in D}
               q == SetToSeq(T)
           IN  /\ q \in Seq(T) /\ q \in Seq(Task)
               /\ \A i \in DOMAIN q : q[i] \in T /\ q[i].task = "send"
               /\ \A d \in D : \E i \in DOMAIN q : q[i] = Send(d, m)
<1> DEFINE T == {Send(d, m) : d \in D}
           n == Cardinality(T)
           q == SetToSeq(T)
<1>1. IsFiniteSet(D)
  BY DevicesAssumption, FS_Subset
<1>2. IsFiniteSet(T)
  <2> DEFINE f == [d \in D |-> Send(d, m)]
  <2>1. f \in Surjection(D, T)
    BY DEF Surjection
  <2> QED
    BY <1>1, <2>1, FS_Surjection
<1>3. n \in Nat /\ ExistsBijection(1..n, T)
  BY <1>2, FS_CardinalityType
<1>4. \E f \in [1..n -> T] : IsInjective(f)
  BY <1>3 DEF ExistsBijection, Bijection, Injection
<1>5. q \in [1..n -> T] /\ IsInjective(q)
  BY <1>4 DEF SetToSeq
<1>6. q \in Injection(1..n, T)
  BY <1>5 DEF Injection
<1>7. Cardinality(1..n) = n
  BY <1>3, FS_Interval
<1>8. q \in Surjection(1..n, T)
  <2> HIDE DEF q, T
  <2> QED
    BY <1>2, <1>6, <1>7, FS_Injection
<1>9. \A t \in T : \E i \in 1..n : q[i] = t
  BY <1>8 DEF Surjection
<1>10. T \subseteq Task /\ \A t \in T : t.task = "send"
  BY DEF Send, Task
<1>11. \A d \in D : Send(d, m) \in T
  OBVIOUS
<1> HIDE DEF q, n, T
<1>12. q \in Seq(T) /\ q \in Seq(Task) /\ DOMAIN q = 1..n
  BY <1>3, <1>5, <1>10
<1>13. \A i \in DOMAIN q : q[i] \in T /\ q[i].task = "send"
  BY <1>5, <1>10, <1>12
<1>14. \A d \in D : \E i \in DOMAIN q : q[i] = Send(d, m)
  BY <1>9, <1>11, <1>12
<1> QED
  BY <1>12, <1>13, <1>14 DEF q, T

LEMMA BroadcastGrows ==
    ASSUME NEW q \in Seq(Task), NEW h \in Handlers, NEW m \in Message, Broadcast(q, h, m)
    PROVE  \/ Registered = {} /\ ready' = q /\ running' = h
           \/ /\ Registered # {} /\ Queued(q, h, {Send(d, m) : d \in Registered})
              /\ \A d \in Registered : \E i \in DOMAIN ready' :
                    Len(q) < i /\ ready'[i] = Send(d, m)
<1> DEFINE T == {Send(d, m) : d \in Registered}
           tasks == SetToSeq(T)
<1>1. Registered \in SUBSET Devices
  BY DEF Registered
<1>2. /\ tasks \in Seq(Task) /\ \A i \in DOMAIN tasks : tasks[i] \in T /\ tasks[i].task = "send"
      /\ \A d \in Registered : \E i \in DOMAIN tasks : tasks[i] = Send(d, m)
  BY <1>1, SendsToAll
<1>3. Await(q, h, Registered, tasks)
  BY DEF Broadcast
<1> HIDE DEF T, tasks
<1>4. \/ Registered = {} /\ ready' = q /\ running' = h
      \/ /\ Registered # {} /\ Queued(q, h, T)
         /\ \A j \in DOMAIN tasks :
               Len(q) + j \in DOMAIN ready' /\ ready'[Len(q) + j] = tasks[j]
  BY <1>2, <1>3, AwaitGrows
<1>5. CASE Registered = {}
  BY <1>4, <1>5
<1>6. CASE Registered # {}
  <2>1. \A d \in Registered : \E i \in DOMAIN ready' : Len(q) < i /\ ready'[i] = Send(d, m)
    <3> TAKE d \in Registered
    <3>1. PICK j \in DOMAIN tasks : tasks[j] = Send(d, m)
      BY <1>2
    <3>2. Len(q) \in Nat /\ j \in Nat /\ j > 0 /\ Len(q) < Len(q) + j
      BY <1>2
    <3> QED
      BY <1>4, <1>6, <3>1, <3>2
  <2> QED
    BY <1>4, <1>6, <2>1 DEF T
<1> QED
  BY <1>5, <1>6

(* An event of a caller that does not wait for it.                         *)
LEMMA EventGrows ==
    ASSUME Known, NEW m \in Message,
           ready' = ready \o SetToSeq({Send(d, m) : d \in Registered})
    PROVE  /\ ready' \in Seq(Task)
           /\ Grown(ready, ready', 0, {Send(d, m) : d \in Registered})
           /\ \A d \in Registered : \E i \in DOMAIN ready' :
                 Len(ready) < i /\ ready'[i] = Send(d, m)
<1> DEFINE T == {Send(d, m) : d \in Registered}
           tasks == SetToSeq(T)
           q == ready
           b == q \o tasks
<1>1. Registered \in SUBSET Devices
  BY DEF Registered
<1>2. /\ tasks \in Seq(Task) /\ \A i \in DOMAIN tasks : tasks[i] \in T
      /\ \A d \in Registered : \E i \in DOMAIN tasks : tasks[i] = Send(d, m)
  BY <1>1, SendsToAll
<1>3. ready' = b /\ q \in Seq(Task)
  BY DEF Known, Typed, LoopTyped
<1> HIDE DEF T, tasks, q
<1>4. /\ b \in Seq(Task) /\ Len(b) = Len(q) + Len(tasks)
      /\ Len(q) \in Nat /\ Len(tasks) \in Nat
      /\ DOMAIN b = 1..Len(b) /\ DOMAIN tasks = 1..Len(tasks) /\ DOMAIN q = 1..Len(q)
      /\ \A i \in 1..Len(q) : b[i] = q[i]
      /\ \A i \in 1..Len(tasks) : b[Len(q) + i] = tasks[i]
  BY <1>2, <1>3
<1> HIDE DEF b
<1>5. ASSUME NEW i \in 1..Len(b)
      PROVE  IF i + 0 <= Len(q) THEN b[i] = q[i + 0] ELSE b[i] \in T
  <2>1. i \in Nat /\ i + 0 = i
    BY <1>4
  <2>2. CASE i <= Len(q)
    <3>1. i \in 1..Len(q)
      BY <1>4, <2>1, <2>2
    <3> QED
      BY <1>4, <2>1, <2>2, <3>1
  <2>3. CASE ~(i <= Len(q))
    <3>1. i - Len(q) \in 1..Len(tasks) /\ Len(q) + (i - Len(q)) = i
      BY <1>4, <2>1, <2>3
    <3>2. b[i] = tasks[i - Len(q)]
      BY <1>4, <3>1
    <3> QED
      BY <1>2, <1>4, <2>1, <2>3, <3>1, <3>2
  <2> QED
    BY <2>2, <2>3
<1>6. Grown(q, b, 0, T)
  BY <1>4, <1>5 DEF Grown
<1>7. ASSUME NEW d \in Registered PROVE \E i \in DOMAIN b : Len(q) < i /\ b[i] = Send(d, m)
  <2>1. PICK j \in DOMAIN tasks : tasks[j] = Send(d, m)
    BY <1>2
  <2>2. Len(q) + j \in 1..Len(b) /\ Len(q) < Len(q) + j
    BY <1>4
  <2> QED
    BY <1>4, <2>1, <2>2
<1> QED
  BY <1>3, <1>4, <1>6, <1>7 DEF T, q

(* A handler that goes on: it had the turn, or is first in the queue.      *)
LEMMA RestGrows ==
    ASSUME LoopTyped, NEW h \in Handlers, Resumed(h), NEW N
    PROVE  /\ Rest \in Seq(Task)
           /\ \/ running = h /\ Rest = ready
              \/ /\ running = NoConn /\ Rest = Tail(ready) /\ ready # <<>>
                 /\ ready[1] = Resume(h) /\ 1 \in DOMAIN ready
           /\ \E n \in {0, 1} : /\ Grown(ready, Rest, n, N)
                                /\ n = 1 => ready[1] = Resume(h)
<1>1. h # NoConn /\ ready \in Seq(Task) /\ Rest \in Seq(Task)
  BY ResumedRest, BoundAssumption DEF Handlers, Conns, Agent, NoConn, LoopTyped
<1>2. CASE running = h
  <2>1. Rest = ready
    BY <1>1, <1>2 DEF Rest
  <2> QED
    BY <1>1, <1>2, <2>1, GrownItself
<1>3. CASE running # h
  <2>1. running = NoConn /\ ready # <<>> /\ ready[1] = Resume(h) /\ Rest = Tail(ready)
    BY <1>3 DEF Resumed, Rest
  <2>2. Grown(ready, Tail(ready), 1, N) /\ 1 \in DOMAIN ready
    BY <1>1, <2>1, GrownTail
  <2> QED
    BY <1>1, <2>1, <2>2
<1> QED
  BY <1>2, <1>3

LEMMA QueueTypes ==
    ASSUME NEW q \in Seq(Task), NEW i \in DOMAIN q
    PROVE  /\ i \in Nat /\ q[i] \in Task
           /\ q[i].task = "send" => q[i].to \in Devices /\ q[i].msg \in Message
           /\ q[i].task = "send" => \A h : q[i] # Resume(h)
<1>1. i \in Nat /\ q[i] \in Task
  OBVIOUS
<1> QED
  BY <1>1 DEF Task, Resume

(* The handler h starts to wait, behind the queue q. *)
LEMMA TurnStarts ==
    ASSUME NEW q \in Seq(Task), NEW p, NEW r, NEW h \in Handlers, NEW N,
           Turn(q, NoConn, p), p[h] \notin Waiting, r[h] \in Waiting,
           \A g \in Handlers : g # h => r[g] = p[g],
           \/ ready' = q /\ running' = h
           \/ Queued(q, h, N)
    PROVE  Turn(ready', running', r)
<1>1. \A i \in DOMAIN q : q[i] # Resume(h)
  BY DEF Turn
<1>2. CASE ready' = q /\ running' = h
  <2>1. ASSUME NEW g \in Handlers, r[g] \in Waiting
        PROVE  running' = g \/ \E i \in DOMAIN ready' : ready'[i] = Resume(g)
    <3>1. CASE g # h
      <4>1. NoConn # g /\ p[g] \in Waiting
        BY <2>1, <3>1, BoundAssumption DEF Handlers, Conns, Agent, NoConn
      <4> QED
        BY <1>2, <4>1 DEF Turn
    <3> QED
      BY <1>2, <3>1
  <2>2. ASSUME NEW g \in Handlers, NEW i \in DOMAIN ready', ready'[i] = Resume(g)
        PROVE  /\ r[g] \in Waiting /\ running' # g
               /\ \A j \in DOMAIN ready' : ready'[j] = Resume(g) => i = j
    <3>1. g # h
      BY <1>1, <1>2, <2>2
    <3> QED
      BY <1>2, <2>2, <3>1 DEF Turn
  <2> QED
    BY <2>1, <2>2 DEF Turn
<1>3. CASE Queued(q, h, N)
  <2> DEFINE z == Len(ready')
  <2>1. /\ ready' \in Seq(Task) /\ running' = NoConn /\ z \in DOMAIN ready' /\ ready'[z] = Resume(h)
        /\ z > Len(q) /\ Grown(q, ready', 0, N \cup {Resume(h)})
        /\ \A i \in DOMAIN ready' : Len(q) < i /\ i < z => ready'[i].task = "send"
    BY <1>3 DEF Queued
  <2>2. /\ \A i \in DOMAIN q : i \in Nat /\ i \in DOMAIN ready' /\ ready'[i] = q[i]
        /\ \A i \in DOMAIN ready' : i \in Nat /\ i <= z /\ z \in Nat /\ Len(q) \in Nat
                                    /\ (i <= Len(q) => i \in DOMAIN q)
    <3>1. /\ DOMAIN q = 1..Len(q) /\ DOMAIN ready' = 1..z /\ z \in Nat /\ Len(q) \in Nat
      BY <2>1
    <3>2. \A i \in 1..z : i + 0 = i /\ (i + 0 <= Len(q) => ready'[i] = q[i + 0])
      BY <2>1, <3>1 DEF Grown
    <3> QED
      BY <2>1, <3>1, <3>2
  <2> HIDE DEF z
  <2>3. ASSUME NEW g \in Handlers, NEW i \in DOMAIN ready', ready'[i] = Resume(g)
        PROVE  \/ i \in DOMAIN q /\ q[i] = Resume(g) /\ g # h
               \/ i = z /\ g = h
    <3>1. CASE i <= Len(q)
      <4>1. i \in DOMAIN q /\ q[i] = Resume(g)
        BY <2>2, <2>3, <3>1
      <4> QED
        BY <1>1, <4>1
    <3>2. CASE Len(q) < i /\ i < z
      <4>1. ready'[i].task = "send"
        BY <2>1, <3>2
      <4> QED
        BY <2>3, <4>1 DEF Resume
    <3>3. CASE i = z
      BY <2>1, <2>3, <3>3 DEF Resume
    <3> QED
      BY <2>2, <3>1, <3>2, <3>3
  <2>4. ASSUME NEW g \in Handlers, r[g] \in Waiting
        PROVE  \E i \in DOMAIN ready' : ready'[i] = Resume(g)
    <3>1. CASE g # h
      <4>1. NoConn # g /\ p[g] \in Waiting
        BY <2>4, <3>1, BoundAssumption DEF Handlers, Conns, Agent, NoConn
      <4>2. PICK i \in DOMAIN q : q[i] = Resume(g)
        BY <4>1 DEF Turn
      <4> QED
        BY <2>2, <4>2
    <3> QED
      BY <2>1, <3>1
  <2>5. ASSUME NEW g \in Handlers, NEW i \in DOMAIN ready', ready'[i] = Resume(g)
        PROVE  r[g] \in Waiting /\ running' # g
    <3>1. NoConn # g
      BY BoundAssumption DEF Handlers, Conns, Agent, NoConn
    <3> QED
      BY <2>1, <2>3, <2>5, <3>1 DEF Turn
  <2>6. ASSUME NEW g \in Handlers, NEW i \in DOMAIN ready', ready'[i] = Resume(g),
               NEW j \in DOMAIN ready', ready'[j] = Resume(g)
        PROVE  i = j
    BY <2>3, <2>6 DEF Turn
  <2> QED
    BY <2>4, <2>5, <2>6 DEF Turn
<1> QED
  BY <1>2, <1>3

(* The handler h goes on. *)
LEMMA TurnEnds ==
    ASSUME LoopTyped, NEW h \in Handlers, Resumed(h), Turn(ready, running, pc), NEW p,
           p[h] \notin Waiting, \A g \in Handlers : g # h => p[g] = pc[g]
    PROVE  Turn(Rest, NoConn, p)
<1>1. \A g \in Handlers : g # NoConn
  BY BoundAssumption DEF Handlers, Conns, Agent, NoConn
<1>2. \/ running = h /\ Rest = ready
      \/ /\ running = NoConn /\ Rest = Tail(ready) /\ ready # <<>>
         /\ ready[1] = Resume(h) /\ 1 \in DOMAIN ready
  BY RestGrows
<1>3. CASE running = h /\ Rest = ready
  <2>1. \A i \in DOMAIN ready : ready[i] # Resume(h)
    BY <1>3 DEF Turn
  <2>2. ASSUME NEW g \in Handlers, p[g] \in Waiting
        PROVE  \E i \in DOMAIN ready : ready[i] = Resume(g)
    BY <1>3, <2>2 DEF Turn
  <2>3. ASSUME NEW g \in Handlers, NEW i \in DOMAIN ready, ready[i] = Resume(g)
        PROVE  /\ p[g] \in Waiting
               /\ \A j \in DOMAIN ready : ready[j] = Resume(g) => i = j
    BY <2>1, <2>3 DEF Turn
  <2> QED
    BY <1>1, <1>3, <2>2, <2>3 DEF Turn
<1>4. CASE /\ running = NoConn /\ Rest = Tail(ready) /\ ready # <<>>
           /\ ready[1] = Resume(h) /\ 1 \in DOMAIN ready
  <2> DEFINE t == Tail(ready)
  <2>1. ready \in Seq(Task)
    BY DEF LoopTyped
  <2>2. /\ \A i \in DOMAIN t : i \in Nat /\ i + 1 \in DOMAIN ready /\ t[i] = ready[i + 1] /\ i + 1 # 1
        /\ \A i \in DOMAIN ready : i # 1 => i \in Nat /\ i - 1 \in DOMAIN t /\ t[i - 1] = ready[i]
    BY <1>4, <2>1
  <2> HIDE DEF t
  <2>3. ASSUME NEW g \in Handlers, p[g] \in Waiting
        PROVE  \E i \in DOMAIN t : t[i] = Resume(g)
    <3>1. g # h /\ pc[g] \in Waiting /\ running # g
      BY <1>1, <1>4, <2>3
    <3>2. PICK i \in DOMAIN ready : ready[i] = Resume(g)
      BY <3>1 DEF Turn
    <3>3. i # 1
      BY <1>4, <3>1, <3>2 DEF Resume
    <3> QED
      BY <2>2, <3>2, <3>3
  <2>4. ASSUME NEW g \in Handlers, NEW i \in DOMAIN t, t[i] = Resume(g)
        PROVE  /\ p[g] \in Waiting
               /\ \A j \in DOMAIN t : t[j] = Resume(g) => i = j
    <3>1. i + 1 \in DOMAIN ready /\ ready[i + 1] = Resume(g) /\ i + 1 # 1 /\ i \in Nat
      BY <2>2, <2>4
    <3>2. g # h
      BY <1>4, <3>1 DEF Turn
    <3>3. ASSUME NEW j \in DOMAIN t, t[j] = Resume(g) PROVE i = j
      <4>1. j + 1 \in DOMAIN ready /\ ready[j + 1] = Resume(g) /\ j \in Nat
        BY <2>2, <3>3
      <4>2. i + 1 = j + 1
        BY <3>1, <4>1 DEF Turn
      <4> QED
        BY <3>1, <4>1, <4>2
    <3> QED
      BY <3>1, <3>2, <3>3 DEF Turn
  <2> QED
    BY <1>1, <1>4, <2>3, <2>4 DEF Turn, t
<1> QED
  BY <1>2, <1>3, <1>4

(* What a mutation of the session by the handler h is, whatever its kind.  *)
Mutation(h, kind, next, m) ==
    /\ Mutate(h, kind, next, m)
    /\ next \in SessionType /\ next.v = session.v /\ m \in Message
    /\ IF kind = "chat"
       THEN /\ next.data = session.data /\ next.msgs = Append(session.msgs, clock + 1)
            /\ m = [kind |-> "chat", msg |-> clock + 1]
       ELSE /\ next.msgs = session.msgs
            /\ \A f \in Fields :
                  next.data[f] = IF f = FieldOf(kind) \/ (kind = "associate" /\ f = "device")
                                 THEN clock + 1 ELSE session.data[f]
            /\ m = IF kind \in Announced THEN Update(kind) ELSE Set(FieldOf(kind), clock + 1)

LEMMA MutationIs ==
    ASSUME Known, Durable,
           \/ \E k \in Conns : \/ \E kind \in Announced : HubUpdate(k, kind)
                               \/ HubChat(k) \/ HubAssociate(k)
           \/ HubDetected
    PROVE  \E h \in Handlers, kind \in Announced \cup Unannounced :
               \E next, m : Mutation(h, kind, next, m)
<1>1. /\ \A fs : /\ Wrote(session, fs) \in SessionType /\ Wrote(session, fs).v = session.v
                 /\ Wrote(session, fs).msgs = session.msgs
                 /\ \A f \in Fields : Wrote(session, fs).data[f]
                                        = IF f \in fs THEN clock + 1 ELSE session.data[f]
      /\ session \in SessionType /\ clock + 1 \in Nat
  BY WroteType DEF Durable, Types
<1>2. ASSUME NEW k \in Conns, NEW kind \in Announced, HubUpdate(k, kind)
      PROVE  \E next : Mutation(k, kind, next, Update(kind))
  <2> DEFINE w == Wrote(session, {FieldOf(kind)})
             next == [w EXCEPT !.paused = IF FieldOf(kind) = "status" THEN kind = "pause" ELSE @]
  <2>1. Update(kind) \in Message /\ kind \notin {"chat", "associate"}
    BY MessageTypes DEF Known, Announced
  <2>2. Mutate(k, kind, next, Update(kind))
    BY <1>2 DEF HubUpdate
  <2>3. /\ w \in SessionType /\ w.v = session.v /\ w.msgs = session.msgs
        /\ \A f \in Fields : w.data[f] = IF f = FieldOf(kind) THEN clock + 1 ELSE session.data[f]
    BY <1>1
  <2> HIDE DEF w
  <2>4. next \in SessionType /\ next.v = session.v /\ next.data = w.data /\ next.msgs = session.msgs
    BY <2>3 DEF SessionType
  <2> HIDE DEF next
  <2> QED
    BY <2>1, <2>2, <2>3, <2>4 DEF Mutation
<1>3. ASSUME NEW k \in Conns, HubChat(k) PROVE \E next, m : Mutation(k, "chat", next, m)
  <2> DEFINE m == [kind |-> "chat", msg |-> clock + 1]
             next == [session EXCEPT !.msgs = Append(@, clock + 1)]
  <2>1. m \in Message
    BY MessageTypes DEF Known
  <2>2. Mutate(k, "chat", next, m)
    BY <1>3 DEF HubChat
  <2>3. session.msgs \in Seq(Nat) /\ Append(session.msgs, clock + 1) \in Seq(Nat)
    BY <1>1, AppendSet DEF SessionType
  <2>4. /\ next \in SessionType /\ next.v = session.v /\ next.data = session.data
        /\ next.msgs = Append(session.msgs, clock + 1)
    BY <1>1, <2>3 DEF SessionType
  <2> HIDE DEF next
  <2> QED
    BY <2>1, <2>2, <2>4 DEF Mutation
<1>4. ASSUME NEW k \in Conns, HubAssociate(k)
      PROVE  \E next, m : Mutation(k, "associate", next, m)
  <2> DEFINE next == Wrote(session, {"association", "device"})
  <2>1. Set("association", clock + 1) \in Message
    BY <1>1, MessageTypes, FieldsAre DEF Known
  <2>2. Mutate(k, "associate", next, Set("association", clock + 1))
    BY <1>4 DEF HubAssociate
  <2>3. FieldOf("associate") = "association" /\ "associate" \notin Announced
    BY DEF FieldOf, Announced
  <2>4. /\ next \in SessionType /\ next.v = session.v /\ next.msgs = session.msgs
        /\ \A f \in Fields : next.data[f] = IF f = "association" \/ f = "device"
                                            THEN clock + 1 ELSE session.data[f]
    BY <1>1
  <2> HIDE DEF next
  <2> QED
    BY <2>1, <2>2, <2>3, <2>4 DEF Mutation
<1>5. ASSUME HubDetected PROVE \E next, m : Mutation(Agent, "detected", next, m)
  <2> DEFINE next == Wrote(session, {"detected"})
  <2>1. Set("detected", clock + 1) \in Message
    BY <1>1, MessageTypes, FieldsAre DEF Known
  <2>2. Mutate(Agent, "detected", next, Set("detected", clock + 1))
    BY <1>5 DEF HubDetected
  <2>3. FieldOf("detected") = "detected" /\ "detected" \notin Announced
    BY DEF FieldOf, Announced
  <2>4. /\ next \in SessionType /\ next.v = session.v /\ next.msgs = session.msgs
        /\ \A f \in Fields : next.data[f] = IF f = "detected" THEN clock + 1 ELSE session.data[f]
    BY <1>1
  <2> HIDE DEF next
  <2> QED
    BY <2>1, <2>2, <2>3, <2>4 DEF Mutation
<1>6. /\ Agent \in Handlers /\ Conns \subseteq Handlers
      /\ {"chat", "associate", "detected"} \subseteq Unannounced
  BY DEF Handlers, Unannounced
<1> QED
  BY <1>2, <1>3, <1>4, <1>5, <1>6

-----------------------------------------------------------------------------

LEMMA InitTurn == Init => TurnInv
<1> SUFFICES ASSUME Init PROVE TurnInv
  OBVIOUS
<1>1. \A h \in Handlers : h # NoConn
  BY BoundAssumption DEF Handlers, Conns, Agent, NoConn
<1> QED
  BY <1>1 DEF Init, TurnInv, Turn, Waiting

LEMMA MutateTurn ==
    ASSUME TurnInv, Known, NEW h \in Handlers, NEW kind, NEW next, NEW m \in Message,
           Mutate(h, kind, next, m)
    PROVE  TurnInv'
<1>1. /\ running = NoConn /\ pc[h] = "reading" /\ Broadcast(ready, h, m)
      /\ pc' = [pc EXCEPT ![h] = "saving"] /\ reg' = reg
  BY DEF Mutate
<1>2. ready \in Seq(Task) /\ pc'[h] = "saving" /\ \A g \in Handlers : g # h => pc'[g] = pc[g]
  BY <1>1 DEF Known, Typed, LoopTyped, Types
<1> DEFINE N == {Send(d, m) : d \in Registered}
<1>3. \/ Registered = {} /\ ready' = ready /\ running' = h
      \/ Registered # {} /\ Queued(ready, h, N)
  BY <1>1, <1>2, BroadcastGrows
<1> HIDE DEF N
<1>5. Turn(ready', running', pc')
  <2>1. Turn(ready, NoConn, pc) /\ pc[h] \notin Waiting /\ pc'[h] \in Waiting
    BY <1>1, <1>2 DEF TurnInv, Waiting
  <2> QED
    BY <1>2, <1>3, <2>1, TurnStarts
<1>6. \A g \in Handlers : g # NoConn
  BY BoundAssumption DEF Handlers, Conns, Agent, NoConn
<1>7. \A g \in Handlers : running' = g => Registered' = {}
  BY <1>1, <1>3, <1>6 DEF Queued, Registered
<1> QED
  BY <1>5, <1>7 DEF TurnInv

(* A handler that only announces who has come or gone. *)
LEMMA AnnounceTurn ==
    ASSUME TurnInv, Known, NEW k \in Conns, HubConnect(k) \/ HubEnd(k)
    PROVE  TurnInv'
<1>1. /\ running = NoConn /\ pc[k] \in {"accepted", "reading"} /\ reg' = reg
      /\ pc' = [pc EXCEPT ![k] = "connecting"] \/ pc' = [pc EXCEPT ![k] = "closing"]
      /\ \E targets : Await(ready, k, targets, <<>>)
  BY DEF HubConnect, HubEnd
<1>2. /\ ready \in Seq(Task) /\ <<>> \in Seq(Task) /\ k \in Handlers
      /\ pc'[k] \in {"connecting", "closing"} /\ \A g \in Handlers : g # k => pc'[g] = pc[g]
  BY <1>1 DEF Known, Typed, LoopTyped, Types, Handlers
<1>3. (ready' = ready /\ running' = k) \/ Queued(ready, k, {})
  <2>1. PICK targets : Await(ready, k, targets, <<>>)
    BY <1>1
  <2>2. \A i \in DOMAIN <<>> : <<>>[i] \in {} /\ <<>>[i].task = "send"
    OBVIOUS
  <2> QED
    BY <1>2, <2>1, <2>2, AwaitGrows
<1>4. Turn(ready', running', pc')
  <2>1. Turn(ready, NoConn, pc) /\ pc[k] \notin Waiting /\ pc'[k] \in Waiting
    BY <1>1, <1>2 DEF TurnInv, Waiting
  <2> QED
    BY <1>2, <1>3, <2>1, TurnStarts
<1>5. \A g \in Handlers : g # NoConn
  BY BoundAssumption DEF Handlers, Conns, Agent, NoConn
<1>6. \A g \in Handlers : running' = g => pc'[g] \notin {"saving", "echoing"}
  BY <1>2, <1>3, <1>5 DEF Queued
<1> QED
  BY <1>4, <1>6 DEF TurnInv

(* A handler that goes on and stops waiting. *)
LEMMA EndTurn ==
    ASSUME TurnInv, Known, NEW h \in Handlers, Resumed(h), ready' = Rest, running' = NoConn,
           NEW x, x \notin Waiting, pc' = [pc EXCEPT ![h] = x]
    PROVE  TurnInv'
<1>1. pc'[h] = x /\ \A g \in Handlers : g # h => pc'[g] = pc[g]
  BY DEF Known, Types
<1>2. Turn(ready', running', pc')
  BY <1>1, TurnEnds DEF TurnInv, Known, Typed
<1>3. \A g \in Handlers : g # NoConn
  BY BoundAssumption DEF Handlers, Conns, Agent, NoConn
<1> QED
  BY <1>2, <1>3 DEF TurnInv

(* A handler that goes on and echoes. *)
LEMMA EchoTurn ==
    ASSUME TurnInv, Known, NEW h \in Handlers, Resumed(h), NEW m \in Message,
           Broadcast(Rest, h, m), pc' = [pc EXCEPT ![h] = "echoing"], reg' = reg
    PROVE  TurnInv'
<1> DEFINE p == [pc EXCEPT ![h] = "reading"]
           N == {Send(d, m) : d \in Registered}
<1>1. /\ p[h] = "reading" /\ pc'[h] = "echoing"
      /\ \A g \in Handlers : g # h => p[g] = pc[g] /\ pc'[g] = p[g]
  BY DEF Known, Types
<1> HIDE DEF p
<1>2. Turn(Rest, NoConn, p)
  BY <1>1, TurnEnds DEF TurnInv, Known, Typed, Waiting
<1>3. Rest \in Seq(Task)
  BY RestGrows DEF Known, Typed
<1>4. \/ Registered = {} /\ ready' = Rest /\ running' = h
      \/ Registered # {} /\ Queued(Rest, h, N)
  BY <1>3, BroadcastGrows
<1>5. \A t \in N : t.task = "send"
  BY DEF Send
<1> HIDE DEF N
<1>6. Turn(ready', running', pc')
  <2>1. p[h] \notin Waiting /\ pc'[h] \in Waiting
    BY <1>1 DEF Waiting
  <2>2. \A g \in Handlers : g # h => pc'[g] = p[g]
    BY <1>1
  <2>3. (ready' = Rest /\ running' = h) \/ Queued(Rest, h, N)
    BY <1>4
  <2> QED
    BY <1>2, <1>3, <2>1, <2>2, <2>3, TurnStarts
<1>7. \A g \in Handlers : g # NoConn
  BY BoundAssumption DEF Handlers, Conns, Agent, NoConn
<1>8. \A g \in Handlers : running' = g => Registered' = {}
  BY <1>4, <1>7 DEF Queued, Registered
<1> QED
  BY <1>6, <1>8 DEF TurnInv

(* Nobody's turn changes. *)
LEMMA SameTurn ==
    ASSUME TurnInv, UNCHANGED <<running, reg>>, Turn(ready', running', pc'),
           \A h \in Handlers : pc'[h] \in {"saving", "echoing"} => pc'[h] = pc[h]
    PROVE  TurnInv'
BY DEF TurnInv, Registered

LEMMA EventTurn ==
    ASSUME TurnInv, Known, Durable, ToolEvent \/ AgentEvent PROVE TurnInv'
<1>1. UNCHANGED <<running, pc, reg>>
  BY EventIs DEF connVars
<1>2. PICK m \in Message : ready' = ready \o SetToSeq({Send(d, m) : d \in Registered})
  BY EventQueue DEF Known
<1> DEFINE N == {Send(d, m) : d \in Registered}
<1>3. ready' \in Seq(Task) /\ Grown(ready, ready', 0, N) /\ ready \in Seq(Task)
  BY <1>2, EventGrows DEF Known, Typed, LoopTyped
<1>4. \A t \in N : \A h : t # Resume(h)
  BY DEF Send, Resume
<1> HIDE DEF N
<1>5. /\ \A i \in DOMAIN ready : i \in Nat /\ (i > 0 => i - 0 \in DOMAIN ready' /\ ready'[i - 0] = ready[i])
      /\ \A i \in DOMAIN ready' :
            /\ i \in Nat
            /\ (i + 0 \in DOMAIN ready /\ ready'[i] = ready[i + 0]) \/ ready'[i] \in N
  BY <1>3, GrownIndices
<1>6. \A i \in DOMAIN ready : i \in DOMAIN ready' /\ ready'[i] = ready[i]
  <2> TAKE i \in DOMAIN ready
  <2>1. i \in Nat /\ i > 0 /\ i - 0 = i
    BY <1>3
  <2> QED
    BY <1>5, <2>1
<1>7. \A i \in DOMAIN ready' : (i \in DOMAIN ready /\ ready'[i] = ready[i]) \/ ready'[i] \in N
  <2> TAKE i \in DOMAIN ready'
  <2>1. i + 0 = i
    BY <1>5
  <2> QED
    BY <1>5, <2>1
<1>8. Turn(ready', running', pc')
  BY <1>1, <1>4, <1>6, <1>7 DEF TurnInv, Turn
<1> QED
  BY <1>1, <1>8, SameTurn

LEMMA StepTurn ==
    ASSUME TurnInv, Known, Known', Durable, [Next]_vars PROVE TurnInv'
<1>0. ready \in Seq(Task) /\ Conns \subseteq Handlers
  BY DEF Known, Typed, LoopTyped, Handlers
<1>1. ASSUME \/ \E k \in Conns : \/ \E kind \in Announced : HubUpdate(k, kind)
                                 \/ HubChat(k) \/ HubAssociate(k)
             \/ HubDetected
      PROVE  TurnInv'
  BY <1>1, MutationIs, MutateTurn DEF Mutation
<1>2. ASSUME NEW k \in Conns, HubGreet(k) \/ HubUnregister(k) PROVE TurnInv'
  <2>1. /\ Resumed(k) /\ ready' = Rest /\ running' = NoConn
        /\ pc' = [pc EXCEPT ![k] = "reading"] \/ pc' = [pc EXCEPT ![k] = "ended"]
    BY <1>2 DEF HubGreet, HubUnregister
  <2>2. "reading" \notin Waiting /\ "ended" \notin Waiting
    BY DEF Waiting
  <2> QED
    BY <1>0, <2>1, <2>2, EndTurn
<1>3. ASSUME NEW h \in Handlers, HubSave(h) \/ HubEchoed(h) PROVE TurnInv'
  <2>1. Resumed(h)
    BY <1>3 DEF HubSave, HubEchoed
  <2>2. CASE ready' = Rest /\ running' = NoConn /\ Finish(h)
    <3>1. pc' = [pc EXCEPT ![h] = "reading"] /\ "reading" \notin Waiting
      BY <2>2 DEF Finish, Waiting
    <3> QED
      BY <2>1, <2>2, <3>1, EndTurn
  <2>3. ASSUME NEW x, Broadcast(Rest, h, Set(req[h].kind, x)), req[h].kind \in {"core", "tests"},
               x = req[h].stamp \/ x = session.data["tests"],
               pc' = [pc EXCEPT ![h] = "echoing"], reg' = reg
        PROVE TurnInv'
    <3>1. req[h].kind \in Fields /\ "tests" \in Fields
      BY <2>3, FieldsAre
    <3>2. req[h].stamp \in Nat /\ session.data["tests"] \in Nat
      BY <3>1 DEF Known, Types, SessionType
    <3>3. Set(req[h].kind, x) \in Message
      BY <2>3, <3>1, <3>2, MessageTypes DEF Known
    <3> QED
      BY <2>1, <2>3, <3>3, EchoTurn
  <2> QED
    BY <1>3, <2>2, <2>3 DEF HubSave, HubEchoed
<1>4. CASE RunSend
  <2>1. /\ running = NoConn /\ ready # <<>> /\ ready[1].task = "send" /\ ready' = Tail(ready)
        /\ UNCHANGED <<running, pc, reg>>
    BY <1>4 DEF RunSend
  <2> DEFINE t == Tail(ready)
  <2>2. /\ \A i \in DOMAIN t : i \in Nat /\ i + 1 \in DOMAIN ready /\ t[i] = ready[i + 1]
        /\ \A i \in DOMAIN ready : i # 1 => i - 1 \in DOMAIN t /\ t[i - 1] = ready[i]
    BY <1>0, <2>1
  <2>3. \A h : ready[1] # Resume(h)
    BY <2>1 DEF Resume
  <2> HIDE DEF t
  <2>4. ASSUME NEW h \in Handlers, pc[h] \in Waiting
        PROVE  running = h \/ \E i \in DOMAIN t : t[i] = Resume(h)
    BY <2>2, <2>3, <2>4 DEF TurnInv, Turn
  <2>5. ASSUME NEW h \in Handlers, NEW i \in DOMAIN t, t[i] = Resume(h)
        PROVE  /\ pc[h] \in Waiting /\ running # h
               /\ \A j \in DOMAIN t : t[j] = Resume(h) => i = j
    <3>1. i + 1 \in DOMAIN ready /\ ready[i + 1] = Resume(h) /\ i \in Nat
      BY <2>2, <2>5
    <3>2. ASSUME NEW j \in DOMAIN t, t[j] = Resume(h) PROVE i = j
      <4>1. j + 1 \in DOMAIN ready /\ ready[j + 1] = Resume(h) /\ j \in Nat
        BY <2>2, <3>2
      <4>2. i + 1 = j + 1
        BY <3>1, <4>1 DEF TurnInv, Turn
      <4> QED
        BY <3>1, <4>1, <4>2
    <3> QED
      BY <3>1, <3>2 DEF TurnInv, Turn
  <2>6. Turn(t, running, pc)
    BY <2>4, <2>5 DEF Turn
  <2> QED
    BY <2>1, <2>6, SameTurn DEF t
<1>5. CASE HubRestart
  <2>1. /\ ready' = <<>> /\ running' = NoConn /\ reg' = [d \in Devices |-> NoConn]
        /\ \A h \in Handlers : pc'[h] \notin Waiting
    BY <1>5 DEF HubRestart, Waiting
  <2>2. Turn(ready', running', pc')
    BY <2>1 DEF Turn
  <2> QED
    BY <2>1, <2>2 DEF TurnInv, Waiting
<1>6. ASSUME UNCHANGED <<ready, running, pc, reg>> PROVE TurnInv'
  BY <1>6 DEF TurnInv, Turn, Registered
<1>7. ASSUME NEW d \in Devices, NEW k \in Conns, Open(d, k) PROVE TurnInv'
  <2>1. /\ pc[k] = "unused" /\ pc' = [pc EXCEPT ![k] = "accepted"]
        /\ UNCHANGED <<ready, running, reg>>
    BY <1>7 DEF Open, loopVars
  <2>2. /\ pc'[k] = "accepted" /\ \A h \in Handlers : h # k => pc'[h] = pc[h]
    BY <1>0, <2>1 DEF Known, Types
  <2>3. Turn(ready', running', pc')
    BY <2>1, <2>2 DEF TurnInv, Turn, Waiting
  <2> QED
    BY <2>1, <2>2, <2>3, SameTurn
<1>8. ASSUME NEW d \in Devices, ClientStep(d) PROVE TurnInv'
  BY <1>6, <1>7, <1>8 DEF ClientStep, Dropped, Reload, Receive, Render, ToolPanel, loopVars,
                          connVars
<1>9. ASSUME NEW k \in Conns, HandlerStep(k) \/ Break(k) PROVE TurnInv'
  BY <1>1, <1>2, <1>6, <1>9, AnnounceTurn DEF HandlerStep, Break, HubReject, HubSnapshot, loopVars
<1>10. CASE RestCreate
  BY <1>6, <1>10 DEF RestCreate, loopVars
<1>11. CASE UNCHANGED vars
  BY <1>6, <1>11 DEF vars, loopVars
<1> QED
  BY <1>1, <1>3, <1>4, <1>5, <1>8, <1>9, <1>10, <1>11, EventTurn DEF Next

(* Whose a connection is. A registered one has been greeted, one that has  *)
(* not been greeted has nothing on it, and a registered client that waits  *)
(* for its first snapshot finds it first on its connection.                *)
Greeted == {"reading", "saving", "echoing", "closing"}

OwnInv ==
    /\ \A k \in Conns : pc[k] # "unused" => dev[k] \in Devices
    /\ \A k \in Conns : pc[k] \in {"accepted", "connecting"} =>
          chan[k] = <<>> /\ \A d \in synced : link[d] # k
    /\ \A d \in Devices : reg[d] # NoConn => dev[reg[d]] = d /\ pc[reg[d]] \in Greeted
    /\ \A d \in Devices : link[d] # NoConn => dev[link[d]] = d
    /\ \A d \in Devices : Connected(d) /\ d \notin synced =>
          chan[link[d]] # <<>> /\ chan[link[d]][1].kind = "snapshot"

LEMMA ConnTypes ==
    ASSUME Known
    PROVE  /\ \A k \in Conns : k \in Handlers /\ k # NoConn /\ k # Agent
           /\ \A d \in Devices : reg[d] # NoConn => reg[d] \in Conns
           /\ \A d \in Devices : link[d] # NoConn => link[d] \in Conns
           /\ \A d \in Devices : Connected(d) => link[d] \in Conns /\ reg[d] # NoConn
BY BoundAssumption DEF Known, Typed, WireTyped, ClientTyped, Handlers, Conns, Agent, NoConn, Connected

(* What a write to a device's connection changes. *)
LEMMA WrittenIs ==
    ASSUME Known, NEW d \in Devices, NEW m \in Message, chan' = Written(d, m)
    PROVE  /\ \A k \in Conns : k # reg[d] => chan'[k] = chan[k]
           /\ reg[d] # NoConn =>
                 chan'[reg[d]] = IF up[reg[d]] THEN Append(chan[reg[d]], m) ELSE chan[reg[d]]
<1>1. chan \in [Conns -> Seq(Message)]
  BY DEF Known, Typed, WireTyped
<1>2. CASE reg[d] # NoConn /\ up[reg[d]]
  <2>1. reg[d] \in Conns /\ chan' = [chan EXCEPT ![reg[d]] = Append(@, m)]
    BY <1>2, ConnTypes DEF Written
  <2> QED
    BY <1>1, <1>2, <2>1
<1>3. CASE ~(reg[d] # NoConn /\ up[reg[d]])
  <2>1. chan' = chan
    BY <1>3 DEF Written
  <2> QED
    BY <1>3, <2>1
<1> QED
  BY <1>2, <1>3

LEMMA AppendedNotEmpty ==
    ASSUME NEW S, NEW q \in Seq(S), NEW m \in S PROVE Append(q, m) # <<>>
<1>1. Len(Append(q, m)) = Len(q) + 1 /\ Len(q) \in Nat
  OBVIOUS
<1>2. Len(<<>>) = 0
  OBVIOUS
<1> QED
  BY <1>1, <1>2

LEMMA AppendHead ==
    ASSUME NEW q \in Seq(Message), NEW m \in Message
    PROVE  Append(q, m) # <<>> /\ (q # <<>> => Append(q, m)[1] = q[1])
<1>1. /\ Append(q, m) \in Seq(Message) /\ Len(Append(q, m)) = Len(q) + 1 /\ Len(q) \in Nat
      /\ \A i \in 1..Len(q) : Append(q, m)[i] = q[i]
  OBVIOUS
<1>2. q # <<>> => 1 \in 1..Len(q)
  OBVIOUS
<1>3. Append(q, m) # <<>>
  BY AppendedNotEmpty
<1> QED
  BY <1>1, <1>2, <1>3

(* A step of the hub that registers and unregisters nobody. *)
LEMMA OwnSteady ==
    ASSUME OwnInv, Known, UNCHANGED <<dev, link, reg, up, synced>>,
           \A k \in Conns :
               /\ pc'[k] \in {"accepted", "connecting"} => pc[k] \in {"accepted", "connecting"}
               /\ pc'[k] # "unused" => pc[k] # "unused"
               /\ pc[k] \in Greeted => pc'[k] \in Greeted,
           \/ chan' = chan
           \/ \E d \in Devices, m \in Message : chan' = Written(d, m)
    PROVE  OwnInv'
<1>1. chan \in [Conns -> Seq(Message)]
  BY DEF Known, Typed, WireTyped
<1>2. ASSUME NEW k \in Conns
      PROVE  \/ chan'[k] = chan[k]
             \/ /\ \E d \in Devices : k = reg[d]
                /\ \E m \in Message : chan'[k] = Append(chan[k], m)
  <2>1. ASSUME NEW d \in Devices, NEW m \in Message, chan' = Written(d, m), chan'[k] # chan[k]
        PROVE  k = reg[d] /\ chan'[k] = Append(chan[k], m)
    <3>1. /\ k # reg[d] => chan'[k] = chan[k]
          /\ reg[d] # NoConn =>
                chan'[reg[d]] = IF up[reg[d]] THEN Append(chan[reg[d]], m) ELSE chan[reg[d]]
      BY <2>1, WrittenIs
    <3>2. k # NoConn
      BY ConnTypes
    <3> QED
      BY <2>1, <3>1, <3>2
  <2> QED
    BY <2>1
<1>3. ASSUME NEW k \in Conns, pc'[k] \in {"accepted", "connecting"} PROVE chan'[k] = <<>>
  <2>1. pc[k] \in {"accepted", "connecting"} /\ chan[k] = <<>>
    BY <1>3 DEF OwnInv
  <2>2. \A d \in Devices : k # reg[d]
    BY <2>1, ConnTypes DEF OwnInv, Greeted
  <2> QED
    BY <1>2, <2>1, <2>2
<1>4. ASSUME NEW d \in Devices, reg[d] # NoConn PROVE dev[reg[d]] = d /\ pc'[reg[d]] \in Greeted
  BY <1>4, ConnTypes DEF OwnInv
<1>5. ASSUME NEW d \in Devices, Connected(d), d \notin synced
      PROVE  chan'[link[d]] # <<>> /\ chan'[link[d]][1].kind = "snapshot"
  <2>1. /\ link[d] \in Conns /\ chan[link[d]] \in Seq(Message)
        /\ chan[link[d]] # <<>> /\ chan[link[d]][1].kind = "snapshot"
    BY <1>1, <1>5, ConnTypes DEF OwnInv
  <2> QED
    BY <1>2, <2>1, AppendHead
<1> QED
  BY <1>3, <1>4, <1>5 DEF OwnInv, Connected

LEMMA GreetOwn == ASSUME OwnInv, Known, NEW k \in Conns, HubGreet(k) PROVE OwnInv'
<1> DEFINE d == dev[k]
           s == Snapshot(session)
<1>1. /\ pc[k] = "connecting" /\ pc' = [pc EXCEPT ![k] = "reading"]
      /\ reg' = [reg EXCEPT ![d] = k]
      /\ chan' = IF up[k] THEN [chan EXCEPT ![k] = Append(@, s)] ELSE chan
      /\ UNCHANGED <<dev, link, up, synced>>
  BY DEF HubGreet, clientVars
<1>2. /\ d \in Devices /\ chan[k] = <<>> /\ chan \in [Conns -> Seq(Message)]
      /\ s \in Message /\ s.kind = "snapshot"
  BY <1>1, MessageTypes DEF OwnInv, Known, Typed, WireTyped, Snapshot
<1> HIDE DEF s, d
<1>3. /\ pc'[k] = "reading" /\ \A j \in Conns : j # k => pc'[j] = pc[j] /\ chan'[j] = chan[j]
      /\ reg'[d] = k /\ \A e \in Devices : e # d => reg'[e] = reg[e]
      /\ up[k] => chan'[k] # <<>> /\ chan'[k][1] = s
  BY <1>1, <1>2, ConnTypes DEF Known, Types, Typed, WireTyped
<1>4. ASSUME NEW j \in Conns
      PROVE  /\ pc'[j] # "unused" => dev[j] \in Devices
             /\ pc'[j] \in {"accepted", "connecting"} => chan'[j] = <<>>
  BY <1>1, <1>3 DEF OwnInv
<1>5. ASSUME NEW e \in Devices, reg'[e] # NoConn PROVE dev[reg'[e]] = e /\ pc'[reg'[e]] \in Greeted
  <2>1. CASE e = d
    BY <1>3, <2>1 DEF d, Greeted
  <2>2. CASE e # d
    <3>1. reg'[e] = reg[e] /\ reg[e] \in Conns /\ dev[reg[e]] = e /\ pc[reg[e]] \in Greeted
      BY <1>3, <1>5, <2>2, ConnTypes DEF OwnInv
    <3>2. reg[e] # k
      BY <2>2, <3>1 DEF d
    <3> QED
      BY <1>3, <3>1, <3>2
  <2> QED
    BY <2>1, <2>2
<1>6. ASSUME NEW e \in Devices, Connected(e)', e \notin synced
      PROVE  chan'[link[e]] # <<>> /\ chan'[link[e]][1].kind = "snapshot"
  <2>1. link[e] # NoConn /\ up[link[e]] /\ reg'[e] = link[e] /\ link[e] \in Conns
    BY <1>1, <1>6, ConnTypes DEF Connected
  <2>2. CASE e = d
    BY <1>2, <1>3, <2>1, <2>2
  <2>3. CASE e # d
    <3>1. Connected(e)
      BY <1>3, <2>1, <2>3 DEF Connected
    <3>2. link[e] # k
      BY <2>1, <2>3 DEF OwnInv, d
    <3> QED
      BY <1>3, <1>6, <2>1, <3>1, <3>2 DEF OwnInv
  <2> QED
    BY <2>2, <2>3
<1> QED
  BY <1>1, <1>4, <1>5, <1>6 DEF OwnInv

LEMMA UnregisterOwn == ASSUME OwnInv, Known, NEW k \in Conns, HubUnregister(k) PROVE OwnInv'
<1> DEFINE d == dev[k]
<1>1. /\ pc[k] = "closing" /\ pc' = [pc EXCEPT ![k] = "ended"]
      /\ reg' = [reg EXCEPT ![d] = NoConn] /\ up' = [up EXCEPT ![k] = FALSE]
      /\ UNCHANGED <<dev, link, chan, synced>>
  BY DEF HubUnregister, clientVars
<1>2. /\ d \in Devices
      /\ pc'[k] = "ended" /\ \A j \in Conns : j # k => pc'[j] = pc[j] /\ up'[j] = up[j]
      /\ reg'[d] = NoConn /\ \A e \in Devices : e # d => reg'[e] = reg[e]
  BY <1>1, ConnTypes DEF OwnInv, Known, Types, Typed, WireTyped
<1> HIDE DEF d
<1>3. ASSUME NEW e \in Devices, reg'[e] # NoConn
      PROVE  /\ dev[reg'[e]] = e /\ pc'[reg'[e]] \in Greeted
             /\ reg'[e] = reg[e] /\ reg[e] # k
  <2>1. e # d /\ reg'[e] = reg[e] /\ reg[e] \in Conns /\ dev[reg[e]] = e /\ pc[reg[e]] \in Greeted
    BY <1>2, <1>3, ConnTypes DEF OwnInv
  <2>2. reg[e] # k
    BY <2>1 DEF d
  <2> QED
    BY <1>2, <2>1, <2>2
<1>4. ASSUME NEW e \in Devices, Connected(e)' PROVE Connected(e)
  <2>1. link[e] # NoConn /\ up'[link[e]] /\ reg'[e] = link[e] /\ link[e] \in Conns
    BY <1>1, <1>4, ConnTypes DEF Connected
  <2> QED
    BY <1>2, <1>3, <2>1 DEF Connected
<1>5. ASSUME NEW j \in Conns
      PROVE  /\ pc'[j] # "unused" => dev[j] \in Devices
             /\ pc'[j] \in {"accepted", "connecting"} => chan[j] = <<>>
  BY <1>1, <1>2 DEF OwnInv
<1> QED
  BY <1>1, <1>3, <1>4, <1>5 DEF OwnInv

LEMMA OpenOwn ==
    ASSUME OwnInv, VersionInv, Known, NEW d \in Devices, NEW k \in Conns, Open(d, k)
    PROVE  OwnInv'
<1>1. /\ link[d] = NoConn /\ pc[k] = "unused"
      /\ link' = [link EXCEPT ![d] = k] /\ pc' = [pc EXCEPT ![k] = "accepted"]
      /\ dev' = [dev EXCEPT ![k] = d] /\ up' = [up EXCEPT ![k] = TRUE]
      /\ UNCHANGED <<reg, chan, synced>>
  BY DEF Open
<1>2. /\ chan[k] = <<>> /\ \A e \in Devices : link[e] # k
      /\ \A e \in Devices : reg[e] # k
  BY <1>1, ConnTypes DEF VersionInv, UnusedQuiet, OwnInv, Greeted
<1>3. /\ pc'[k] = "accepted" /\ dev'[k] = d /\ link'[d] = k
      /\ \A j \in Conns : j # k => pc'[j] = pc[j] /\ dev'[j] = dev[j] /\ up'[j] = up[j]
      /\ \A e \in Devices : e # d => link'[e] = link[e]
  BY <1>1, ConnTypes DEF Known, Types, Typed, WireTyped, ClientTyped
<1>4. ASSUME NEW j \in Conns
      PROVE  /\ pc'[j] # "unused" => dev'[j] \in Devices
             /\ pc'[j] \in {"accepted", "connecting"} =>
                   chan[j] = <<>> /\ \A e \in synced : link'[e] # j
  <2>1. d \notin synced /\ synced \subseteq Devices
    BY <1>1, BoundAssumption DEF VersionInv, ViewsBehind, Conns, NoConn, Known, Typed, ClientTyped
  <2> QED
    BY <1>2, <1>3, <2>1 DEF OwnInv
<1>5. ASSUME NEW e \in Devices
      PROVE  /\ reg[e] # NoConn => dev'[reg[e]] = e /\ pc'[reg[e]] \in Greeted
             /\ link'[e] # NoConn => dev'[link'[e]] = e
  BY <1>2, <1>3, ConnTypes DEF OwnInv
<1>6. ASSUME NEW e \in Devices, Connected(e)' PROVE e # d /\ Connected(e)
  <2>1. link'[e] # NoConn /\ up'[link'[e]] /\ reg[e] = link'[e]
    BY <1>1, <1>6 DEF Connected
  <2>2. e # d
    BY <1>2, <1>3, <2>1
  <2> QED
    BY <1>2, <1>3, <2>1, <2>2, ConnTypes DEF Connected
<1>7. ASSUME NEW e \in Devices, Connected(e)', e \notin synced
      PROVE  chan[link'[e]] # <<>> /\ chan[link'[e]][1].kind = "snapshot"
  BY <1>3, <1>6, <1>7 DEF OwnInv
<1> QED
  BY <1>1, <1>4, <1>5, <1>7 DEF OwnInv

LEMMA LeaveOwn ==
    ASSUME OwnInv, Known, NEW d \in Devices, Dropped(d) \/ Reload(d)
    PROVE  OwnInv'
<1>1. /\ link[d] # NoConn /\ link' = [link EXCEPT ![d] = NoConn]
      /\ chan' = [chan EXCEPT ![link[d]] = <<>>] /\ synced' = synced \ {d}
      /\ \A k \in Conns : up'[k] => up[k]
      /\ UNCHANGED <<pc, dev, reg>>
  BY DEF Dropped, Reload, Known, Typed, WireTyped
<1>2. /\ link'[d] = NoConn /\ \A e \in Devices : e # d => link'[e] = link[e]
      /\ \A k \in Conns : chan'[k] = IF k = link[d] THEN <<>> ELSE chan[k]
  BY <1>1 DEF Known, Typed, WireTyped, ClientTyped
<1>3. ASSUME NEW e \in Devices, Connected(e)', e \notin synced'
      PROVE  chan'[link'[e]] # <<>> /\ chan'[link'[e]][1].kind = "snapshot"
  <2>1. /\ e # d /\ link'[e] = link[e] /\ link[e] # NoConn /\ link[e] \in Conns
        /\ reg[e] = link[e] /\ up[link[e]]
    BY <1>1, <1>2, <1>3, ConnTypes DEF Connected
  <2>2. link[e] # link[d]
    BY <1>1, <2>1 DEF OwnInv
  <2>3. Connected(e) /\ e \notin synced
    BY <1>1, <1>3, <2>1 DEF Connected
  <2> QED
    BY <1>2, <2>1, <2>2, <2>3 DEF OwnInv
<1> QED
  BY <1>1, <1>2, <1>3 DEF OwnInv

LEMMA ReceiveOwn == ASSUME OwnInv, Known, NEW d \in Devices, Receive(d) PROVE OwnInv'
<1> DEFINE k == link[d]
           m == chan[k][1]
<1>1. /\ k \in Conns /\ chan[k] # <<>> /\ chan' = [chan EXCEPT ![k] = Tail(@)]
      /\ UNCHANGED <<pc, dev, reg, up, link>>
  BY ConnTypes DEF Receive
<1>2. \/ /\ ~IsGap(d, m)
         /\ m.kind = "snapshot" => synced' = synced \cup {d}
         /\ m.kind # "snapshot" => synced' = synced
      \/ IsGap(d, m) /\ synced' = synced
  BY DEF Receive
<1>3. IsGap(d, m) => m.kind # "snapshot"
  BY DEF IsGap
<1> HIDE DEF m
<1>4. ASSUME NEW e \in Devices, Connected(e), e \notin synced'
      PROVE  chan'[link[e]] # <<>> /\ chan'[link[e]][1].kind = "snapshot"
  <2>1. /\ e \notin synced /\ link[e] # NoConn /\ link[e] \in Conns
        /\ chan[link[e]] # <<>> /\ chan[link[e]][1].kind = "snapshot"
    BY <1>2, <1>4, ConnTypes DEF OwnInv
  <2>2. e # d
    BY <1>2, <1>3, <1>4, <2>1 DEF m
  <2>3. link[e] # k
    BY <1>1, <2>1, <2>2, ConnTypes DEF OwnInv
  <2> QED
    BY <1>1, <2>1, <2>3 DEF Known, Typed, WireTyped
<1>5. ASSUME NEW j \in Conns, pc[j] \in {"accepted", "connecting"}
      PROVE  chan'[j] = <<>> /\ \A e \in synced' : link[e] # j
  <2>1. chan[j] = <<>> /\ j # k /\ synced' \subseteq synced \cup {d}
    BY <1>1, <1>2, <1>5 DEF OwnInv
  <2> QED
    BY <1>1, <1>5, <2>1 DEF OwnInv, Known, Typed, WireTyped
<1> QED
  BY <1>1, <1>4, <1>5 DEF OwnInv, Connected

LEMMA StepOwn ==
    ASSUME OwnInv, VersionInv, Known, Known', Durable, [Next]_vars PROVE OwnInv'
<1> USE DEF Greeted
<1>0. pc \in [Handlers -> {"unused", "accepted", "connecting", "reading", "saving",
                            "echoing", "closing", "ended"}]
  BY DEF Known, Types
<1>1. ASSUME NEW h \in Handlers, NEW kind, NEW next, NEW m, Mutate(h, kind, next, m) PROVE OwnInv'
  <2>1. /\ UNCHANGED <<dev, link, reg, up, synced, chan>>
        /\ pc[h] = "reading" /\ pc' = [pc EXCEPT ![h] = "saving"]
    BY <1>1 DEF Mutate, connVars, clientVars
  <2> QED
    BY <1>0, <2>1, ConnTypes, OwnSteady
<1>2. ASSUME \/ \E k \in Conns : \/ \E kind \in Announced : HubUpdate(k, kind)
                                 \/ HubChat(k) \/ HubAssociate(k)
             \/ HubDetected
      PROVE  OwnInv'
  BY <1>1, <1>2, MutationIs DEF Mutation
<1>3. ASSUME NEW k \in Conns, HubConnect(k) \/ HubEnd(k) PROVE OwnInv'
  <2>1. /\ UNCHANGED <<dev, link, reg, up, synced, chan>>
        /\ \/ pc[k] = "accepted" /\ pc' = [pc EXCEPT ![k] = "connecting"]
           \/ pc[k] = "reading" /\ pc' = [pc EXCEPT ![k] = "closing"]
    BY <1>3 DEF HubConnect, HubEnd, connVars, clientVars
  <2> QED
    BY <1>0, <2>1, ConnTypes, OwnSteady
<1>4. ASSUME NEW h \in Handlers, HubSave(h) \/ HubEchoed(h) PROVE OwnInv'
  <2>1. /\ UNCHANGED <<dev, link, reg, up, synced, chan>>
        /\ pc[h] \in {"saving", "echoing"}
        /\ \/ pc' = [pc EXCEPT ![h] = "echoing"]
           \/ pc' = [pc EXCEPT ![h] = "reading"]
    BY <1>4 DEF HubSave, HubEchoed, Finish, connVars, clientVars
  <2> QED
    BY <1>0, <2>1, ConnTypes, OwnSteady
<1>5. ASSUME NEW k \in Conns, HubReject(k) \/ HubSnapshot(k) PROVE OwnInv'
  <2>1. /\ UNCHANGED <<dev, link, reg, up, synced, pc>> /\ pc[k] = "reading"
        /\ \/ chan' = Written(dev[k], Snapshot(session))
           \/ chan' = Written(dev[k], [kind |-> "rejected", v |-> session.v])
    BY <1>5 DEF HubReject, HubSnapshot, clientVars
  <2>2. /\ dev[k] \in Devices /\ Snapshot(session) \in Message
        /\ [kind |-> "rejected", v |-> session.v] \in Message
    BY <2>1, MessageTypes DEF OwnInv, Known
  <2>3. \E d \in Devices, m \in Message : chan' = Written(d, m)
    BY <2>1, <2>2
  <2> QED
    BY <2>1, <2>3, OwnSteady
<1>6. CASE RunSend
  <2>1. /\ UNCHANGED <<dev, link, reg, up, synced, pc>>
        /\ ready # <<>> /\ ready[1].task = "send" /\ chan' = Written(ready[1].to, ready[1].msg)
    BY <1>6 DEF RunSend, clientVars
  <2>2. ready[1].to \in Devices /\ ready[1].msg \in Message
    <3>1. ready \in Seq(Task) /\ 1 \in DOMAIN ready
      BY <2>1 DEF Known, Typed, LoopTyped
    <3> QED
      BY <2>1, <3>1, QueueTypes
  <2>3. \E d \in Devices, m \in Message : chan' = Written(d, m)
    BY <2>1, <2>2
  <2> QED
    BY <2>1, <2>3, OwnSteady
<1>7. CASE HubRestart
  <2>1. /\ reg' = [d \in Devices |-> NoConn]
        /\ pc' = [h \in Handlers |-> IF h = Agent THEN "reading"
                                     ELSE IF pc[h] = "unused" THEN "unused" ELSE "ended"]
        /\ UNCHANGED <<dev, chan, link, synced>>
    BY <1>7 DEF HubRestart, clientVars
  <2>2. \A k \in Conns : pc'[k] = IF pc[k] = "unused" THEN "unused" ELSE "ended"
    BY <2>1, ConnTypes
  <2>3. \A d \in Devices : ~Connected(d)'
    BY <2>1 DEF Connected
  <2> QED
    BY <2>1, <2>2, <2>3 DEF OwnInv
<1>8. ASSUME UNCHANGED <<pc, dev, reg, link, chan, synced>>, \A k \in Conns : up'[k] => up[k]
      PROVE  OwnInv'
  <2>1. \A d \in Devices : Connected(d)' => Connected(d)
    BY <1>8, ConnTypes DEF Connected
  <2> QED
    BY <1>8, <2>1 DEF OwnInv
<1>9. ASSUME NEW k \in Conns, Break(k) PROVE OwnInv'
  <2>1. \A j \in Conns : up'[j] => up[j]
    BY <1>9 DEF Break, Known, Typed, WireTyped
  <2> QED
    BY <1>8, <1>9, <2>1 DEF Break, clientVars
<1>10. CASE RestCreate \/ UNCHANGED vars \/ \E d \in Devices : Render(d)
  BY <1>8, <1>10 DEF RestCreate, Render, vars, connVars, clientVars
<1>11. CASE ToolEvent \/ AgentEvent
  BY <1>8, <1>11, EventIs DEF connVars, clientVars
<1>12. CASE \E d \in Devices : ToolPanel(d)
  BY <1>8, <1>12 DEF ToolPanel, connVars
<1> QED
  BY <1>11, <1>12, <1>2, <1>3, <1>4, <1>5, <1>6, <1>7, <1>9, <1>10, GreetOwn, UnregisterOwn, OpenOwn, LeaveOwn,
     ReceiveOwn DEF Next, HandlerStep, ClientStep

LEMMA InitOwn == Init => OwnInv
<1> SUFFICES ASSUME Init PROVE OwnInv
  OBVIOUS
<1>1. /\ \A k \in Conns : pc[k] = "unused"
      /\ \A d \in Devices : reg[d] = NoConn /\ link[d] = NoConn
  BY BoundAssumption DEF Init, Handlers, Conns, Agent
<1> QED
  BY <1>1 DEF OwnInv, Connected

-----------------------------------------------------------------------------
(* Messages on their way to a device d: those of c, its connection, then   *)
(* those the event loop q has still to send it.                            *)

To(q, d, i) == q[i].task = "send" /\ q[i].to = d

InLoop(q, d, R) == \E j \in DOMAIN q : To(q, d, j) /\ q[j].msg \in R
Comes(c, q, d, R) == InLoop(q, d, R) \/ \E j \in DOMAIN c : c[j] \in R

(* Every message of W is followed by one of R. *)
LoopMended(q, d, W, R) ==
    \A i \in DOMAIN q : To(q, d, i) /\ q[i].msg \in W =>
        \E j \in DOMAIN q : i < j /\ To(q, d, j) /\ q[j].msg \in R
Mended(c, q, d, W, R) ==
    /\ LoopMended(q, d, W, R)
    /\ \A i \in DOMAIN c : c[i] \in W =>
          InLoop(q, d, R) \/ \E j \in DOMAIN c : i < j /\ c[j] \in R

(* No update follows one of a later version. *)
Rises(m, n) == m.kind = "update" /\ n.kind = "update" => m.v < n.v \/ m = n
Ascends(c, q, d) ==
    /\ \A i, j \in DOMAIN c : i < j => Rises(c[i], c[j])
    /\ \A i \in DOMAIN c, j \in DOMAIN q : To(q, d, j) => Rises(c[i], q[j].msg)
    /\ \A i, j \in DOMAIN q : i < j /\ To(q, d, i) /\ To(q, d, j) => Rises(q[i].msg, q[j].msg)

LEMMA MendedMore ==
    ASSUME NEW c, NEW q, NEW d, NEW V, NEW W, V \subseteq W, NEW R, NEW S, R \subseteq S
    PROVE  /\ LoopMended(q, d, W, R) => LoopMended(q, d, V, S)
           /\ Mended(c, q, d, W, R) => Mended(c, q, d, V, S)
           /\ Comes(c, q, d, R) => Comes(c, q, d, S)
<1>1. LoopMended(q, d, W, R) => LoopMended(q, d, V, S)
  BY DEF LoopMended
<1>2. InLoop(q, d, R) => InLoop(q, d, S)
  BY DEF InLoop
<1> QED
  BY <1>1, <1>2 DEF Mended, Comes

(* The queue r is q, from which tasks that do not concern d are gone, and  *)
(* to which tasks of N were added.                                         *)
GrownFor(q, r, d, N) ==
    \E n : Grown(q, r, n, N) /\ \A i \in DOMAIN q : i <= n => ~To(q, d, i)

SendsKept(q, r, d, N, n) ==
    /\ n \in Nat
    /\ \A i \in DOMAIN q : i \in Nat /\ (To(q, d, i) =>
          i - n \in DOMAIN r /\ To(r, d, i - n) /\ r[i - n].msg = q[i].msg)
    /\ \A i \in DOMAIN r : To(r, d, i) =>
          /\ i \in Nat
          /\ \/ i + n \in DOMAIN q /\ To(q, d, i + n) /\ r[i].msg = q[i + n].msg
             \/ i + n > Len(q) /\ r[i] \in N

LEMMA GrownSends ==
    ASSUME NEW q \in Seq(Task), NEW r \in Seq(Task), NEW d, NEW N, GrownFor(q, r, d, N)
    PROVE  \E n : SendsKept(q, r, d, N, n)
<1>1. PICK n : Grown(q, r, n, N) /\ \A i \in DOMAIN q : i <= n => ~To(q, d, i)
  BY DEF GrownFor
<1>2. /\ n \in Nat
      /\ \A i \in DOMAIN q : i \in Nat /\ (i > n => i - n \in DOMAIN r /\ r[i - n] = q[i])
      /\ \A i \in DOMAIN r :
            /\ i \in Nat
            /\ \/ i + n \in DOMAIN q /\ r[i] = q[i + n]
               \/ i + n > Len(q) /\ r[i] \in N
  BY <1>1, GrownIndices
<1>3. ASSUME NEW i \in DOMAIN q, To(q, d, i)
      PROVE  i - n \in DOMAIN r /\ To(r, d, i - n) /\ r[i - n].msg = q[i].msg
  <2>1. i \in Nat /\ ~(i <= n) /\ i > n
    BY <1>1, <1>2, <1>3
  <2> QED
    BY <1>2, <1>3, <2>1 DEF To
<1>4. ASSUME NEW i \in DOMAIN r, To(r, d, i)
      PROVE  \/ i + n \in DOMAIN q /\ To(q, d, i + n) /\ r[i].msg = q[i + n].msg
             \/ i + n > Len(q) /\ r[i] \in N
  BY <1>2, <1>4 DEF To
<1> QED
  BY <1>2, <1>3, <1>4 DEF SendsKept

(* What was added concerns nothing of W. *)
LEMMA GrownMended ==
    ASSUME NEW q \in Seq(Task), NEW r \in Seq(Task), NEW d, NEW N, GrownFor(q, r, d, N),
           NEW W, NEW R, \A t \in N : t.task = "send" /\ t.to = d => t.msg \notin W, NEW c
    PROVE  /\ InLoop(q, d, R) => InLoop(r, d, R)
           /\ LoopMended(q, d, W, R) => LoopMended(r, d, W, R)
           /\ Mended(c, q, d, W, R) => Mended(c, r, d, W, R)
           /\ Comes(c, q, d, R) => Comes(c, r, d, R)
<1>0. PICK n : SendsKept(q, r, d, N, n)
  BY GrownSends
<1>1. /\ n \in Nat
      /\ \A i \in DOMAIN q : i \in Nat /\ (To(q, d, i) =>
            i - n \in DOMAIN r /\ To(r, d, i - n) /\ r[i - n].msg = q[i].msg)
      /\ \A i \in DOMAIN r : To(r, d, i) =>
            /\ i \in Nat
            /\ \/ i + n \in DOMAIN q /\ To(q, d, i + n) /\ r[i].msg = q[i + n].msg
               \/ i + n > Len(q) /\ r[i] \in N
  BY <1>0 DEF SendsKept
<1>2. InLoop(q, d, R) => InLoop(r, d, R)
  BY <1>1 DEF InLoop
<1>3. ASSUME LoopMended(q, d, W, R) PROVE LoopMended(r, d, W, R)
  <2> SUFFICES ASSUME NEW i \in DOMAIN r, To(r, d, i), r[i].msg \in W
               PROVE  \E j \in DOMAIN r : i < j /\ To(r, d, j) /\ r[j].msg \in R
    BY DEF LoopMended
  <2>0. r[i] \notin N
    BY DEF To
  <2>1. i \in Nat /\ i + n \in DOMAIN q /\ To(q, d, i + n) /\ q[i + n].msg \in W
    BY <1>1, <2>0
  <2>2. PICK j \in DOMAIN q : i + n < j /\ To(q, d, j) /\ q[j].msg \in R
    BY <1>3, <2>1 DEF LoopMended
  <2>3. j \in Nat /\ j - n \in DOMAIN r /\ To(r, d, j - n) /\ r[j - n].msg \in R
    BY <1>1, <2>2
  <2>4. i < j - n
    BY <1>1, <2>1, <2>2, <2>3
  <2> QED
    BY <2>3, <2>4
<1> QED
  BY <1>2, <1>3 DEF Mended, Comes

(* A message of R was added, and nothing of W. *)
LEMMA AddedMends ==
    ASSUME NEW q \in Seq(Task), NEW r \in Seq(Task), NEW d, NEW N, GrownFor(q, r, d, N),
           NEW W, NEW R, \A t \in N : t.task = "send" /\ t.to = d => t.msg \notin W,
           NEW z \in DOMAIN r, z > Len(q), To(r, d, z), r[z].msg \in R, NEW c
    PROVE  /\ LoopMended(r, d, W, R)
           /\ Mended(c, r, d, W, R)
           /\ Comes(c, r, d, R)
<1>0. PICK n : SendsKept(q, r, d, N, n)
  BY GrownSends
<1>1. /\ n \in Nat
      /\ \A i \in DOMAIN q : i \in Nat /\ (To(q, d, i) =>
            i - n \in DOMAIN r /\ To(r, d, i - n) /\ r[i - n].msg = q[i].msg)
      /\ \A i \in DOMAIN r : To(r, d, i) =>
            /\ i \in Nat
            /\ \/ i + n \in DOMAIN q /\ To(q, d, i + n) /\ r[i].msg = q[i + n].msg
               \/ i + n > Len(q) /\ r[i] \in N
  BY <1>0 DEF SendsKept
<1>2. InLoop(r, d, R)
  BY DEF InLoop
<1>3. ASSUME NEW i \in DOMAIN r, To(r, d, i), r[i].msg \in W PROVE i < z
  <2>0. r[i] \notin N
    BY <1>3 DEF To
  <2>1. i \in Nat /\ i + n \in DOMAIN q
    BY <1>1, <1>3, <2>0
  <2>2. i + n \in Nat /\ i + n <= Len(q) /\ Len(q) \in Nat /\ z \in Nat
    BY <2>1
  <2> QED
    BY <1>1, <2>1, <2>2
<1>4. LoopMended(r, d, W, R)
  BY <1>3 DEF LoopMended
<1> QED
  BY <1>2, <1>4 DEF Mended, Comes

(* The loop's first task sends d its message. *)
LEMMA AppendIndices ==
    ASSUME NEW S, NEW c \in Seq(S), NEW m \in S
    PROVE  LET b == Append(c, m) IN
           /\ \A i \in DOMAIN c : i \in DOMAIN b /\ b[i] = c[i] /\ i < Len(b)
           /\ Len(b) \in DOMAIN b /\ b[Len(b)] = m
           /\ \A i \in DOMAIN b : i \in DOMAIN c \/ i = Len(b)
<1> DEFINE b == Append(c, m)
<1>1. /\ DOMAIN c = 1..Len(c) /\ Len(c) \in Nat /\ Len(b) = Len(c) + 1 /\ DOMAIN b = 1..(Len(c) + 1)
      /\ b[Len(c) + 1] = m /\ \A i \in 1..Len(c) : b[i] = c[i]
  OBVIOUS
<1> HIDE DEF b
<1>2. ASSUME NEW i \in 1..(Len(c) + 1) PROVE i \in 1..Len(c) \/ i = Len(c) + 1
  BY <1>1
<1>3. ASSUME NEW i \in 1..Len(c) PROVE i \in 1..(Len(c) + 1) /\ i < Len(c) + 1
  BY <1>1
<1> QED
  BY <1>1, <1>2, <1>3 DEF b

LEMMA TailIndices ==
    ASSUME NEW S, NEW q \in Seq(S), q # <<>>
    PROVE  LET t == Tail(q) IN
           /\ 1 \in DOMAIN q /\ q[1] \in S /\ t \in Seq(S)
           /\ \A i \in DOMAIN t : i \in Nat /\ 1 < i + 1 /\ i + 1 \in DOMAIN q /\ t[i] = q[i + 1]
           /\ \A i \in DOMAIN q : i \in Nat /\ (i # 1 => 1 < i /\ i - 1 \in DOMAIN t /\ t[i - 1] = q[i])
<1> DEFINE t == Tail(q)
<1>1. /\ DOMAIN q = 1..Len(q) /\ Len(q) \in Nat /\ Len(q) > 0 /\ t \in Seq(S)
      /\ DOMAIN t = 1..(Len(q) - 1) /\ \A i \in 1..(Len(q) - 1) : t[i] = q[i + 1]
  OBVIOUS
<1> HIDE DEF t
<1>2. ASSUME NEW i \in 1..(Len(q) - 1) PROVE i \in Nat /\ 1 < i + 1 /\ i + 1 \in 1..Len(q)
  BY <1>1
<1>3. ASSUME NEW i \in 1..Len(q)
      PROVE  i \in Nat /\ (i # 1 => 1 < i /\ i - 1 \in 1..(Len(q) - 1) /\ (i - 1) + 1 = i)
  BY <1>1
<1>4. 1 \in 1..Len(q)
  BY <1>1
<1> QED
  BY <1>1, <1>2, <1>3, <1>4 DEF t

LEMMA MovedMends ==
    ASSUME NEW c \in Seq(Message), NEW q \in Seq(Task), q # <<>>, NEW d, To(q, d, 1),
           NEW W, NEW R
    PROVE  LET b == Append(c, q[1].msg)
               t == Tail(q)
           IN  /\ LoopMended(q, d, W, R) => LoopMended(t, d, W, R)
               /\ Mended(c, q, d, W, R) => Mended(b, t, d, W, R)
               /\ Comes(c, q, d, R) <=> Comes(b, t, d, R)
<1> DEFINE m == q[1].msg
           b == Append(c, m)
           t == Tail(q)
<1>1. /\ 1 \in DOMAIN q /\ m \in Message
      /\ \A i \in DOMAIN t : i \in Nat /\ 1 < i + 1 /\ i + 1 \in DOMAIN q /\ t[i] = q[i + 1]
      /\ \A i \in DOMAIN q : i \in Nat /\ (i # 1 => 1 < i /\ i - 1 \in DOMAIN t /\ t[i - 1] = q[i])
  BY TailIndices, QueueTypes DEF To
<1>2. /\ \A i \in DOMAIN c : i \in DOMAIN b /\ b[i] = c[i] /\ i < Len(b)
      /\ Len(b) \in DOMAIN b /\ b[Len(b)] = m
      /\ \A i \in DOMAIN b : i \in DOMAIN c \/ i = Len(b)
  BY <1>1, AppendIndices
<1> HIDE DEF m, b, t
<1>3. ASSUME LoopMended(q, d, W, R) PROVE LoopMended(t, d, W, R)
  <2> SUFFICES ASSUME NEW i \in DOMAIN t, To(t, d, i), t[i].msg \in W
               PROVE  \E j \in DOMAIN t : i < j /\ To(t, d, j) /\ t[j].msg \in R
    BY DEF LoopMended
  <2>1. i + 1 \in DOMAIN q /\ To(q, d, i + 1) /\ q[i + 1].msg \in W /\ i \in Nat
    BY <1>1 DEF To
  <2>2. PICK j \in DOMAIN q : i + 1 < j /\ To(q, d, j) /\ q[j].msg \in R
    BY <1>3, <2>1 DEF LoopMended
  <2>3. j \in Nat /\ j # 1 /\ i < j - 1
    BY <1>1, <2>1, <2>2
  <2>4. j - 1 \in DOMAIN t /\ To(t, d, j - 1) /\ t[j - 1].msg \in R
    BY <1>1, <2>2, <2>3 DEF To
  <2> QED
    BY <2>3, <2>4
<1>4. InLoop(t, d, R) => InLoop(q, d, R)
  BY <1>1 DEF InLoop, To
<1>5. ASSUME InLoop(q, d, R) PROVE InLoop(t, d, R) \/ m \in R
  <2>1. PICK j \in DOMAIN q : To(q, d, j) /\ q[j].msg \in R
    BY <1>5 DEF InLoop
  <2>2. CASE j = 1
    BY <2>1, <2>2 DEF m
  <2>3. CASE j # 1
    BY <1>1, <2>1, <2>3 DEF InLoop, To
  <2> QED
    BY <2>2, <2>3
<1>6. m \in R => InLoop(q, d, R)
  BY <1>1 DEF InLoop, m
<1>7. Comes(c, q, d, R) <=> Comes(b, t, d, R)
  BY <1>2, <1>4, <1>5, <1>6 DEF Comes
<1>8. ASSUME Mended(c, q, d, W, R), NEW i \in DOMAIN b, b[i] \in W
      PROVE  InLoop(t, d, R) \/ \E j \in DOMAIN b : i < j /\ b[j] \in R
  <2>1. CASE i \in DOMAIN c
    <3>1. InLoop(q, d, R) \/ \E j \in DOMAIN c : i < j /\ c[j] \in R
      BY <1>2, <1>8, <2>1 DEF Mended
    <3> QED
      BY <1>2, <1>5, <2>1, <3>1
  <2>2. CASE i = Len(b)
    <3>1. PICK j \in DOMAIN q : 1 < j /\ To(q, d, j) /\ q[j].msg \in R
      BY <1>1, <1>2, <1>8, <2>2 DEF Mended, LoopMended, m
    <3>2. j \in Nat /\ j # 1
      BY <1>1, <3>1
    <3> QED
      BY <1>1, <3>1, <3>2 DEF InLoop, To
  <2> QED
    BY <1>2, <2>1, <2>2
<1> QED
  BY <1>3, <1>7, <1>8 DEF Mended, m, b, t

(* The hub writes a message itself, before those of the loop. *)
LEMMA WrittenMends ==
    ASSUME NEW c \in Seq(Message), NEW q, NEW m \in Message, NEW d, NEW W, m \notin W, NEW R
    PROVE  LET b == Append(c, m) IN
           /\ Mended(c, q, d, W, R) => Mended(b, q, d, W, R)
           /\ Comes(c, q, d, R) => Comes(b, q, d, R)
           /\ Comes(b, q, d, R) => Comes(c, q, d, R) \/ m \in R
           /\ m \in R => Comes(b, q, d, R)
           /\ m \in R /\ LoopMended(q, d, W, R) => Mended(b, q, d, W, R)
<1> DEFINE b == Append(c, m)
<1>1. /\ \A i \in DOMAIN c : i \in DOMAIN b /\ b[i] = c[i] /\ i < Len(b)
      /\ Len(b) \in DOMAIN b /\ b[Len(b)] = m
      /\ \A i \in DOMAIN b : i \in DOMAIN c \/ i = Len(b)
  BY AppendIndices
<1> HIDE DEF b
<1>2. Mended(c, q, d, W, R) => Mended(b, q, d, W, R)
  BY <1>1 DEF Mended
<1>3. /\ Comes(c, q, d, R) => Comes(b, q, d, R)
      /\ Comes(b, q, d, R) => Comes(c, q, d, R) \/ m \in R
      /\ m \in R => Comes(b, q, d, R)
  BY <1>1 DEF Comes
<1>4. m \in R /\ LoopMended(q, d, W, R) => Mended(b, q, d, W, R)
  BY <1>1 DEF Mended
<1> QED
  BY <1>2, <1>3, <1>4 DEF b

(* The client reads a message. *)
LEMMA ReadMends ==
    ASSUME NEW c \in Seq(Message), c # <<>>, NEW q, NEW d, NEW W, NEW R
    PROVE  LET t == Tail(c) IN
           /\ Mended(c, q, d, W, R) => /\ Mended(t, q, d, W, R)
                                       /\ c[1] \in W => Comes(t, q, d, R)
                                       /\ (\E i \in DOMAIN t : t[i] \in W) => Comes(t, q, d, R)
           /\ Comes(c, q, d, R) => Comes(t, q, d, R) \/ c[1] \in R
           /\ Comes(t, q, d, R) \/ c[1] \in R => Comes(c, q, d, R)
<1> DEFINE t == Tail(c)
<1>1. /\ 1 \in DOMAIN c
      /\ \A i \in DOMAIN t : i \in Nat /\ 1 < i + 1 /\ i + 1 \in DOMAIN c /\ t[i] = c[i + 1]
      /\ \A i \in DOMAIN c : i \in Nat /\ (i # 1 => 1 < i /\ i - 1 \in DOMAIN t /\ t[i - 1] = c[i])
  BY TailIndices
<1> HIDE DEF t
<1>2. ASSUME Mended(c, q, d, W, R), NEW i \in DOMAIN t, t[i] \in W
      PROVE  InLoop(q, d, R) \/ \E j \in DOMAIN t : i < j /\ t[j] \in R
  <2>1. i + 1 \in DOMAIN c /\ c[i + 1] \in W /\ i \in Nat
    BY <1>1, <1>2
  <2>2. CASE InLoop(q, d, R)
    BY <2>2
  <2>3. ASSUME NEW j \in DOMAIN c, i + 1 < j, c[j] \in R PROVE \E l \in DOMAIN t : i < l /\ t[l] \in R
    <3>1. j \in Nat /\ j # 1 /\ i < j - 1
      BY <1>1, <2>1, <2>3
    <3> QED
      BY <1>1, <2>3, <3>1
  <2> QED
    BY <1>2, <2>1, <2>2, <2>3 DEF Mended
<1>3. ASSUME Mended(c, q, d, W, R), c[1] \in W PROVE Comes(t, q, d, R)
  <2>1. InLoop(q, d, R) \/ \E j \in DOMAIN c : 1 < j /\ c[j] \in R
    BY <1>1, <1>3 DEF Mended
  <2>2. \A j \in DOMAIN c : 1 < j => j # 1
    BY <1>1
  <2> QED
    BY <1>1, <2>1, <2>2 DEF Comes
<1>4. Comes(c, q, d, R) => Comes(t, q, d, R) \/ c[1] \in R
  BY <1>1 DEF Comes
<1>5. Comes(t, q, d, R) \/ c[1] \in R => Comes(c, q, d, R)
  BY <1>1 DEF Comes
<1>6. Mended(c, q, d, W, R) => Mended(t, q, d, W, R)
  BY <1>2 DEF Mended
<1>7. Mended(c, q, d, W, R) /\ (\E i \in DOMAIN t : t[i] \in W) => Comes(t, q, d, R)
  BY <1>2 DEF Comes
<1> QED
  BY <1>3, <1>4, <1>5, <1>6, <1>7 DEF t

OnWay(m, c, q, d) == Comes(c, q, d, {m})

LEMMA OnWayIs ==
    ASSUME NEW m, NEW c, NEW q, NEW d
    PROVE  OnWay(m, c, q, d) <=> \/ \E j \in DOMAIN c : c[j] = m
                                 \/ \E j \in DOMAIN q : To(q, d, j) /\ q[j].msg = m
BY DEF OnWay, Comes, InLoop

(* What is on the way is a message, and was or is new.                     *)
LEMMA GrownBrings ==
    ASSUME NEW q \in Seq(Task), NEW r \in Seq(Task), NEW d, NEW N, GrownFor(q, r, d, N),
           NEW c, NEW R, Comes(c, r, d, R)
    PROVE  \/ Comes(c, q, d, R)
           \/ \E t \in N : t.task = "send" /\ t.to = d /\ t.msg \in R
<1>0. PICK n : SendsKept(q, r, d, N, n)
  BY GrownSends
<1>1. ASSUME NEW j \in DOMAIN r, To(r, d, j), r[j].msg \in R
      PROVE  \/ InLoop(q, d, R)
             \/ \E t \in N : t.task = "send" /\ t.to = d /\ t.msg \in R
  <2>1. \/ j + n \in DOMAIN q /\ To(q, d, j + n) /\ r[j].msg = q[j + n].msg
        \/ r[j] \in N
    BY <1>0, <1>1 DEF SendsKept
  <2> QED
    BY <1>1, <2>1 DEF InLoop, To
<1> QED
  BY <1>1 DEF Comes, InLoop

LEMMA GrownAscends ==
    ASSUME NEW q \in Seq(Task), NEW r \in Seq(Task), NEW d, NEW N, GrownFor(q, r, d, N), NEW c,
           Ascends(c, q, d), NEW m, \A t \in N : t.task = "send" /\ t.to = d => t.msg = m,
           \A u : OnWay(u, c, q, d) => Rises(u, m)
    PROVE  Ascends(c, r, d)
<1>0. PICK n : SendsKept(q, r, d, N, n)
  BY GrownSends
<1>1. ASSUME NEW j \in DOMAIN r, To(r, d, j)
      PROVE  /\ j \in Nat /\ n \in Nat
             /\ \/ j + n \in DOMAIN q /\ To(q, d, j + n) /\ r[j].msg = q[j + n].msg
                \/ j + n > Len(q) /\ r[j].msg = m
  <2>1. /\ j \in Nat /\ n \in Nat
        /\ \/ j + n \in DOMAIN q /\ To(q, d, j + n) /\ r[j].msg = q[j + n].msg
           \/ j + n > Len(q) /\ r[j] \in N
    BY <1>0, <1>1 DEF SendsKept
  <2>2. r[j].task = "send" /\ r[j].to = d
    BY <1>1 DEF To
  <2> QED
    BY <2>1, <2>2
<1>2. /\ \A i \in DOMAIN c : OnWay(c[i], c, q, d)
      /\ \A i \in DOMAIN q : To(q, d, i) => OnWay(q[i].msg, c, q, d)
  BY OnWayIs
<1>3. Rises(m, m)
  BY DEF Rises
<1>4. ASSUME NEW i \in DOMAIN c, NEW j \in DOMAIN r, To(r, d, j) PROVE Rises(c[i], r[j].msg)
  BY <1>1, <1>2, <1>4 DEF Ascends
<1>5. ASSUME NEW i \in DOMAIN r, NEW j \in DOMAIN r, i < j, To(r, d, i), To(r, d, j)
      PROVE  Rises(r[i].msg, r[j].msg)
  <2>1. CASE i + n \in DOMAIN q /\ To(q, d, i + n) /\ r[i].msg = q[i + n].msg
    <3>1. CASE j + n \in DOMAIN q /\ To(q, d, j + n) /\ r[j].msg = q[j + n].msg
      <4>1. i + n < j + n
        BY <1>1, <1>5
      <4> QED
        BY <2>1, <3>1, <4>1 DEF Ascends
    <3>2. CASE r[j].msg = m
      BY <1>2, <2>1, <3>2
    <3> QED
      BY <1>1, <1>5, <3>1, <3>2
  <2>2. CASE i + n > Len(q) /\ r[i].msg = m
    <3>1. r[j].msg = m
      <4>1. i \in Nat /\ j \in Nat /\ n \in Nat /\ Len(q) \in Nat
        BY <1>1, <1>5
      <4>2. j + n \notin 1..Len(q) /\ DOMAIN q = 1..Len(q)
        BY <1>5, <2>2, <4>1
      <4> QED
        BY <1>1, <1>5, <4>2
    <3> QED
      BY <1>3, <2>2, <3>1
  <2> QED
    BY <1>1, <1>5, <2>1, <2>2
<1>6. \A i, j \in DOMAIN c : i < j => Rises(c[i], c[j])
  BY DEF Ascends
<1> QED
  BY <1>4, <1>5, <1>6 DEF Ascends

LEMMA MovedAscends ==
    ASSUME NEW c \in Seq(Message), NEW q \in Seq(Task), q # <<>>, NEW d, Ascends(c, q, d)
    PROVE  /\ Ascends(c, Tail(q), d)
           /\ To(q, d, 1) => Ascends(Append(c, q[1].msg), Tail(q), d)
<1> DEFINE m == q[1].msg
           b == Append(c, m)
           t == Tail(q)
<1>1. /\ 1 \in DOMAIN q /\ (To(q, d, 1) => m \in Message)
      /\ \A i \in DOMAIN t : i \in Nat /\ 1 < i + 1 /\ i + 1 \in DOMAIN q /\ t[i] = q[i + 1]
  BY TailIndices, QueueTypes DEF To
<1>2. To(q, d, 1) =>
          /\ \A i \in DOMAIN c : b[i] = c[i] /\ i < Len(b)
          /\ b[Len(b)] = m
          /\ \A i \in DOMAIN b : i \in DOMAIN c \/ i = Len(b)
  BY <1>1, AppendIndices
<1>3. \A i \in DOMAIN c : i \in Nat /\ i <= Len(c)
  OBVIOUS
<1>4. To(q, d, 1) => Len(b) = Len(c) + 1 /\ Len(c) \in Nat
  BY <1>1
<1> HIDE DEF m, b, t
<1>5. ASSUME NEW i \in DOMAIN t, NEW j \in DOMAIN t, i < j, To(t, d, i), To(t, d, j)
      PROVE  Rises(t[i].msg, t[j].msg)
  <2>1. i + 1 < j + 1 /\ To(q, d, i + 1) /\ To(q, d, j + 1)
    BY <1>1, <1>5 DEF To
  <2> QED
    BY <1>1, <2>1 DEF Ascends
<1>6. ASSUME NEW i \in DOMAIN c, NEW j \in DOMAIN t, To(t, d, j) PROVE Rises(c[i], t[j].msg)
  BY <1>1, <1>6 DEF Ascends, To
<1>7. ASSUME NEW j \in DOMAIN t, To(t, d, j), To(q, d, 1) PROVE Rises(m, t[j].msg)
  <2>1. 1 < j + 1 /\ j + 1 \in DOMAIN q /\ To(q, d, j + 1) /\ t[j] = q[j + 1]
    BY <1>1, <1>7 DEF To
  <2> QED
    BY <1>1, <1>7, <2>1 DEF Ascends, m
<1>8. ASSUME NEW i \in DOMAIN b, NEW j \in DOMAIN b, i < j, To(q, d, 1)
      PROVE  Rises(b[i], b[j])
  <2>1. i \in DOMAIN c
    BY <1>2, <1>3, <1>4, <1>8
  <2>2. CASE j \in DOMAIN c
    BY <1>2, <1>8, <2>1, <2>2 DEF Ascends
  <2>3. CASE j = Len(b)
    BY <1>1, <1>2, <1>8, <2>1, <2>3 DEF Ascends, m
  <2> QED
    BY <1>2, <1>8, <2>2, <2>3
<1>9. Ascends(c, t, d)
  BY <1>5, <1>6 DEF Ascends
<1>10. ASSUME To(q, d, 1) PROVE Ascends(b, t, d)
  <2>1. \A i \in DOMAIN b, j \in DOMAIN t : To(t, d, j) => Rises(b[i], t[j].msg)
    BY <1>2, <1>6, <1>7, <1>10
  <2> QED
    BY <1>5, <1>8, <1>10, <2>1 DEF Ascends
<1> QED
  BY <1>9, <1>10 DEF t, b, m

LEMMA WrittenAscends ==
    ASSUME NEW c \in Seq(Message), NEW q, NEW m \in Message, m.kind # "update", NEW d,
           Ascends(c, q, d)
    PROVE  Ascends(Append(c, m), q, d)
<1> DEFINE b == Append(c, m)
<1>1. /\ \A i \in DOMAIN c : b[i] = c[i]
      /\ b[Len(b)] = m
      /\ \A i \in DOMAIN b : i \in DOMAIN c \/ i = Len(b)
  BY AppendIndices
<1> HIDE DEF b
<1>2. \A n : Rises(n, m) /\ Rises(m, n)
  BY DEF Rises
<1> QED
  BY <1>1, <1>2 DEF Ascends, b

LEMMA ReadAscends ==
    ASSUME NEW c \in Seq(Message), c # <<>>, NEW q, NEW d, Ascends(c, q, d)
    PROVE  /\ Ascends(Tail(c), q, d)
           /\ \A m : OnWay(m, Tail(c), q, d) => Rises(c[1], m)
<1> DEFINE t == Tail(c)
<1>1. /\ 1 \in DOMAIN c
      /\ \A i \in DOMAIN t : i \in Nat /\ 1 < i + 1 /\ i + 1 \in DOMAIN c /\ t[i] = c[i + 1]
  BY TailIndices
<1> HIDE DEF t
<1>2. \A i, j \in DOMAIN t : i < j => i + 1 < j + 1
  BY <1>1
<1>3. Ascends(t, q, d)
  BY <1>1, <1>2 DEF Ascends
<1>4. ASSUME NEW m, OnWay(m, t, q, d) PROVE Rises(c[1], m)
  <2>1. \/ \E j \in DOMAIN t : t[j] = m
        \/ \E j \in DOMAIN q : To(q, d, j) /\ q[j].msg = m
    BY <1>4, OnWayIs
  <2> QED
    BY <1>1, <2>1 DEF Ascends
<1> QED
  BY <1>3, <1>4 DEF t

LEMMA EmptyAscends ==
    ASSUME NEW c, NEW q, NEW d, Ascends(c, q, d) PROVE Ascends(<<>>, q, d)
BY DEF Ascends

-----------------------------------------------------------------------------
(* Updates. A client that has applied a version shows what the update of   *)
(* that version wrote, if nobody has written it since, and so does every   *)
(* snapshot on its way: so an update can be dropped for its version.       *)

Line(d) == IF Connected(d) THEN chan[link[d]] ELSE <<>>
Sees(d) == Connected(d) /\ d \in synced \ jumped

Comprises(d, m) ==
    /\ Sees(d) /\ m.v <= view[d].v => view[d].data[m.field] = m.val
    /\ \A s : OnWay(s, Line(d), ready, d) /\ s.kind = "snapshot" /\ m.v <= s.v
         => s.data[m.field] = m.val

Lane(d) ==
    /\ Ascends(Line(d), ready, d)
    /\ \A m : OnWay(m, Line(d), ready, d) /\ m.kind = "set" => m.field \notin Context
    /\ \A m : OnWay(m, Line(d), ready, d) /\ m.kind = "update" =>
          /\ m.val <= clock
          /\ m.field \in Context /\ m.val = session.data[m.field] => Comprises(d, m)

LaneInv == \A d \in Devices : Lane(d)

LEMMA LineTypes ==
    ASSUME Known, NEW d \in Devices
    PROVE  /\ Line(d) \in Seq(Message)
           /\ Connected(d) => link[d] \in Conns /\ Line(d) = chan[link[d]]
           /\ ready \in Seq(Task)
           /\ view[d] \in ViewType /\ session \in SessionType /\ clock \in Nat
<1>1. Connected(d) => link[d] \in Conns
  BY ConnTypes
<1> QED
  BY <1>1 DEF Line, Known, Typed, WireTyped, LoopTyped, ClientTyped, Types

(* Every message on the way to d is one of the hub, of no version later    *)
(* than the session's; only connections carry snapshots.                   *)
LEMMA OnWayFacts ==
    ASSUME Known, VersionInv, NEW d \in Devices, NEW m, OnWay(m, Line(d), ready, d)
    PROVE  /\ m \in Message
           /\ Versioned(m) => m.v \in Nat /\ m.v <= session.v
           /\ m.kind = "snapshot" => \E i \in DOMAIN Line(d) : Line(d)[i] = m
<1>1. /\ Line(d) \in Seq(Message) /\ ready \in Seq(Task)
      /\ Connected(d) => link[d] \in Conns /\ Line(d) = chan[link[d]]
  BY LineTypes
<1>2. ASSUME NEW j \in DOMAIN Line(d), Line(d)[j] = m PROVE m \in Message /\ (Versioned(m) => m.v <= session.v)
  <2>1. Connected(d)
    BY <1>2 DEF Line
  <2>2. m \in Message
    BY <1>1, <1>2
  <2>3. Bounded(Line(d), session.v)
    BY <1>1, <2>1 DEF VersionInv, Connected
  <2> QED
    BY <1>2, <2>2, <2>3 DEF Bounded
<1>3. ASSUME NEW j \in DOMAIN ready, To(ready, d, j), ready[j].msg = m
      PROVE  m \in Message /\ (Versioned(m) => m.v <= session.v) /\ m.kind # "snapshot"
  <2>1. m \in Message
    BY <1>1, <1>3, QueueTypes DEF To
  <2>2. m.kind # "snapshot" /\ (Versioned(m) => m.v <= session.v)
    BY <1>3 DEF VersionInv, TasksBounded, To
  <2> QED
    BY <2>1, <2>2
<1>4. m \in Message /\ (Versioned(m) => m.v <= session.v)
  BY <1>2, <1>3, OnWayIs
<1>5. m.kind = "snapshot" => \E i \in DOMAIN Line(d) : Line(d)[i] = m
  BY <1>3, OnWayIs
<1>6. Versioned(m) => m.v \in Nat
  BY <1>4, VersionNat
<1> QED
  BY <1>4, <1>5, <1>6

LEMMA OnWayTyped ==
    ASSUME Known, NEW d \in Devices, NEW m, OnWay(m, Line(d), ready, d) PROVE m \in Message
<1>1. /\ Line(d) \in Seq(Message) /\ ready \in Seq(Task)
  BY LineTypes
<1>2. ASSUME NEW j \in DOMAIN Line(d), Line(d)[j] = m PROVE m \in Message
  BY <1>1, <1>2
<1>3. ASSUME NEW j \in DOMAIN ready, To(ready, d, j), ready[j].msg = m PROVE m \in Message
  BY <1>1, <1>3, QueueTypes DEF To
<1> QED
  BY <1>2, <1>3, OnWayIs

(* What a device sees stays as it is, or the device is no more connected.  *)
Stays(d) ==
    Connected(d)' =>
        /\ Connected(d) /\ link'[d] = link[d] /\ chan'[link[d]] = chan[link[d]]
        /\ view'[d] = view[d] /\ (d \in synced' <=> d \in synced)
        /\ (d \in jumped' <=> d \in jumped)

LEMMA StaysLine ==
    ASSUME NEW d, Stays(d)
    PROVE  /\ Line(d)' = Line(d) \/ Line(d)' = <<>>
           /\ Connected(d)' => Line(d)' = Line(d)
           /\ Sees(d)' => Sees(d) /\ view'[d] = view[d]
<1>1. CASE Connected(d)'
  BY <1>1 DEF Stays, Line, Sees
<1>2. CASE ~Connected(d)'
  BY <1>2 DEF Line, Sees
<1> QED
  BY <1>1, <1>2

(* What is written anew in this step is newer than all that was on the way.*)
Renews == /\ clock \in Nat /\ clock' \in Nat /\ clock <= clock'
          /\ \A f \in Context : session'.data[f] \in Nat
          /\ \A f \in Context : session'.data[f] = session.data[f] \/ session'.data[f] > clock

(* Tasks are added, for d those that send it m.                            *)
LEMMA LaneStays ==
    ASSUME LaneInv, Known, VersionInv, ready' \in Seq(Task), Renews, NEW d \in Devices, Stays(d),
           NEW N, GrownFor(ready, ready', d, N), NEW m \in Message, m.kind # "snapshot",
           \A t \in N : t.task = "send" /\ t.to = d => t.msg = m,
           m.kind = "update" => m.v = session.v + 1 /\ m.val <= clock',
           m.kind = "set" => m.field \notin Context
    PROVE  Lane(d)'
<1> DEFINE c == Line(d)
           q == ready
<1>1. c \in Seq(Message) /\ q \in Seq(Task) /\ session.v \in Nat /\ view[d].v \in Nat
  BY LineTypes DEF SessionType, ViewType
<1>2. Lane(d)
  BY DEF LaneInv
<1>3. \A u : OnWay(u, c, q, d) => Rises(u, m)
  <2> SUFFICES ASSUME NEW u, OnWay(u, c, q, d), u.kind = "update", m.kind = "update"
               PROVE  u.v < m.v
    BY DEF Rises
  <2>1. u.v \in Nat /\ u.v <= session.v
    BY OnWayFacts DEF Versioned
  <2> QED
    BY <1>1, <2>1
<1>4. Ascends(c, ready', d)
  BY <1>1, <1>2, <1>3, GrownAscends DEF Lane
<1>5. Line(d)' = c \/ Line(d)' = <<>>
  BY StaysLine
<1>6. Ascends(Line(d)', ready', d)
  BY <1>4, <1>5, EmptyAscends
<1>7. ASSUME NEW u, OnWay(u, Line(d)', ready', d) PROVE OnWay(u, c, q, d) \/ u = m
  <2>1. OnWay(u, c, ready', d)
    BY <1>5, <1>7, OnWayIs
  <2>2. \/ Comes(c, q, d, {u})
        \/ \E t \in N : t.task = "send" /\ t.to = d /\ t.msg \in {u}
    BY <1>1, <2>1, GrownBrings DEF OnWay
  <2> QED
    BY <2>2 DEF OnWay
<1>9. \A u : OnWay(u, Line(d)', ready', d) /\ u.kind = "set" => u.field \notin Context
  BY <1>2, <1>7 DEF Lane
<1> HIDE DEF c, q
<1>8. ASSUME NEW u, OnWay(u, Line(d)', ready', d), u.kind = "update"
      PROVE  /\ u.val <= clock'
             /\ u.field \in Context /\ u.val = session'.data[u.field] => Comprises(d, u)'
  <2>1. CASE OnWay(u, c, q, d)
    <3>1. u.val <= clock /\ u \in Message /\ u.val \in Nat
      BY <1>2, <1>8, <2>1, OnWayFacts DEF Lane, Message, c, q
    <3>2. ASSUME u.field \in Context, u.val = session'.data[u.field] PROVE Comprises(d, u)'
      <4>1. u.val = session.data[u.field]
        BY <3>1, <3>2 DEF Renews
      <4>2. Comprises(d, u)
        BY <1>2, <1>8, <2>1, <3>2, <4>1 DEF Lane, c, q
      <4>3. ASSUME NEW s, OnWay(s, Line(d)', ready', d), s.kind = "snapshot", u.v <= s.v
            PROVE  s.data[u.field] = u.val
        BY <1>7, <4>2, <4>3 DEF Comprises, c, q
      <4> QED
        BY <4>2, <4>3, StaysLine DEF Comprises
    <3> QED
      BY <3>1, <3>2 DEF Renews
  <2>2. CASE u = m
    <3>1. ASSUME NEW s, OnWay(s, Line(d)', ready', d), s.kind = "snapshot" PROVE ~(u.v <= s.v)
      <4>1. OnWay(s, c, q, d)
        BY <1>7, <3>1
      <4>2. s.v \in Nat /\ s.v <= session.v
        BY <3>1, <4>1, OnWayFacts DEF Versioned, c, q
      <4> QED
        BY <1>1, <1>8, <2>2, <4>2
    <3>2. Sees(d)' => ~(u.v <= view'[d].v)
      <4>1. Sees(d) => view[d].v <= session.v
        BY DEF VersionInv, ViewsBehind, Sees, Connected
      <4> QED
        BY <1>1, <1>8, <2>2, <4>1, StaysLine
    <3> QED
      BY <1>8, <2>2, <3>1, <3>2 DEF Comprises
  <2> QED
    BY <1>7, <1>8, <2>1, <2>2
<1> QED
  BY <1>6, <1>8, <1>9 DEF Lane

LEMMA LaneIdle ==
    ASSUME LaneInv, Known, VersionInv, ready' \in Seq(Task), Renews, NEW d \in Devices, Stays(d),
           NEW N, GrownFor(ready, ready', d, N), \A t \in N : t.task # "send"
    PROVE  Lane(d)'
<1> DEFINE m == [kind |-> "rejected", v |-> session.v]
<1>1. m \in Message
  BY MessageTypes DEF Known
<1>2. m.kind = "rejected" /\ \A t \in N : t.task = "send" /\ t.to = d => t.msg = m
  OBVIOUS
<1> HIDE DEF m
<1> QED
  BY <1>1, <1>2, LaneStays

(* Nothing is written to the session; what is on the way was, but for m.   *)
LEMMA LaneKept ==
    ASSUME LaneInv, NEW d \in Devices, UNCHANGED <<session, clock>>,
           Sees(d)' => Sees(d) /\ view'[d] = view[d],
           NEW m, m.kind \in {"snapshot", "rejected"}, m.kind = "snapshot" => m.data = session.data,
           \A u : OnWay(u, Line(d)', ready', d) => OnWay(u, Line(d), ready, d) \/ u = m,
           Ascends(Line(d)', ready', d)
    PROVE  Lane(d)'
<1>1. Lane(d)
  BY DEF LaneInv
<1>2. ASSUME NEW u, OnWay(u, Line(d)', ready', d), u.kind = "update"
      PROVE  /\ u.val <= clock'
             /\ u.field \in Context /\ u.val = session'.data[u.field] => Comprises(d, u)'
  <2>1. OnWay(u, Line(d), ready, d)
    BY <1>2
  <2>2. ASSUME u.field \in Context, u.val = session'.data[u.field] PROVE Comprises(d, u)'
    <3>1. Comprises(d, u)
      BY <1>1, <1>2, <2>1, <2>2 DEF Lane
    <3>2. ASSUME NEW s, OnWay(s, Line(d)', ready', d), s.kind = "snapshot", u.v <= s.v
          PROVE  s.data[u.field] = u.val
      BY <2>2, <3>1, <3>2 DEF Comprises
    <3> QED
      BY <3>1, <3>2 DEF Comprises
  <2> QED
    BY <1>1, <1>2, <2>1, <2>2 DEF Lane
<1>3. \A u : OnWay(u, Line(d)', ready', d) /\ u.kind = "set" => u.field \notin Context
  BY <1>1 DEF Lane
<1> QED
  BY <1>2, <1>3 DEF Lane

(* The event loop sends a message.                                         *)
LEMMA SendEffect ==
    ASSUME Known, OwnInv, RunSend, NEW d \in Devices
    PROVE  /\ ready # <<>> /\ ready' = Tail(ready) /\ ready' \in Seq(Task)
           /\ Connected(d)' <=> Connected(d)
           /\ IF To(ready, d, 1)
              THEN /\ ready[1].msg \in Message
                   /\ Connected(d) => Line(d)' = Append(Line(d), ready[1].msg)
              ELSE Stays(d) /\ \A N : GrownFor(ready, ready', d, N)
<1> DEFINE e == ready[1].to
           m == ready[1].msg
<1>1. /\ ready \in Seq(Task) /\ ready # <<>> /\ ready' = Tail(ready) /\ ready[1].task = "send"
      /\ chan' = Written(e, m) /\ UNCHANGED <<reg, up, link, view, synced, jumped>>
  BY DEF RunSend, clientVars, Known, Typed, LoopTyped
<1>2. e \in Devices /\ m \in Message /\ ready' \in Seq(Task) /\ 1 \in DOMAIN ready
  BY <1>1, TailIndices, QueueTypes
<1> HIDE DEF e, m
<1>3. /\ \A k \in Conns : k # reg[e] => chan'[k] = chan[k]
      /\ reg[e] # NoConn => chan'[reg[e]] = IF up[reg[e]] THEN Append(chan[reg[e]], m) ELSE chan[reg[e]]
  BY <1>1, <1>2, WrittenIs
<1>4. Connected(d)' <=> Connected(d)
  BY <1>1 DEF Connected
<1>5. CASE e = d
  <2>1. To(ready, d, 1)
    BY <1>1, <1>5 DEF To, e
  <2>2. Connected(d) => Line(d)' = Append(Line(d), m)
    BY <1>1, <1>3, <1>4, <1>5 DEF Line, Connected
  <2> QED
    BY <1>1, <1>2, <1>4, <2>1, <2>2 DEF m
<1>6. CASE e # d
  <2>1. ~To(ready, d, 1)
    BY <1>6 DEF To, e
  <2>2. Stays(d)
    <3>1. ASSUME Connected(d) PROVE link[d] \in Conns /\ link[d] # reg[e]
      BY <1>2, <1>6, <3>1, ConnTypes DEF OwnInv, Connected
    <3> QED
      BY <1>1, <1>3, <1>4, <3>1 DEF Stays
  <2>3. ASSUME NEW N PROVE GrownFor(ready, ready', d, N)
    <3>1. Grown(ready, ready', 1, N)
      BY <1>1, GrownTail
    <3>2. \A i \in DOMAIN ready : i <= 1 => i = 1
      BY <1>1
    <3> QED
      BY <2>1, <3>1, <3>2 DEF GrownFor
  <2> QED
    BY <1>1, <1>2, <1>4, <2>1, <2>2, <2>3
<1> QED
  BY <1>5, <1>6

LEMMA SendLane ==
    ASSUME LaneInv, OwnInv, VersionInv, Known, RunSend, NEW d \in Devices
    PROVE  Lane(d)'
<1> DEFINE x == [kind |-> "rejected", v |-> 0]
           m == ready[1].msg
<1>1. UNCHANGED <<session, clock, view, synced, jumped, link, reg, up>>
  BY DEF RunSend, sessionVars, clientVars
<1>2. /\ Line(d) \in Seq(Message) /\ ready \in Seq(Task) /\ ready # <<>> /\ ready' = Tail(ready)
      /\ (Connected(d)' <=> Connected(d)) /\ Lane(d)
  BY LineTypes, SendEffect DEF LaneInv
<1>3. Sees(d)' => Sees(d) /\ view'[d] = view[d]
  BY <1>1, <1>2 DEF Sees
<1>4. x.kind = "rejected"
  OBVIOUS
<1> HIDE DEF x
<1>5. CASE To(ready, d, 1) /\ Connected(d)
  <2>1. Line(d)' = Append(Line(d), m)
    BY <1>5, SendEffect
  <2>2. Ascends(Line(d)', ready', d)
    BY <1>2, <1>5, <2>1, MovedAscends DEF Lane
  <2>3. \A u : OnWay(u, Line(d)', ready', d) => OnWay(u, Line(d), ready, d)
    BY <1>2, <1>5, <2>1, MovedMends DEF OnWay
  <2> QED
    BY <1>1, <1>3, <1>4, <2>2, <2>3, LaneKept
<1>6. CASE ~(To(ready, d, 1) /\ Connected(d))
  <2>1. Line(d)' = Line(d)
    BY <1>2, <1>6, SendEffect DEF Line, Stays
  <2>2. Ascends(Line(d)', ready', d)
    BY <1>2, <2>1, MovedAscends DEF Lane
  <2>3. ASSUME NEW u, OnWay(u, Line(d)', ready', d) PROVE OnWay(u, Line(d), ready, d)
    <3>1. \A j \in DOMAIN ready' : j + 1 \in DOMAIN ready /\ ready'[j] = ready[j + 1]
      BY <1>2, TailIndices
    <3> QED
      BY <2>1, <2>3, <3>1, OnWayIs DEF To
  <2> QED
    BY <1>1, <1>3, <1>4, <2>2, <2>3, LaneKept
<1> QED
  BY <1>5, <1>6

(* A handler that goes on takes only itself out of the queue.              *)
LEMMA RestFor ==
    ASSUME Known, NEW h \in Handlers, Resumed(h), NEW d, NEW N
    PROVE  Rest \in Seq(Task) /\ GrownFor(ready, Rest, d, N)
<1>1. /\ Rest \in Seq(Task)
      /\ \E n \in {0, 1} : Grown(ready, Rest, n, N) /\ (n = 1 => ready[1] = Resume(h))
  BY RestGrows DEF Known, Typed
<1>2. PICK n \in {0, 1} : Grown(ready, Rest, n, N) /\ (n = 1 => ready[1] = Resume(h))
  BY <1>1
<1>3. ASSUME NEW i \in DOMAIN ready, i <= n PROVE ~To(ready, d, i)
  <2>1. i \in Nat /\ i # 0
    BY DEF Known, Typed, LoopTyped
  <2>2. i = 1 /\ n = 1
    BY <1>3, <2>1
  <2> QED
    BY <1>2, <2>2 DEF To, Resume
<1> QED
  BY <1>1, <1>2, <1>3 DEF GrownFor

LEMMA SameFor ==
    ASSUME NEW q \in Seq(Task), NEW d, NEW N PROVE GrownFor(q, q, d, N)
<1>1. Grown(q, q, 0, N)
  BY GrownItself
<1>2. \A i \in DOMAIN q : ~(i <= 0)
  OBVIOUS
<1> QED
  BY <1>1, <1>2 DEF GrownFor

(* The hub writes a message to the device e.                               *)
LEMMA WriteEffect ==
    ASSUME Known, OwnInv, NEW e \in Devices, NEW m \in Message, chan' = Written(e, m),
           UNCHANGED <<reg, up, link, view, synced, jumped>>, NEW d \in Devices
    PROVE  /\ Connected(d)' <=> Connected(d)
           /\ d # e => Stays(d)
           /\ d = e /\ Connected(d) => Line(d)' = Append(Line(d), m)
           /\ ~Connected(d) => Line(d) = <<>> /\ Line(d)' = <<>>
<1>1. /\ \A k \in Conns : k # reg[e] => chan'[k] = chan[k]
      /\ reg[e] # NoConn => chan'[reg[e]] = IF up[reg[e]] THEN Append(chan[reg[e]], m) ELSE chan[reg[e]]
  BY WrittenIs
<1>2. Connected(d)' <=> Connected(d)
  BY DEF Connected
<1>3. d = e /\ Connected(d) => Line(d)' = Append(Line(d), m)
  BY <1>1, <1>2 DEF Line, Connected
<1>4. ASSUME d # e PROVE Stays(d)
  <2>1. ASSUME Connected(d) PROVE link[d] \in Conns /\ link[d] # reg[e]
    BY <1>4, <2>1, ConnTypes DEF OwnInv, Connected
  <2> QED
    BY <1>1, <1>2, <2>1 DEF Stays
<1> QED
  BY <1>2, <1>3, <1>4 DEF Line

LEMMA WriteLane ==
    ASSUME LaneInv, OwnInv, VersionInv, Known, NEW e \in Devices, NEW m \in Message,
           chan' = Written(e, m), m.kind \in {"snapshot", "rejected"},
           m.kind = "snapshot" => m.data = session.data,
           UNCHANGED <<session, clock, ready, reg, up, link, view, synced, jumped>>,
           NEW d \in Devices
    PROVE  Lane(d)'
<1>1. /\ Line(d) \in Seq(Message) /\ Lane(d)
  BY LineTypes DEF LaneInv
<1>2. /\ Connected(d)' <=> Connected(d)
      /\ d # e => Stays(d)
      /\ d = e /\ Connected(d) => Line(d)' = Append(Line(d), m)
      /\ ~Connected(d) => Line(d) = <<>> /\ Line(d)' = <<>>
  BY WriteEffect
<1>3. Sees(d)' => Sees(d) /\ view'[d] = view[d]
  BY <1>2 DEF Sees
<1>4. CASE d = e /\ Connected(d)
  <2>1. Ascends(Line(d)', ready', d)
    BY <1>1, <1>2, <1>4, WrittenAscends DEF Lane
  <2>2. \A u : OnWay(u, Line(d)', ready', d) => OnWay(u, Line(d), ready, d) \/ u = m
    <3> TAKE u
    <3>1. m \notin {}
      OBVIOUS
    <3>2. Comes(Append(Line(d), m), ready, d, {u}) => Comes(Line(d), ready, d, {u}) \/ m \in {u}
      BY <1>1, <3>1, WrittenMends
    <3> QED
      BY <1>2, <1>4, <3>2 DEF OnWay
  <2> QED
    BY <1>3, <2>1, <2>2, LaneKept
<1>5. CASE ~(d = e /\ Connected(d))
  <2>1. Line(d)' = Line(d)
    BY <1>2, <1>5, StaysLine
  <2> QED
    BY <1>1, <1>3, <2>1, LaneKept DEF Lane
<1> QED
  BY <1>4, <1>5

(* A new connection is registered and gets its snapshot.                   *)
LEMMA GreetEffect ==
    ASSUME Known, OwnInv, NEW k \in Conns, HubGreet(k), NEW d \in Devices
    PROVE  /\ Resumed(k) /\ ready' = Rest /\ UNCHANGED <<session, clock>>
           /\ dev[k] \in Devices /\ Snapshot(session) \in Message
           /\ d # dev[k] => Stays(d) /\ reg'[d] = reg[d]
           /\ d = dev[k] => /\ ~Sees(d)'
                            /\ Connected(d)' => Line(d)' = Append(<<>>, Snapshot(session))
                            /\ ~Connected(d)' => Line(d)' = <<>>
<1> DEFINE e == dev[k]
           s == Snapshot(session)
<1>1. /\ pc[k] = "connecting" /\ reg' = [reg EXCEPT ![e] = k]
      /\ chan' = IF up[k] THEN [chan EXCEPT ![k] = Append(@, s)] ELSE chan
      /\ UNCHANGED <<dev, link, up, view, synced, jumped, session, clock>>
      /\ Resumed(k) /\ ready' = Rest
  BY DEF HubGreet, clientVars
<1>2. e \in Devices /\ chan[k] = <<>> /\ s \in Message /\ \A f \in synced : link[f] # k
  BY <1>1, MessageTypes DEF OwnInv, Known
<1> HIDE DEF e, s
<1>3. /\ \A j \in Conns : j # k => chan'[j] = chan[j]
      /\ reg'[e] = k /\ \A f \in Devices : f # e => reg'[f] = reg[f]
      /\ up[k] => chan'[k] = Append(<<>>, s)
  BY <1>1, <1>2 DEF Known, Typed, WireTyped
<1>4. ASSUME d # e PROVE Stays(d)
  <2>1. ASSUME Connected(d)' PROVE Connected(d) /\ link[d] \in Conns /\ link[d] # k
    <3>1. link[d] # NoConn /\ up[link[d]] /\ reg[d] = link[d]
      BY <1>1, <1>3, <1>4, <2>1 DEF Connected
    <3> QED
      BY <1>4, <3>1, ConnTypes DEF OwnInv, Connected, e
  <2> QED
    BY <1>1, <1>3, <2>1 DEF Stays
<1>5. ASSUME d = e PROVE ~Sees(d)' /\ (Connected(d)' => Line(d)' = Append(<<>>, s))
  BY <1>1, <1>2, <1>3, <1>5 DEF Sees, Connected, Line
<1> QED
  BY <1>1, <1>2, <1>3, <1>4, <1>5 DEF Line, e, s

LEMMA GreetLane ==
    ASSUME LaneInv, OwnInv, VersionInv, Known, NEW k \in Conns, HubGreet(k), NEW d \in Devices
    PROVE  Lane(d)'
<1> DEFINE s == Snapshot(session)
<1>1. /\ Resumed(k) /\ ready' = Rest /\ UNCHANGED <<session, clock>>
      /\ dev[k] \in Devices /\ s \in Message
      /\ d # dev[k] => Stays(d)
      /\ d = dev[k] => /\ ~Sees(d)'
                       /\ Connected(d)' => Line(d)' = Append(<<>>, s)
                       /\ ~Connected(d)' => Line(d)' = <<>>
  BY GreetEffect
<1>2. /\ ready' \in Seq(Task) /\ \A N : GrownFor(ready, ready', d, N)
      /\ Line(d) \in Seq(Message) /\ ready \in Seq(Task) /\ Lane(d)
  BY <1>1, RestFor, ConnTypes, LineTypes DEF LaneInv
<1>3. s.kind = "snapshot" /\ s.data = session.data
  BY DEF Snapshot
<1> HIDE DEF s
<1>4. CASE d # dev[k]
  <2>1. Renews
    BY <1>1, LineTypes DEF Renews, SessionType, Context, Fields
  <2>2. GrownFor(ready, ready', d, {})
    BY <1>2
  <2>3. Stays(d) /\ \A t \in {} : t.task # "send"
    BY <1>1, <1>4
  <2> QED
    BY <1>2, <2>1, <2>2, <2>3, LaneIdle
<1>5. CASE d = dev[k]
  <2>1. Ascends(<<>>, ready', d)
    <3> DEFINE m == [kind |-> "rejected", v |-> 0]
    <3> DEFINE N == {}
    <3>1. GrownFor(ready, ready', d, N) /\ \A t \in N : t.task = "send" /\ t.to = d => t.msg = m
      BY <1>2
    <3>2. \A u : Rises(u, m)
      BY DEF Rises
    <3> HIDE DEF m, N
    <3>4. Ascends(Line(d), ready, d)
      BY <1>2 DEF Lane
    <3>3. Ascends(Line(d), ready', d)
      BY <1>2, <3>1, <3>2, <3>4, GrownAscends
    <3> QED
      BY <3>3, EmptyAscends
  <2>2. ASSUME NEW u, OnWay(u, <<>>, ready', d) PROVE OnWay(u, Line(d), ready, d)
    <3>1. GrownFor(ready, ready', d, {})
      BY <1>2
    <3>2. Comes(Line(d), ready', d, {u})
      BY <2>2 DEF OnWay, Comes
    <3> QED
      BY <1>2, <3>1, <3>2, GrownBrings DEF OnWay
  <2>3. CASE ~Connected(d)'
    BY <1>1, <1>3, <1>5, <2>1, <2>2, <2>3, LaneKept
  <2>4. CASE Connected(d)'
    <3>1. <<>> \in Seq(Message) /\ s.kind # "update" /\ s \notin {}
      BY <1>3
    <3>2. Ascends(Line(d)', ready', d)
      BY <1>1, <1>5, <2>1, <2>4, <3>1, WrittenAscends
    <3>3. \A u : OnWay(u, Line(d)', ready', d) => OnWay(u, Line(d), ready, d) \/ u = s
      <4> TAKE u
      <4>1. Comes(Append(<<>>, s), ready', d, {u}) => Comes(<<>>, ready', d, {u}) \/ s \in {u}
        BY <1>1, <3>1, WrittenMends
      <4> QED
        BY <1>1, <1>5, <2>2, <2>4, <4>1 DEF OnWay
    <3> QED
      BY <1>1, <1>3, <1>5, <3>2, <3>3, LaneKept
  <2> QED
    BY <2>3, <2>4
<1> QED
  BY <1>4, <1>5

(* A client reads the first message of its connection.                     *)
LEMMA ReadEffect ==
    ASSUME Known, OwnInv, NEW e \in Devices, Receive(e), NEW d \in Devices
    PROVE  /\ Connected(d)' <=> Connected(d)
           /\ UNCHANGED <<ready, session, clock, reg>>
           /\ d # e => Stays(d)
           /\ ~Connected(d) => Line(d) = <<>> /\ Line(d)' = <<>>
           /\ d = e /\ Connected(d) =>
                 /\ Line(d) # <<>> /\ Line(d)[1] \in Message /\ Line(d)' = Tail(Line(d))
                 /\ d \notin synced => Line(d)[1].kind = "snapshot"
<1> DEFINE k == link[e]
<1>0. /\ k \in Conns /\ chan[k] # <<>> /\ chan' = [chan EXCEPT ![k] = Tail(@)]
      /\ view' = view \/ \E x : view' = [view EXCEPT ![e] = x]
      /\ UNCHANGED <<ready, session, clock, reg, up, link>>
  BY ConnTypes DEF Receive, loopVars, sessionVars
<1>7. d # e => (d \in synced' <=> d \in synced) /\ (d \in jumped' <=> d \in jumped)
  BY DEF Receive
<1>1. /\ k \in Conns /\ chan[k] # <<>> /\ chan' = [chan EXCEPT ![k] = Tail(@)]
      /\ d # e => view'[d] = view[d] /\ (d \in synced' <=> d \in synced)
                                    /\ (d \in jumped' <=> d \in jumped)
      /\ UNCHANGED <<ready, session, clock, reg, up, link>>
  BY <1>0, <1>7 DEF Known, Typed, ClientTyped
<1>2. Connected(d)' <=> Connected(d)
  BY <1>1 DEF Connected
<1>3. /\ \A j \in Conns : j # k => chan'[j] = chan[j]
      /\ chan'[k] = Tail(chan[k]) /\ chan[k][1] \in Message
  BY <1>1, TailIndices DEF Known, Typed, WireTyped
<1>4. d # e /\ Connected(d) => link[d] # k /\ link[d] \in Conns
  BY <1>1, ConnTypes DEF OwnInv
<1>5. d # e => Stays(d)
  BY <1>1, <1>2, <1>3, <1>4 DEF Stays
<1>6. d = e /\ Connected(d) =>
          /\ Line(d) # <<>> /\ Line(d)[1] \in Message /\ Line(d)' = Tail(Line(d))
          /\ d \notin synced => Line(d)[1].kind = "snapshot"
  BY <1>1, <1>2, <1>3 DEF Line, OwnInv
<1> QED
  BY <1>1, <1>2, <1>5, <1>6 DEF Line

(* What reading m does to what the client shows.                           *)
LEMMA ReadView ==
    ASSUME Known, NEW d \in Devices, Receive(d), NEW m \in Message, m = chan[link[d]][1]
    PROVE  \/ /\ m.kind = "update" /\ UNCHANGED <<view, synced, jumped>>
              /\ asks'[link[d]] = IF up[link[d]] THEN asks[link[d]] + 1 ELSE asks[link[d]]
           \/ /\ view'[d] = Applied(view[d], m) /\ UNCHANGED asks
              /\ \/ m.kind = "snapshot" /\ synced' = synced \cup {d} /\ jumped' = jumped \ {d}
                 \/ /\ m.kind # "snapshot" /\ UNCHANGED synced
                    /\ IF m.kind = "rejected" /\ m.v > view[d].v THEN jumped' = jumped \cup {d}
                       ELSE jumped' \in {jumped, jumped \cup {d}}
<1>1. link[d] \in Conns
  BY ConnTypes DEF Receive
<1>2. CASE IsGap(d, m) /\ UNCHANGED <<view, synced, jumped>>
           /\ asks' = [asks EXCEPT ![link[d]] = IF up[link[d]] THEN @ + 1 ELSE @]
  BY <1>1, <1>2 DEF IsGap, Known, Typed, WireTyped
<1>3. CASE /\ ~IsGap(d, m) /\ view' = [view EXCEPT ![d] = Applied(@, m)] /\ UNCHANGED asks
           /\ IF m.kind = "snapshot"
              THEN synced' = synced \cup {d} /\ jumped' = jumped \ {d}
              ELSE /\ UNCHANGED synced
                   /\ jumped' = IF Jumps(d, m) THEN jumped \cup {d} ELSE jumped
  <2>1. view'[d] = Applied(view[d], m)
    BY <1>3 DEF Known, Typed, ClientTyped
  <2>2. m.kind = "rejected" /\ m.v > view[d].v => Jumps(d, m)
    BY DEF Jumps
  <2> QED
    BY <1>3, <2>1, <2>2
<1> QED
  BY <1>2, <1>3 DEF Receive

LEMMA AppliedIs ==
    ASSUME NEW c \in ViewType, NEW m \in Message
    PROVE  LET a == Applied(c, m) IN
           /\ a \in ViewType /\ c.v \in Nat
           /\ m.kind \in {"snapshot", "update", "set", "chat", "rejected"}
           /\ m.kind = "snapshot" => a.v = m.v /\ a.data = m.data /\ a.msgs = m.msgs /\ m.v \in Nat
           /\ m.kind = "update" =>
                 /\ m.v \in Nat /\ m.field \in Fields /\ a.msgs = c.msgs
                 /\ m.v <= c.v => a = c
                 /\ ~(m.v <= c.v) => /\ a.v = m.v /\ a.data[m.field] = m.val
                                     /\ \A f \in Fields : f # m.field => a.data[f] = c.data[f]
           /\ m.kind = "set" =>
                 /\ a.v = c.v /\ a.msgs = c.msgs /\ m.field \in Fields
                 /\ a.data[m.field] = m.val
                 /\ \A f \in Fields : f # m.field => a.data[f] = c.data[f]
           /\ m.kind = "chat" => a.v = c.v /\ a.data = c.data /\ m.msg \in Nat
                                 /\ ToSet(a.msgs) = ToSet(c.msgs) \cup {m.msg}
           /\ m.kind = "rejected" => /\ a.data = c.data /\ a.msgs = c.msgs /\ m.v \in Nat
                                     /\ a.v = IF c.v > m.v THEN c.v ELSE m.v
<1> DEFINE a == Applied(c, m)
<1>1. a \in ViewType /\ c.v \in Nat /\ c.data \in [Fields -> Nat] /\ c.msgs \in Seq(Nat)
  BY AppliedTyped DEF ViewType
<1>2. CASE m.kind = "snapshot"
  <2>1. a = [v |-> m.v, data |-> m.data, msgs |-> m.msgs] /\ m.v \in Nat
    BY <1>2 DEF Applied, Message
  <2> QED
    BY <1>1, <1>2, <2>1
<1>3. CASE m.kind = "update"
  <2>1. a = (IF m.v <= c.v THEN c ELSE [c EXCEPT !.v = m.v, !.data[m.field] = m.val])
    BY <1>3 DEF Applied
  <2>2. m.v \in Nat /\ m.field \in Fields
    BY <1>3 DEF Message
  <2>3. ~(m.v <= c.v) => /\ a.v = m.v /\ a.data[m.field] = m.val /\ a.msgs = c.msgs
                         /\ \A f \in Fields : f # m.field => a.data[f] = c.data[f]
    BY <1>1, <2>1, <2>2 DEF ViewType
  <2> QED
    BY <1>1, <1>3, <2>1, <2>2, <2>3
<1>4. CASE m.kind = "set"
  <2>1. a = [c EXCEPT !.data[m.field] = m.val] /\ m.field \in Fields
    BY <1>4 DEF Applied, Message
  <2> QED
    BY <1>1, <1>4, <2>1 DEF ViewType
<1>5. CASE m.kind = "chat"
  <2>1. a = [c EXCEPT !.msgs = Append(@, m.msg)] /\ m.msg \in Nat
    BY <1>5 DEF Applied, Message
  <2>2. ToSet(Append(c.msgs, m.msg)) = ToSet(c.msgs) \cup {m.msg}
    BY <1>1, <2>1, AppendSet
  <2>3. a.v = c.v /\ a.data = c.data /\ a.msgs = Append(c.msgs, m.msg)
    BY <2>1 DEF ViewType
  <2> QED
    BY <1>1, <1>5, <2>1, <2>2, <2>3
<1>6. CASE m.kind = "rejected"
  <2>1. a = [c EXCEPT !.v = IF @ > m.v THEN @ ELSE m.v] /\ m.v \in Nat
    BY <1>6 DEF Applied, Message
  <2>2. a.data = c.data /\ a.msgs = c.msgs /\ a.v = IF c.v > m.v THEN c.v ELSE m.v
    BY <2>1 DEF ViewType
  <2> QED
    BY <1>1, <1>6, <2>1, <2>2
<1>7. m.kind \in {"snapshot", "update", "set", "chat", "rejected"}
  BY DEF Message
<1> QED
  BY <1>1, <1>2, <1>3, <1>4, <1>5, <1>6, <1>7

LEMMA ReadLane ==
    ASSUME LaneInv, OwnInv, VersionInv, Known, NEW e \in Devices, Receive(e), NEW d \in Devices
    PROVE  Lane(d)'
<1>1. /\ Connected(d)' <=> Connected(d)
      /\ UNCHANGED <<ready, session, clock, reg>>
      /\ d # e => Stays(d)
      /\ ~Connected(d) => Line(d) = <<>> /\ Line(d)' = <<>>
      /\ d = e /\ Connected(d) => /\ Line(d) # <<>> /\ Line(d)[1] \in Message
                                  /\ Line(d)' = Tail(Line(d))
  BY ReadEffect
<1>2. Line(d) \in Seq(Message) /\ Lane(d) /\ view[d] \in ViewType /\ session \in SessionType
  BY LineTypes DEF LaneInv
<1> DEFINE x == [kind |-> "rejected", v |-> 0]
<1>3. x.kind = "rejected"
  OBVIOUS
<1> HIDE DEF x
<1>4. CASE ~(d = e /\ Connected(d))
  <2>1. Line(d)' = Line(d) /\ (Sees(d)' => Sees(d) /\ view'[d] = view[d])
    BY <1>1, <1>4, StaysLine DEF Sees
  <2> QED
    BY <1>1, <1>2, <1>3, <2>1, LaneKept DEF Lane
<1>5. CASE d = e /\ Connected(d)
  <2> DEFINE m == Line(d)[1]
             c == Line(d)
             t == Tail(c)
  <2>1. /\ m \in Message /\ c # <<>> /\ Line(d)' = t /\ m = chan[link[d]][1]
        /\ OnWay(m, c, ready, d)
    <3>1. m \in Message /\ c # <<>> /\ Line(d)' = t /\ m = chan[link[d]][1]
      BY <1>1, <1>5, LineTypes
    <3>2. 1 \in DOMAIN c
      BY <1>2, <3>1, TailIndices
    <3> QED
      BY <3>1, <3>2, OnWayIs
  <2>2. Ascends(t, ready, d) /\ \A u : OnWay(u, t, ready, d) => Rises(m, u)
    BY <1>2, <2>1, ReadAscends DEF Lane
  <2>3. \A u : OnWay(u, t, ready, d) => OnWay(u, c, ready, d)
    BY <1>2, <2>1, ReadMends DEF OnWay
  <2> HIDE DEF m, c, t
  <2>4. \/ m.kind = "update" /\ UNCHANGED <<view, synced, jumped>>
        \/ /\ view'[d] = Applied(view[d], m)
           /\ \/ m.kind = "snapshot" /\ synced' = synced \cup {d} /\ jumped' = jumped \ {d}
              \/ /\ m.kind # "snapshot" /\ UNCHANGED synced
                 /\ IF m.kind = "rejected" /\ m.v > view[d].v THEN jumped' = jumped \cup {d}
                    ELSE jumped' \in {jumped, jumped \cup {d}}
    BY <1>5, <2>1, ReadView
  <2>5. ASSUME NEW u, OnWay(u, t, ready, d), u.kind = "update",
               u.field \in Context, u.val = session.data[u.field], Sees(d)', u.v <= view'[d].v
        PROVE  view'[d].data[u.field] = u.val
    <3>1. /\ Sees(d) /\ u.v <= view[d].v => view[d].data[u.field] = u.val
          /\ m.kind = "snapshot" /\ u.v <= m.v => m.data[u.field] = u.val
      BY <1>2, <2>1, <2>3, <2>5 DEF Lane, Comprises, c
    <3>2. u.v \in Nat /\ u.field \in Fields
      BY <2>3, <2>5, OnWayFacts, FieldsAre DEF Versioned, c, Context
    <3>3. CASE m.kind = "update" /\ UNCHANGED <<view, synced, jumped>>
      BY <1>1, <2>5, <3>1, <3>3 DEF Sees
    <3>4. CASE m.kind = "snapshot" /\ view'[d] = Applied(view[d], m)
      <4>1. view'[d].v = m.v /\ view'[d].data = m.data
        BY <1>2, <2>1, <3>4, AppliedIs
      <4> QED
        BY <2>5, <3>1, <3>4, <4>1
    <3>5. CASE /\ view'[d] = Applied(view[d], m) /\ m.kind # "snapshot" /\ UNCHANGED synced
               /\ IF m.kind = "rejected" /\ m.v > view[d].v THEN jumped' = jumped \cup {d}
                  ELSE jumped' \in {jumped, jumped \cup {d}}
      <4>1. Sees(d) /\ ~(m.kind = "rejected" /\ m.v > view[d].v)
        BY <1>1, <2>5, <3>5 DEF Sees
      <4>2. CASE m.kind = "update"
        <5>1. Rises(m, u) /\ m.v \in Nat
          BY <1>2, <2>1, <2>2, <2>5, <4>2, AppliedIs
        <5>2. CASE m.v <= view[d].v
          <6>1. Applied(view[d], m) = view[d]
            BY <1>2, <2>1, <4>2, <5>2, AppliedIs
          <6> QED
            BY <2>5, <3>1, <3>5, <4>1, <6>1
        <5>3. CASE ~(m.v <= view[d].v)
          <6>0. Applied(view[d], m).v = m.v /\ Applied(view[d], m).data[m.field] = m.val
            BY <1>2, <2>1, <4>2, <5>3, AppliedIs
          <6>1. view'[d].v = m.v /\ view'[d].data[m.field] = m.val
            BY <3>5, <6>0
          <6>2. u = m
            BY <2>5, <3>2, <4>2, <5>1, <6>1 DEF Rises
          <6> QED
            BY <6>1, <6>2
        <5> QED
          BY <5>2, <5>3
      <4>3. CASE m.kind = "set"
        <5>1. m.field \notin Context
          BY <1>2, <2>1, <4>3 DEF Lane, c
        <5>2. /\ Applied(view[d], m).v = view[d].v
              /\ Applied(view[d], m).data[u.field] = view[d].data[u.field]
          <6>1. /\ Applied(view[d], m).v = view[d].v
                /\ \A f \in Fields : f # m.field => Applied(view[d], m).data[f] = view[d].data[f]
            BY <1>2, <2>1, <4>3, AppliedIs
          <6> QED
            BY <2>5, <3>2, <5>1, <6>1
        <5> QED
          BY <2>5, <3>1, <3>5, <4>1, <5>2
      <4>4. CASE m.kind = "chat"
        BY <1>2, <2>1, <2>5, <3>1, <3>5, <4>1, <4>4, AppliedIs
      <4>5. CASE m.kind = "rejected"
        <5>1. view'[d].data = view[d].data /\ view'[d].v = view[d].v
          BY <1>2, <2>1, <3>5, <4>1, <4>5, AppliedIs
        <5> QED
          BY <2>5, <3>1, <4>1, <5>1
      <4> QED
        BY <1>2, <2>1, <3>5, <4>2, <4>3, <4>4, <4>5, AppliedIs
    <3> QED
      BY <2>4, <3>3, <3>4, <3>5
  <2>6. ASSUME NEW u, OnWay(u, t, ready, d), u.kind = "update",
               u.field \in Context, u.val = session.data[u.field]
        PROVE  Comprises(d, u)'
    <3>1. \A s : OnWay(s, t, ready, d) /\ s.kind = "snapshot" /\ u.v <= s.v => s.data[u.field] = u.val
      BY <1>2, <2>3, <2>6 DEF Lane, Comprises, c
    <3>2. Sees(d)' /\ u.v <= view'[d].v => view'[d].data[u.field] = u.val
      BY <2>5, <2>6
    <3> QED
      BY <1>1, <2>1, <3>1, <3>2 DEF Comprises
  <2>7. \A u : OnWay(u, t, ready, d) =>
                  /\ u.kind = "update" => u.val <= clock
                  /\ u.kind = "set" => u.field \notin Context
    BY <1>2, <2>3 DEF Lane, c
  <2> QED
    BY <1>1, <2>1, <2>2, <2>6, <2>7 DEF Lane
<1> QED
  BY <1>4, <1>5

-----------------------------------------------------------------------------
(* Handlers that have still to echo what they wrote. The echo of a status  *)
(* is that of the handler's own request; an old one comes before the last. *)

Savers(kind) == {h \in Handlers : pc[h] = "saving" /\ req[h].kind = kind}
Stale == {h \in Savers("core") : req[h].stamp # session.data["core"]}

(* In the queue q, every handler of S goes on before h does. *)
GoesLast(q, h, S) ==
    \A g \in S : \A j \in DOMAIN q : q[j] = Resume(h) =>
        \E i \in DOMAIN q : i < j /\ q[i] = Resume(g)

Echo(f) ==
    \/ f = "tests" /\ Savers("tests") # {}
    \/ f = "core" /\ \E h \in Savers("core") \ Stale : GoesLast(ready, h, Stale)
NoStale(f) == f = "core" => Stale = {}

(* A served client has a snapshot, or gets one; a client that has still to *)
(* ask for one, or whose connection is being closed, is not.               *)
Served(d) ==
    /\ Connected(d) /\ pc[link[d]] # "closing" /\ asks[link[d]] = 0
    /\ d \in synced \ jumped \/ \E i \in DOMAIN Line(d) : Line(d)[i].kind = "snapshot"

(* Nothing is sent, and the handlers with a status to echo keep their turn.*)
LoopIdle ==
    \E n, N :
        /\ Grown(ready, ready', n, N)
        /\ \A i \in DOMAIN ready : i <= n =>
              ready[i].task = "resume" /\ ready[i].handler \notin Savers("core")
        /\ \A t \in N : t.task = "resume" /\ t.handler \notin Savers("core")

SaversStay ==
    /\ Savers("tests") \subseteq Savers("tests")'
    /\ session'.data["core"] = session.data["core"] =>
          Savers("core")' = Savers("core") /\ \A h \in Savers("core") : req'[h] = req[h]

(* What is written, if anything, is written in silence.                    *)
Unheard(d) ==
    /\ silent[d] \subseteq silent'[d]
    /\ \A f \in Fields \ silent'[d] : session'.data[f] = session.data[f]
    /\ "messages" \notin silent'[d] => session'.msgs = session.msgs

IdleFor(d) ==
    /\ Stays(d) /\ Unheard(d)
    /\ reg'[d] # NoConn => reg[d] # NoConn
    /\ Served(d)' => Served(d)

Idle == LoopIdle /\ SaversStay /\ Renews /\ \A d \in Devices : IdleFor(d)

LEMMA LoopIdleFor ==
    ASSUME Known, LoopIdle, NEW d
    PROVE  \E N : GrownFor(ready, ready', d, N) /\ \A t \in N : t.task # "send"
<1>1. PICK n, N :
          /\ Grown(ready, ready', n, N)
          /\ \A i \in DOMAIN ready : i <= n => ready[i].task = "resume"
          /\ \A t \in N : t.task = "resume"
  BY DEF LoopIdle
<1>2. GrownFor(ready, ready', d, N)
  BY <1>1 DEF GrownFor, To
<1> QED
  BY <1>1, <1>2

LEMMA SameLoop == ASSUME Known, ready' = ready PROVE LoopIdle
<1>1. ready \in Seq(Task)
  BY DEF Known, Typed, LoopTyped
<1>2. Grown(ready, ready', 0, {})
  BY <1>1, GrownItself
<1>3. \A i \in DOMAIN ready : ~(i <= 0)
  BY <1>1
<1> QED
  BY <1>2, <1>3 DEF LoopIdle

LEMMA RestLoop ==
    ASSUME Known, NEW h \in Handlers, Resumed(h), h \notin Savers("core"), ready' = Rest
    PROVE  LoopIdle
<1>1. \E n \in {0, 1} : Grown(ready, Rest, n, {}) /\ (n = 1 => ready[1] = Resume(h))
  BY RestGrows DEF Known, Typed
<1>2. PICK n \in {0, 1} : Grown(ready, Rest, n, {}) /\ (n = 1 => ready[1] = Resume(h))
  BY <1>1
<1>3. ASSUME NEW i \in DOMAIN ready, i <= n
      PROVE  ready[i].task = "resume" /\ ready[i].handler \notin Savers("core")
  <2>1. i \in Nat /\ i # 0
    BY DEF Known, Typed, LoopTyped
  <2>2. i = 1 /\ n = 1
    BY <1>3, <2>1
  <2> QED
    BY <1>2, <2>2 DEF Resume
<1> QED
  BY <1>2, <1>3 DEF LoopIdle

LEMMA AwaitLoop ==
    ASSUME Known, NEW h \in Handlers, h \notin Savers("core"), NEW targets,
           Await(ready, h, targets, <<>>)
    PROVE  LoopIdle
<1>1. ready \in Seq(Task) /\ <<>> \in Seq(Task)
  BY DEF Known, Typed, LoopTyped
<1>2. \A i \in DOMAIN <<>> : <<>>[i] \in {} /\ <<>>[i].task = "send"
  OBVIOUS
<1>3. ready' = ready \/ Queued(ready, h, {})
  BY <1>1, <1>2, AwaitGrows
<1>4. CASE ready' = ready
  BY <1>4, SameLoop
<1>5. CASE Queued(ready, h, {})
  <2>1. Grown(ready, ready', 0, {} \cup {Resume(h)})
    BY <1>5 DEF Queued
  <2>2. \A i \in DOMAIN ready : ~(i <= 0)
    BY <1>1
  <2>3. \A t \in {} \cup {Resume(h)} : t.task = "resume" /\ t.handler \notin Savers("core")
    BY DEF Resume
  <2> QED
    BY <2>1, <2>2, <2>3 DEF LoopIdle
<1> QED
  BY <1>3, <1>4, <1>5

(* Every write is of a number of its own. *)
LEMMA RenewsIs ==
    ASSUME Known, Known', Durable,
           \/ UNCHANGED <<session, clock>>
           \/ /\ clock' = clock + 1
              /\ \A f \in Fields : session'.data[f] \in {session.data[f], clock + 1}
    PROVE  Renews /\ (session'.data["core"] # session.data["core"] => clock' = clock + 1)
<1>1. clock \in Nat /\ clock' \in Nat /\ \A f \in Fields : session'.data[f] \in Nat
  BY DEF Known, Types, SessionType
<1>2. Context \subseteq Fields /\ "core" \in Fields
  BY FieldsAre DEF Context
<1>3. CASE UNCHANGED <<session, clock>>
  BY <1>1, <1>2, <1>3 DEF Renews
<1>4. CASE clock' = clock + 1 /\ \A f \in Fields : session'.data[f] \in {session.data[f], clock + 1}
  BY <1>1, <1>2, <1>4 DEF Renews
<1> QED
  BY <1>3, <1>4

(* The session is as before. *)
LEMMA SameSession == ASSUME UNCHANGED <<session, silent>> PROVE \A d : Unheard(d)
BY DEF Unheard

(* The connections and the clients are as before, but for what is lost.    *)
LEMMA SameClients ==
    ASSUME NEW d \in Devices,
           Connected(d)' => /\ Connected(d) /\ link'[d] = link[d] /\ chan'[link[d]] = chan[link[d]]
                            /\ view'[d] = view[d] /\ (d \in synced' <=> d \in synced)
                            /\ (d \in jumped' <=> d \in jumped)
                            /\ pc[link[d]] = "closing" => pc'[link[d]] = "closing"
                            /\ asks'[link[d]] = asks[link[d]] \/ pc'[link[d]] = "closing"
    PROVE  Stays(d) /\ (Served(d)' => Served(d))
<1>1. Stays(d)
  BY DEF Stays
<1>2. ASSUME Served(d)' PROVE Served(d)
  <2>1. Connected(d)' /\ Connected(d) /\ Line(d)' = Line(d)
    BY <1>1, <1>2, StaysLine DEF Served
  <2> QED
    BY <1>2, <2>1 DEF Served
<1> QED
  BY <1>1, <1>2

LEMMA SaversSame ==
    ASSUME \A h \in Handlers : \A kind \in {"core", "tests"} :
               /\ h \in Savers(kind)' <=> h \in Savers(kind)
               /\ h \in Savers(kind) => req'[h] = req[h]
    PROVE  SaversStay
<1>1. \A kind : Savers(kind) \subseteq Handlers /\ Savers(kind)' \subseteq Handlers
  BY DEF Savers
<1> QED
  BY <1>1 DEF SaversStay

-----------------------------------------------------------------------------
(* Steps that send nothing to anybody and write in silence, if at all.     *)

LEMMA SaversMove ==
    ASSUME Known, NEW h \in Handlers, NEW x, x # "saving", pc' = [pc EXCEPT ![h] = x],
           h \notin Savers("core") \cup Savers("tests"),
           \A g \in Handlers : g # h => req'[g] = req[g]
    PROVE  SaversStay
<1>1. pc'[h] = x /\ \A g \in Handlers : g # h => pc'[g] = pc[g]
  BY DEF Known, Types
<1>2. ASSUME NEW g \in Handlers, NEW kind \in {"core", "tests"}
      PROVE  /\ g \in Savers(kind)' <=> g \in Savers(kind)
             /\ g \in Savers(kind) => req'[g] = req[g]
  BY <1>1 DEF Savers
<1> QED
  BY <1>2, SaversSame

LEMMA SaversAsBefore == ASSUME UNCHANGED <<pc, req>> PROVE SaversStay
BY SaversSame DEF Savers

LEMMA ConnectIdle ==
    ASSUME OwnInv, Known, Known', Durable, NEW k \in Conns, HubConnect(k) PROVE Idle
<1>1. /\ pc[k] = "accepted" /\ pc' = [pc EXCEPT ![k] = "connecting"]
      /\ \E targets : Await(ready, k, targets, <<>>)
      /\ UNCHANGED <<req, reg, up, chan, asks, link, view, synced, jumped>>
      /\ k \in Handlers /\ k \notin Savers("core") \cup Savers("tests")
  BY ConnTypes DEF HubConnect, connVars, clientVars, Savers
<1>2. LoopIdle
  BY <1>1, AwaitLoop
<1>3. SaversStay
  BY <1>1, SaversMove
<1>4. CASE UNCHANGED <<session, clock, silent>>
  <2>1. Renews /\ \A d : Unheard(d)
    BY <1>4, RenewsIs, SameSession
  <2>2. ASSUME NEW d \in Devices PROVE IdleFor(d)
    <3>1. Connected(d)' => link[d] \in Conns
      BY <1>1, ConnTypes DEF Connected
    <3>2. Stays(d) /\ (Served(d)' => Served(d))
      BY <1>1, <3>1, SameClients DEF Connected, Known, Types, Handlers
    <3> QED
      BY <1>1, <2>1, <3>2 DEF IdleFor
  <2> QED
    BY <1>2, <1>3, <2>1, <2>2 DEF Idle
<1>5. CASE Commit(Seeded, {}, {"device", "issue", "status", "tests", "messages"})
  <2>1. /\ clock' = clock + 1 /\ session' = Seeded
        /\ silent' = [d \in Devices |-> (silent[d] \ {}) \cup
                                         {"device", "issue", "status", "tests", "messages"}]
    BY <1>5 DEF Commit
  <2>2. \A f \in Fields : session'.data[f] =
            IF f \in {"device", "issue", "status", "tests"} THEN clock + 1 ELSE session.data[f]
    <3> DEFINE w == Wrote(session, {"device", "issue", "status", "tests"})
    <3>1. w \in SessionType
          /\ \A f \in Fields : w.data[f] = IF f \in {"device", "issue", "status", "tests"}
                                           THEN clock + 1 ELSE session.data[f]
      BY WroteType DEF Durable
    <3> HIDE DEF w
    <3>2. [w EXCEPT !.v = @ + 1, !.msgs = <<clock + 1>>, !.paused = FALSE].data = w.data
      BY <3>1 DEF SessionType
    <3>3. session' = [w EXCEPT !.v = @ + 1, !.msgs = <<clock + 1>>, !.paused = FALSE]
      BY <2>1 DEF Seeded, w
    <3> QED
      BY <3>1, <3>2, <3>3
  <2>3. Renews
    BY <2>1, <2>2, RenewsIs
  <2>4. ASSUME NEW d \in Devices PROVE IdleFor(d)
    <3>1. Connected(d)' => link[d] \in Conns
      BY <1>1, ConnTypes DEF Connected
    <3>2. Stays(d) /\ (Served(d)' => Served(d))
      BY <1>1, <3>1, SameClients DEF Connected, Known, Types, Handlers
    <3>3. Unheard(d)
      BY <2>1, <2>2 DEF Unheard
    <3> QED
      BY <1>1, <3>2, <3>3 DEF IdleFor
  <2> QED
    BY <1>2, <1>3, <2>3, <2>4 DEF Idle
<1> QED
  BY <1>4, <1>5 DEF HubConnect, sessionVars

LEMMA RestIdle == ASSUME Known, Known', Durable, RestCreate PROVE Idle
<1>1. PICK f \in {"device", "issue"} : Commit(Wrote(session, {f}), {}, {f})
  BY DEF RestCreate
<1>2. /\ clock' = clock + 1 /\ session' = Wrote(session, {f})
      /\ silent' = [d \in Devices |-> (silent[d] \ {}) \cup {f}]
      /\ UNCHANGED <<ready, pc, req, reg, up, chan, asks, link, view, synced, jumped>>
  BY <1>1 DEF Commit, RestCreate, loopVars, connVars, clientVars
<1>3. /\ session'.msgs = session.msgs
      /\ \A g \in Fields : session'.data[g] = IF g \in {f} THEN clock + 1 ELSE session.data[g]
  BY <1>2, WroteType DEF Durable
<1>4. Renews
  BY <1>2, <1>3, RenewsIs
<1>5. LoopIdle /\ SaversStay
  BY <1>2, SameLoop, SaversAsBefore
<1>6. ASSUME NEW d \in Devices PROVE IdleFor(d)
  <2>1. Stays(d) /\ (Served(d)' => Served(d))
    BY <1>2, SameClients DEF Connected
  <2>2. Unheard(d)
    BY <1>2, <1>3 DEF Unheard
  <2> QED
    BY <1>2, <2>1, <2>2 DEF IdleFor
<1> QED
  BY <1>4, <1>5, <1>6 DEF Idle

(* Nothing is written to the session.                                      *)
LEMMA IdleIs ==
    ASSUME Known, Known', Durable, UNCHANGED <<session, clock, silent>>,
           LoopIdle, SaversStay,
           \A d \in Devices : /\ Stays(d) /\ (Served(d)' => Served(d))
                              /\ reg'[d] # NoConn => reg[d] # NoConn
    PROVE  Idle
<1>1. Renews /\ \A d : Unheard(d)
  BY RenewsIs, SameSession
<1> QED
  BY <1>1 DEF Idle, IdleFor

LEMMA EndIdle == ASSUME Known, Known', Durable, NEW k \in Conns, HubEnd(k) PROVE Idle
<1>1. /\ pc[k] = "reading" /\ pc' = [pc EXCEPT ![k] = "closing"]
      /\ asks' = [asks EXCEPT ![k] = 0]
      /\ \E targets : Await(ready, k, targets, <<>>)
      /\ UNCHANGED <<session, clock, silent, req, reg, up, chan, link, view, synced, jumped>>
      /\ k \in Handlers /\ k \notin Savers("core") \cup Savers("tests")
  BY ConnTypes DEF HubEnd, clientVars, sessionVars, Savers
<1>2. LoopIdle
  BY <1>1, AwaitLoop
<1>3. SaversStay
  BY <1>1, SaversMove
<1>4. ASSUME NEW d \in Devices PROVE Stays(d) /\ (Served(d)' => Served(d))
  <2>1. Connected(d)' => Connected(d) /\ link[d] \in Conns /\ link[d] \in Handlers
    BY <1>1, ConnTypes DEF Connected
  <2>2. ASSUME Connected(d)'
        PROVE  /\ pc[link[d]] = "closing" => pc'[link[d]] = "closing"
               /\ asks'[link[d]] = asks[link[d]] \/ pc'[link[d]] = "closing"
    BY <1>1, <2>1, <2>2 DEF Known, Types, Typed, WireTyped
  <2> QED
    BY <1>1, <2>1, <2>2, SameClients
<1> QED
  BY <1>1, <1>2, <1>3, <1>4, IdleIs

LEMMA UnregisterIdle ==
    ASSUME OwnInv, Known, Known', Durable, NEW k \in Conns, HubUnregister(k) PROVE Idle
<1>1. /\ pc[k] = "closing" /\ pc' = [pc EXCEPT ![k] = "ended"]
      /\ Resumed(k) /\ ready' = Rest
      /\ reg' = [reg EXCEPT ![dev[k]] = NoConn] /\ up' = [up EXCEPT ![k] = FALSE]
      /\ UNCHANGED <<session, clock, silent, req, asks, chan, link, view, synced, jumped>>
      /\ k \in Handlers /\ k \notin Savers("core") \cup Savers("tests")
  BY ConnTypes DEF HubUnregister, clientVars, sessionVars, Savers
<1>2. LoopIdle
  BY <1>1, RestLoop
<1>3. SaversStay
  BY <1>1, SaversMove
<1>4. ASSUME NEW d \in Devices
      PROVE  Stays(d) /\ (Served(d)' => Served(d)) /\ (reg'[d] # NoConn => reg[d] # NoConn)
  <2>1. reg'[d] # NoConn => reg'[d] = reg[d]
    BY <1>1 DEF Known, Typed, WireTyped
  <2>2. ASSUME Connected(d)'
        PROVE  Connected(d) /\ link[d] # k /\ link[d] \in Conns /\ link[d] \in Handlers
    <3>1. link[d] # NoConn /\ link[d] \in Conns /\ up'[link[d]]
      BY <1>1, <2>2, ConnTypes DEF Connected
    <3>2. link[d] # k /\ up[link[d]]
      BY <1>1, <3>1 DEF Known, Typed, WireTyped
    <3> QED
      BY <1>1, <2>1, <2>2, <3>1, <3>2, ConnTypes DEF Connected
  <2>3. Connected(d)' => pc'[link[d]] = pc[link[d]]
    BY <1>1, <2>2 DEF Known, Types
  <2> QED
    BY <1>1, <2>1, <2>2, <2>3, SameClients
<1> QED
  BY <1>1, <1>2, <1>3, <1>4, IdleIs

(* A handler whose request is over. *)
LEMMA FinishIdle ==
    ASSUME Known, Known', Durable, NEW h \in Handlers, HubSave(h) \/ HubEchoed(h),
           HubSave(h) => req[h].kind \notin {"core", "tests"}
    PROVE  Idle
<1>1. /\ pc[h] \in {"saving", "echoing"} /\ pc' = [pc EXCEPT ![h] = "reading"]
      /\ Resumed(h) /\ ready' = Rest /\ req' = [req EXCEPT ![h] = Nothing]
      /\ UNCHANGED <<session, clock, silent, reg, up, asks, chan, link, view, synced, jumped>>
      /\ pc[h] = "saving" => req[h].kind \notin {"core", "tests"}
  BY DEF HubSave, HubEchoed, Finish, clientVars, connVars, sessionVars
<1>2. h \notin Savers("core") \cup Savers("tests")
  BY <1>1 DEF Savers
<1>3. LoopIdle
  BY <1>1, <1>2, RestLoop
<1>4. SaversStay
  <2>1. \A g \in Handlers : g # h => req'[g] = req[g]
    BY <1>1 DEF Known, Types
  <2> QED
    BY <1>1, <1>2, <2>1, SaversMove
<1>5. ASSUME NEW d \in Devices PROVE Stays(d) /\ (Served(d)' => Served(d))
  <2>1. Connected(d)' => Connected(d) /\ link[d] \in Conns /\ link[d] \in Handlers
    BY <1>1, ConnTypes DEF Connected
  <2>2. Connected(d)' => (pc[link[d]] = "closing" => pc'[link[d]] = "closing")
    BY <1>1, <2>1 DEF Known, Types
  <2> QED
    BY <1>1, <2>1, <2>2, SameClients
<1> QED
  BY <1>1, <1>3, <1>4, <1>5, IdleIs

LEMMA OpenIdle ==
    ASSUME OwnInv, Known, Known', Durable, NEW e \in Devices, NEW k \in Conns, Open(e, k)
    PROVE  Idle
<1>1. /\ link[e] = NoConn /\ pc[k] = "unused" /\ link' = [link EXCEPT ![e] = k]
      /\ pc' = [pc EXCEPT ![k] = "accepted"] /\ up' = [up EXCEPT ![k] = TRUE]
      /\ \E x : asks' = [asks EXCEPT ![k] = x]
      /\ UNCHANGED <<session, clock, silent, ready, req, reg, chan, view, synced, jumped>>
      /\ k \in Handlers /\ k \notin Savers("core") \cup Savers("tests")
  BY ConnTypes DEF Open, sessionVars, loopVars, Savers
<1>2. LoopIdle
  BY <1>1, SameLoop
<1>3. SaversStay
  BY <1>1, SaversMove
<1>4. ASSUME NEW d \in Devices PROVE Stays(d) /\ (Served(d)' => Served(d))
  <2>1. ASSUME Connected(d)'
        PROVE  /\ link'[d] = link[d] /\ link[d] \in Conns /\ link[d] \in Handlers
               /\ link[d] # k /\ Connected(d)
    <3>1. reg[d] = link'[d] /\ link'[d] # NoConn /\ link'[d] # k
      BY <1>1, <2>1 DEF Connected, OwnInv, Greeted
    <3>2. link'[d] = link[d]
      BY <1>1, <3>1 DEF Known, Typed, ClientTyped
    <3>3. link[d] \in Conns /\ link[d] \in Handlers
      BY <3>1, <3>2, ConnTypes
    <3>4. up[link[d]]
      BY <1>1, <2>1, <3>1, <3>2, <3>3 DEF Connected, Known, Typed, WireTyped
    <3> QED
      BY <3>1, <3>2, <3>3, <3>4 DEF Connected
  <2>2. Connected(d)' => pc'[link[d]] = pc[link[d]] /\ asks'[link[d]] = asks[link[d]]
    BY <1>1, <2>1 DEF Known, Types, Typed, WireTyped
  <2> QED
    BY <1>1, <2>1, <2>2, SameClients
<1> QED
  BY <1>1, <1>2, <1>3, <1>4, IdleIs

LEMMA GoneIdle ==
    ASSUME OwnInv, Known, Known', Durable, NEW e \in Devices, Dropped(e) \/ Reload(e)
    PROVE  Idle
<1> DEFINE k == link[e]
<1>1. /\ k # NoConn /\ link' = [link EXCEPT ![e] = NoConn] /\ chan' = [chan EXCEPT ![k] = <<>>]
      /\ up' = up \/ up' = [up EXCEPT ![k] = FALSE]
      /\ view' = view \/ view' = [view EXCEPT ![e] = Empty]
      /\ synced' = synced \ {e} /\ jumped' \in {jumped, jumped \ {e}}
      /\ UNCHANGED <<session, clock, silent, ready, req, pc, reg, asks>>
  BY DEF Dropped, Reload, sessionVars, loopVars
<1>2. k \in Conns
  BY <1>1, ConnTypes
<1> HIDE DEF k
<1>3. LoopIdle /\ SaversStay
  BY <1>1, SameLoop, SaversAsBefore
<1>4. ASSUME NEW d \in Devices PROVE Stays(d) /\ (Served(d)' => Served(d))
  <2>1. ASSUME Connected(d)'
        PROVE  /\ Connected(d) /\ link'[d] = link[d] /\ link[d] \in Conns
               /\ d # e /\ link[d] # k
    <3>1. d # e /\ link'[d] = link[d] /\ link[d] # NoConn /\ link[d] \in Conns
      BY <1>1, <2>1, ConnTypes DEF Connected, Known, Typed, ClientTyped
    <3>2. link[d] # k
      BY <3>1, <1>1 DEF OwnInv, k
    <3>3. up[link[d]]
      BY <1>1, <1>2, <2>1, <3>1, <3>2 DEF Connected, Known, Typed, WireTyped
    <3> QED
      BY <1>1, <2>1, <3>1, <3>2, <3>3 DEF Connected
  <2>2. Connected(d)' => chan'[link[d]] = chan[link[d]] /\ view'[d] = view[d]
    BY <1>1, <1>2, <2>1 DEF Known, Typed, WireTyped, ClientTyped
  <2> QED
    BY <1>1, <2>1, <2>2, SameClients
<1> QED
  BY <1>1, <1>3, <1>4, IdleIs

LEMMA OtherIdle ==
    ASSUME Known, Known', Durable,
           \/ \E k \in Conns : Break(k)
           \/ \E d \in Devices : Render(d)
           \/ UNCHANGED vars
    PROVE  Idle
<1>1. /\ up' = up \/ \E k \in Conns : up' = [up EXCEPT ![k] = FALSE]
      /\ UNCHANGED <<session, clock, silent, ready, req, pc, reg, asks, chan, link, view,
                     synced, jumped>>
  BY DEF Break, Render, vars, sessionVars, loopVars, connVars, clientVars
<1>2. LoopIdle /\ SaversStay
  BY <1>1, SameLoop, SaversAsBefore
<1>3. ASSUME NEW d \in Devices PROVE Stays(d) /\ (Served(d)' => Served(d))
  <2>1. Connected(d)' => Connected(d)
    BY <1>1, ConnTypes DEF Connected, Known, Typed, WireTyped
  <2> QED
    BY <1>1, <2>1, SameClients DEF Connected
<1> QED
  BY <1>1, <1>2, <1>3, IdleIs

-----------------------------------------------------------------------------
(* A broadcast adds its sends behind what was in the queue.                *)
LEMMA GrownAgain ==
    ASSUME NEW p \in Seq(Task), NEW q \in Seq(Task), NEW r \in Seq(Task), NEW n, NEW N,
           Grown(p, q, n, N), Grown(q, r, 0, N)
    PROVE  Grown(p, r, n, N)
<1>1. /\ n \in Nat /\ n <= Len(p) /\ Len(p) <= Len(q) + n
      /\ \A i \in 1..Len(q) : IF i + n <= Len(p) THEN q[i] = p[i + n] ELSE q[i] \in N
      /\ Len(q) <= Len(r) + 0
      /\ \A i \in 1..Len(r) : IF i + 0 <= Len(q) THEN r[i] = q[i + 0] ELSE r[i] \in N
      /\ Len(p) \in Nat /\ Len(q) \in Nat /\ Len(r) \in Nat
  BY DEF Grown
<1>2. ASSUME NEW i \in 1..Len(r)
      PROVE  IF i + n <= Len(p) THEN r[i] = p[i + n] ELSE r[i] \in N
  <2>1. i \in Nat /\ 1 <= i /\ i <= Len(r) /\ i + 0 = i
    BY <1>1
  <2>2. CASE i <= Len(q)
    <3>1. i \in 1..Len(q)
      BY <1>1, <2>1, <2>2
    <3> QED
      BY <1>1, <2>1, <2>2, <3>1
  <2>3. CASE ~(i <= Len(q))
    <3>1. ~(i + n <= Len(p))
      BY <1>1, <2>1, <2>3
    <3> QED
      BY <1>1, <2>1, <2>3, <3>1
  <2> QED
    BY <2>2, <2>3
<1>3. Len(p) <= Len(r) + n
  BY <1>1
<1> QED
  BY <1>1, <1>2, <1>3 DEF Grown

Sends(h, m) == {Send(d, m) : d \in Registered} \cup {Resume(h)}

LEMMA SendsIs ==
    ASSUME NEW h, NEW m, NEW t \in Sends(h, m)
    PROVE  /\ t.task = "send" => t.msg = m
           /\ \A g : t = Resume(g) => g = h
BY DEF Sends, Send, Resume

LEMMA BroadcastFor ==
    ASSUME Known, NEW q \in Seq(Task), NEW n,
           Grown(ready, q, n, {}), \A i \in DOMAIN ready : i <= n => ready[i].task = "resume",
           NEW h \in Handlers, NEW m \in Message, Broadcast(q, h, m)
    PROVE  /\ ready' \in Seq(Task)
           /\ Grown(q, ready', 0, Sends(h, m))
           /\ Grown(ready, ready', n, Sends(h, m))
           /\ \A d : GrownFor(ready, ready', d, Sends(h, m)) /\ GrownFor(q, ready', d, Sends(h, m))
           /\ \A d \in Registered :
                 \E z \in DOMAIN ready' : z > Len(q) /\ To(ready', d, z) /\ ready'[z].msg = m
<1> DEFINE N == Sends(h, m)
           S == {Send(d, m) : d \in Registered}
<1>1. \/ Registered = {} /\ ready' = q /\ running' = h
      \/ /\ Registered # {} /\ Queued(q, h, S)
         /\ \A d \in Registered : \E i \in DOMAIN ready' :
               Len(q) < i /\ ready'[i] = Send(d, m)
  BY BroadcastGrows
<1>2. ready' \in Seq(Task) /\ Grown(q, ready', 0, N)
  <2>1. CASE ready' = q
    BY <2>1, GrownItself
  <2>2. CASE Queued(q, h, S)
    <3>1. S \cup {Resume(h)} = N
      BY DEF Sends
    <3> HIDE DEF S, N
    <3> QED
      BY <2>2, <3>1 DEF Queued
  <2> QED
    BY <1>1, <2>1, <2>2
<1>3. Grown(ready, q, n, N)
  BY DEF Grown
<1>4. Grown(ready, ready', n, N)
  BY <1>2, <1>3, GrownAgain DEF Known, Typed, LoopTyped
<1>5. ASSUME NEW d PROVE GrownFor(ready, ready', d, N) /\ GrownFor(q, ready', d, N)
  <2>1. \A i \in DOMAIN ready : i <= n => ~To(ready, d, i)
    BY DEF To
  <2>2. \A i \in DOMAIN q : ~(i <= 0)
    OBVIOUS
  <2> QED
    BY <1>2, <1>4, <2>1, <2>2 DEF GrownFor
<1>6. ASSUME NEW d \in Registered
      PROVE  \E z \in DOMAIN ready' : z > Len(q) /\ To(ready', d, z) /\ ready'[z].msg = m
  <2>1. PICK z \in DOMAIN ready' : Len(q) < z /\ ready'[z] = Send(d, m)
    BY <1>1, <1>6
  <2>2. z > Len(q)
    <3>1. z \in Nat /\ Len(q) \in Nat
      BY <1>2
    <3> QED
      BY <2>1, <3>1
  <2> QED
    BY <2>1, <2>2 DEF To, Send
<1> QED
  BY <1>2, <1>4, <1>5, <1>6

(* What a mutation writes and announces.                                   *)
LEMMA MutationEffect ==
    ASSUME Known, Known', Durable, NEW h \in Handlers, NEW kind \in Announced \cup Unannounced,
           NEW next, NEW m, Mutation(h, kind, next, m)
    PROVE  /\ running = NoConn /\ pc[h] = "reading" /\ Broadcast(ready, h, m)
           /\ pc' = [pc EXCEPT ![h] = "saving"]
           /\ req' = [req EXCEPT ![h] = [kind |-> kind, stamp |-> clock + 1]]
           /\ UNCHANGED <<reg, dev, up, chan, asks, link, view, synced, jumped>>
           /\ clock' = clock + 1 /\ session'.v = session.v + 1 /\ m \in Message
           /\ \A d \in Devices : silent'[d] =
                 (silent[d] \ IF kind = "chat" THEN {} ELSE {FieldOf(kind)})
                     \cup IF kind = "associate" THEN {"device"} ELSE {}
           /\ session'.msgs = IF kind = "chat" THEN Append(session.msgs, clock + 1) ELSE session.msgs
           /\ \A f \in Fields : session'.data[f] =
                 IF kind # "chat" /\ (f = FieldOf(kind) \/ (kind = "associate" /\ f = "device"))
                 THEN clock + 1 ELSE session.data[f]
           /\ kind = "chat" => m = [kind |-> "chat", msg |-> clock + 1]
           /\ kind # "chat" =>
                 m = IF kind \in Announced THEN Update(kind) ELSE Set(FieldOf(kind), clock + 1)
<1>1. /\ running = NoConn /\ pc[h] = "reading" /\ Broadcast(ready, h, m)
      /\ pc' = [pc EXCEPT ![h] = "saving"]
      /\ req' = [req EXCEPT ![h] = [kind |-> kind, stamp |-> clock + 1]]
      /\ UNCHANGED <<reg, dev, up, chan, asks, link, view, synced, jumped>>
      /\ clock' = clock + 1 /\ session' = [next EXCEPT !.v = @ + 1]
      /\ silent' = [d \in Devices |-> (silent[d] \ IF kind = "chat" THEN {} ELSE {FieldOf(kind)})
                                        \cup IF kind = "associate" THEN {"device"} ELSE {}]
  BY DEF Mutation, Mutate, Commit, connVars, clientVars
<1>2. /\ next \in SessionType /\ next.v = session.v /\ m \in Message
      /\ IF kind = "chat"
         THEN /\ next.data = session.data /\ next.msgs = Append(session.msgs, clock + 1)
              /\ m = [kind |-> "chat", msg |-> clock + 1]
         ELSE /\ next.msgs = session.msgs
              /\ \A f \in Fields :
                    next.data[f] = IF f = FieldOf(kind) \/ (kind = "associate" /\ f = "device")
                                   THEN clock + 1 ELSE session.data[f]
              /\ m = IF kind \in Announced THEN Update(kind) ELSE Set(FieldOf(kind), clock + 1)
  BY DEF Mutation
<1>3. session'.v = session.v + 1 /\ session'.data = next.data /\ session'.msgs = next.msgs
  BY <1>1, <1>2 DEF SessionType
<1>4. \A f \in Fields : next.data[f] =
          IF kind # "chat" /\ (f = FieldOf(kind) \/ (kind = "associate" /\ f = "device"))
          THEN clock + 1 ELSE session.data[f]
  BY <1>2
<1>5. \A f \in Fields : session'.data[f] =
          IF kind # "chat" /\ (f = FieldOf(kind) \/ (kind = "associate" /\ f = "device"))
          THEN clock + 1 ELSE session.data[f]
  BY <1>3, <1>4
<1>6. \A d \in Devices : silent'[d] =
          (silent[d] \ IF kind = "chat" THEN {} ELSE {FieldOf(kind)})
              \cup IF kind = "associate" THEN {"device"} ELSE {}
  BY <1>1
<1>7. session'.msgs = IF kind = "chat" THEN Append(session.msgs, clock + 1) ELSE session.msgs
  BY <1>2, <1>3
<1>8. /\ kind = "chat" => m = [kind |-> "chat", msg |-> clock + 1]
      /\ kind # "chat" =>
            m = IF kind \in Announced THEN Update(kind) ELSE Set(FieldOf(kind), clock + 1)
  BY <1>2
<1> QED
  BY <1>1, <1>2, <1>3, <1>5, <1>6, <1>7, <1>8

(* The message of a mutation, and the field it says was written.           *)
LEMMA MutationSays ==
    ASSUME Known, NEW kind \in Announced \cup Unannounced, kind # "chat", NEW m,
           m = IF kind \in Announced THEN Update(kind) ELSE Set(FieldOf(kind), clock + 1)
    PROVE  /\ m.field = FieldOf(kind) /\ m.val = clock + 1 /\ FieldOf(kind) \in Fields
           /\ m.kind = "update" => kind \in Announced /\ m.v = session.v + 1
           /\ m.kind \in {"set", "update"}
           /\ FieldOf(kind) \notin {"core", "tests"} =>
                 m.kind = IF FieldOf(kind) \in Context THEN "update" ELSE "set"
           /\ FieldOf(kind) \in Context => m.kind = "update"
<1>1. FieldOf(kind) \in Fields
  BY FieldOfType
<1>2. CASE kind \in Announced
  <2>1. /\ m.kind = "update" /\ m.v = session.v + 1 /\ m.field = FieldOf(kind) /\ m.val = clock + 1
    BY <1>2 DEF Update
  <2>2. FieldOf(kind) \notin {"core", "tests"} => FieldOf(kind) \in Context
    BY <1>2 DEF FieldOf, Announced, Context
  <2> QED
    BY <1>1, <1>2, <2>1, <2>2
<1>3. CASE kind \notin Announced
  <2>1. m.kind = "set" /\ m.field = FieldOf(kind) /\ m.val = clock + 1
    BY <1>3 DEF Set
  <2>2. FieldOf(kind) \notin Context
    BY <1>3 DEF FieldOf, Unannounced, Context
  <2> QED
    BY <1>1, <1>3, <2>1, <2>2
<1> QED
  BY <1>2, <1>3

LEMMA MutationRenews ==
    ASSUME Known, Known', Durable, NEW h \in Handlers, NEW kind \in Announced \cup Unannounced,
           NEW next, NEW m, Mutation(h, kind, next, m)
    PROVE  Renews
<1>1. /\ clock' = clock + 1
      /\ \A f \in Fields : session'.data[f] \in {session.data[f], clock + 1}
  BY MutationEffect
<1> QED
  BY <1>1, RenewsIs

LEMMA MutationLane ==
    ASSUME LaneInv, VersionInv, Known, Known', Durable, NEW h \in Handlers,
           NEW kind \in Announced \cup Unannounced, NEW next, NEW m, Mutation(h, kind, next, m),
           NEW d \in Devices
    PROVE  Lane(d)'
<1> DEFINE N == Sends(h, m)
<1>1. /\ Broadcast(ready, h, m) /\ m \in Message /\ clock' = clock + 1
      /\ UNCHANGED <<reg, up, chan, link, view, synced, jumped>>
      /\ kind = "chat" => m = [kind |-> "chat", msg |-> clock + 1]
      /\ kind # "chat" =>
            m = IF kind \in Announced THEN Update(kind) ELSE Set(FieldOf(kind), clock + 1)
  BY MutationEffect
<1>2. ready \in Seq(Task) /\ Grown(ready, ready, 0, {}) /\ clock \in Nat
  BY GrownItself, LineTypes
<1>3. ready' \in Seq(Task) /\ GrownFor(ready, ready', d, N)
  <2>1. \A i \in DOMAIN ready : i <= 0 => ready[i].task = "resume"
    BY <1>2
  <2> QED
    BY <1>1, <1>2, <2>1, BroadcastFor
<1>4. \A t \in N : t.task = "send" /\ t.to = d => t.msg = m
  BY SendsIs
<1> HIDE DEF N
<1>5. Renews
  BY MutationRenews
<1>6. Stays(d)
  BY <1>1 DEF Stays, Connected
<1>7. /\ m.kind # "snapshot"
      /\ m.kind = "update" => m.v = session.v + 1 /\ m.val <= clock'
      /\ m.kind = "set" => m.field \notin Context
  <2>1. CASE kind = "chat"
    BY <1>1, <2>1
  <2>2. CASE kind # "chat"
    <3>1. /\ m.kind \in {"set", "update"} /\ m.val = clock + 1
          /\ m.kind = "update" => m.v = session.v + 1
          /\ m.field \in Context => m.kind = "update"
      BY <1>1, <2>2, MutationSays
    <3> QED
      BY <1>1, <1>2, <3>1
  <2> QED
    BY <2>1, <2>2
<1> QED
  BY <1>1, <1>3, <1>4, <1>5, <1>6, <1>7, LaneStays

(* The legacy event of a request that was saved.                           *)
LEMMA EchoEffect ==
    ASSUME Known, NEW h \in Handlers, HubSave(h), req[h].kind \in {"core", "tests"}
    PROVE  LET m == Set(req[h].kind, IF req[h].kind = "core" THEN req[h].stamp
                                     ELSE session.data["tests"]) IN
           /\ m \in Message /\ m.kind = "set" /\ m.field = req[h].kind /\ req[h].kind \in Fields
           /\ pc[h] = "saving" /\ pc' = [pc EXCEPT ![h] = "echoing"]
           /\ Resumed(h) /\ Broadcast(Rest, h, m) /\ Rest \in Seq(Task)
           /\ \E n \in {0, 1} : /\ Grown(ready, Rest, n, {})
                                /\ \A i \in DOMAIN ready : i <= n => ready[i] = Resume(h)
           /\ UNCHANGED <<session, clock, silent, req, reg, dev, up, chan, asks, link, view,
                          synced, jumped>>
<1> DEFINE m == Set(req[h].kind, IF req[h].kind = "core" THEN req[h].stamp
                                 ELSE session.data["tests"])
<1>1. /\ pc[h] = "saving" /\ pc' = [pc EXCEPT ![h] = "echoing"]
      /\ Resumed(h) /\ Broadcast(Rest, h, m)
      /\ UNCHANGED <<session, clock, silent, req, reg, dev, up, chan, asks, link, view,
                     synced, jumped>>
  BY DEF HubSave, sessionVars, connVars, clientVars
<1>2. req[h].stamp \in Nat /\ session.data["tests"] \in Nat /\ req[h].kind \in Fields
  BY FieldsAre DEF Known, Types, SessionType
<1>3. m \in Message /\ m.kind = "set" /\ m.field = req[h].kind
  BY <1>2, MessageTypes DEF Known, Set
<1> HIDE DEF m
<1>4. /\ Rest \in Seq(Task)
      /\ \E n \in {0, 1} : Grown(ready, Rest, n, {}) /\ (n = 1 => ready[1] = Resume(h))
  BY <1>1, RestGrows DEF Known, Typed
<1>5. PICK n \in {0, 1} : Grown(ready, Rest, n, {}) /\ (n = 1 => ready[1] = Resume(h))
  BY <1>4
<1>6. ASSUME NEW i \in DOMAIN ready, i <= n PROVE ready[i] = Resume(h)
  <2>1. i \in Nat /\ i # 0
    BY DEF Known, Typed, LoopTyped
  <2>2. i = 1 /\ n = 1
    BY <1>6, <2>1
  <2> QED
    BY <1>5, <2>2
<1> QED
  BY <1>1, <1>2, <1>3, <1>4, <1>5, <1>6 DEF m

LEMMA EchoLane ==
    ASSUME LaneInv, VersionInv, Known, Known', Durable, NEW h \in Handlers, HubSave(h),
           req[h].kind \in {"core", "tests"}, NEW d \in Devices
    PROVE  Lane(d)'
<1> DEFINE m == Set(req[h].kind, IF req[h].kind = "core" THEN req[h].stamp
                                 ELSE session.data["tests"])
           N == Sends(h, m)
<1>1. /\ m \in Message /\ m.kind = "set" /\ m.field = req[h].kind
      /\ Broadcast(Rest, h, m) /\ Rest \in Seq(Task)
      /\ \E n \in {0, 1} : /\ Grown(ready, Rest, n, {})
                           /\ \A i \in DOMAIN ready : i <= n => ready[i] = Resume(h)
      /\ UNCHANGED <<session, clock, reg, up, chan, link, view, synced, jumped>>
  BY EchoEffect
<1> HIDE DEF m
<1>2. PICK n \in {0, 1} : /\ Grown(ready, Rest, n, {})
                          /\ \A i \in DOMAIN ready : i <= n => ready[i] = Resume(h)
  BY <1>1
<1>3. ready' \in Seq(Task) /\ GrownFor(ready, ready', d, N)
  BY <1>1, <1>2, BroadcastFor DEF Resume
<1>4. \A t \in N : t.task = "send" /\ t.to = d => t.msg = m
  BY SendsIs
<1> HIDE DEF N
<1>5. Renews /\ Stays(d)
  BY <1>1, RenewsIs DEF Stays, Connected
<1>6. m.field \notin Context
  BY <1>1 DEF Context
<1> QED
  BY <1>1, <1>3, <1>4, <1>5, <1>6, LaneStays

(* An event without a version of another caller, and a panel of a client.  *)
LEMMA EventEffect ==
    ASSUME Known, Known', Durable, ToolEvent \/ AgentEvent
    PROVE  \E f \in {"core", "agent"} : \E m \in Message :
               /\ m.kind = "set" /\ m.field = f /\ m.val = clock + 1
               /\ ready' \in Seq(Task)
               /\ Grown(ready, ready', 0, Sends(Agent, m) \ {Resume(Agent)})
               /\ \A d : GrownFor(ready, ready', d, Sends(Agent, m))
               /\ \A d \in Devices : reg[d] # NoConn =>
                     \E z \in DOMAIN ready' : z > Len(ready) /\ To(ready', d, z) /\ ready'[z].msg = m
               /\ UNCHANGED <<pc, req, reg, dev, up, chan, asks, link, view, synced, jumped>>
               /\ clock' = clock + 1 /\ session'.msgs = session.msgs
               /\ \A d \in Devices : silent'[d] = IF f = "core" THEN silent[d] \cup {"core"}
                                                  ELSE silent[d] \ {"agent"}
               /\ \A g \in Fields : session'.data[g] =
                     IF f = "agent" /\ g = "agent" THEN clock + 1 ELSE session.data[g]
<1>1. /\ UNCHANGED <<pc, req, reg, dev, up, chan, asks, link, view, synced, jumped>>
      /\ clock' = clock + 1 /\ session'.msgs = session.msgs /\ clock \in Nat
      /\ \A g \in Fields \ {"agent"} : session'.data[g] = session.data[g]
  BY EventIs DEF connVars, clientVars
<1>2. \E f \in {"core", "agent"} :
          /\ ready' = ready \o SetToSeq({Send(d, Set(f, clock + 1)) : d \in Registered})
          /\ \A d \in Devices : silent'[d] = IF f = "core" THEN silent[d] \cup {"core"}
                                             ELSE silent[d] \ {"agent"}
          /\ session'.data["agent"] = IF f = "agent" THEN clock + 1 ELSE session.data["agent"]
  <2>1. CASE ToolEvent
    <3>1. /\ ready' = ready \o SetToSeq({Send(d, Set("core", clock + 1)) : d \in Registered})
          /\ silent' = [d \in Devices |-> (silent[d] \ {}) \cup {"core"}] /\ session' = session
      BY <2>1 DEF ToolEvent, Announce, Commit
    <3> QED
      BY <3>1
  <2>2. CASE AgentEvent
    <3>1. /\ ready' = ready \o SetToSeq({Send(d, Set("agent", clock + 1)) : d \in Registered})
          /\ silent' = [d \in Devices |-> (silent[d] \ {"agent"}) \cup {}]
          /\ session' = Wrote(session, {"agent"})
      BY <2>2 DEF AgentEvent, Announce, Commit
    <3>2. session'.data["agent"] = clock + 1
      BY <3>1, WroteType, FieldsAre DEF Durable
    <3> QED
      BY <3>1, <3>2
  <2> QED
    BY <2>1, <2>2
<1>3. PICK f \in {"core", "agent"} :
          /\ ready' = ready \o SetToSeq({Send(d, Set(f, clock + 1)) : d \in Registered})
          /\ \A d \in Devices : silent'[d] = IF f = "core" THEN silent[d] \cup {"core"}
                                             ELSE silent[d] \ {"agent"}
          /\ session'.data["agent"] = IF f = "agent" THEN clock + 1 ELSE session.data["agent"]
  BY <1>2
<1> DEFINE m == Set(f, clock + 1)
<1>4. m \in Message /\ m.kind = "set" /\ m.field = f /\ m.val = clock + 1
  BY <1>1, FieldsAre, MessageTypes DEF Set, Known
<1>5. ready' = ready \o SetToSeq({Send(d, m) : d \in Registered})
  BY <1>3
<1> HIDE DEF m
<1> DEFINE S == {Send(d, m) : d \in Registered}
           N == Sends(Agent, m)
<1>6. /\ ready' \in Seq(Task) /\ Grown(ready, ready', 0, S) /\ ready \in Seq(Task)
      /\ \A d \in Registered : \E i \in DOMAIN ready' :
            Len(ready) < i /\ ready'[i] = Send(d, m)
  BY <1>4, <1>5, EventGrows DEF Known, Typed, LoopTyped
<1>7. S \subseteq N /\ N \ {Resume(Agent)} = S
  BY DEF Sends, Send, Resume
<1>8. ASSUME NEW d \in Devices, reg[d] # NoConn
      PROVE  \E z \in DOMAIN ready' : z > Len(ready) /\ To(ready', d, z) /\ ready'[z].msg = m
  <2>1. PICK z \in DOMAIN ready' : Len(ready) < z /\ ready'[z] = Send(d, m)
    BY <1>6, <1>8 DEF Registered
  <2>2. z \in Nat /\ Len(ready) \in Nat /\ ready'[z].msg = m
    BY <1>6, <2>1 DEF Send
  <2>3. To(ready', d, z)
    BY <2>1 DEF To, Send
  <2> QED
    BY <2>1, <2>2, <2>3
<1> HIDE DEF S, N
<1>9. Grown(ready, ready', 0, N)
  BY <1>6, <1>7 DEF Grown
<1>10. ASSUME NEW d PROVE GrownFor(ready, ready', d, N)
  <2>1. \A i \in DOMAIN ready : ~(i <= 0)
    BY <1>6
  <2> QED
    BY <1>9, <2>1 DEF GrownFor
<1>11. \A g \in Fields : session'.data[g] =
           IF f = "agent" /\ g = "agent" THEN clock + 1 ELSE session.data[g]
  BY <1>1, <1>3
<1> QED
  BY <1>1, <1>3, <1>4, <1>6, <1>7, <1>8, <1>10, <1>11 DEF N

LEMMA EventLane ==
    ASSUME LaneInv, VersionInv, Known, Known', Durable, ToolEvent \/ AgentEvent,
           NEW d \in Devices
    PROVE  Lane(d)'
<1>1. PICK f \in {"core", "agent"}, m \in Message :
          /\ m.kind = "set" /\ m.field = f
          /\ ready' \in Seq(Task) /\ \A e : GrownFor(ready, ready', e, Sends(Agent, m))
          /\ UNCHANGED <<pc, req, reg, up, chan, link, view, synced, jumped>>
          /\ clock' = clock + 1
          /\ \A g \in Fields : session'.data[g] =
                IF f = "agent" /\ g = "agent" THEN clock + 1 ELSE session.data[g]
  BY EventEffect
<1>2. Renews
  BY <1>1, RenewsIs
<1>3. Stays(d)
  BY <1>1 DEF Stays, Connected
<1>4. m.kind # "snapshot" /\ m.kind # "update" /\ m.field \notin Context
  BY <1>1 DEF Context
<1>5. \A t \in Sends(Agent, m) : t.task = "send" /\ t.to = d => t.msg = m
  BY SendsIs
<1> QED
  BY <1>1, <1>2, <1>3, <1>4, <1>5, LaneStays

(* A panel leaves what is on the way, and all of a view but the status.    *)
LEMMA PanelEffect ==
    ASSUME Known, NEW e \in Devices, ToolPanel(e), NEW d \in Devices
    PROVE  /\ UNCHANGED <<session, ready, pc, req, reg, up, chan, asks, link, synced, jumped>>
           /\ Connected(d)' <=> Connected(d)
           /\ Line(d)' = Line(d) /\ (Sees(d)' <=> Sees(d))
           /\ clock \in Nat /\ clock' = clock + 1
           /\ view'[d].v = view[d].v /\ view'[d].msgs = view[d].msgs
           /\ silent[d] \subseteq silent'[d]
           /\ \A f \in Fields : f # "core" \/ f \notin silent'[d] => view'[d].data[f] = view[d].data[f]
<1>1. /\ UNCHANGED <<session, ready, pc, req, reg, up, chan, asks, link, synced, jumped>>
      /\ view'[d].v = view[d].v /\ view'[d].msgs = view[d].msgs
      /\ \A f \in Fields \ {"core"} : view'[d].data[f] = view[d].data[f]
      /\ d # e => view'[d] = view[d] /\ silent'[d] = silent[d]
      /\ silent'[e] = silent[e] \cup {"core"}
  BY PanelIs DEF loopVars, connVars
<1>2. clock \in Nat /\ clock' = clock + 1
  BY DEF ToolPanel, Known, Types
<1>3. (Connected(d)' <=> Connected(d)) /\ Line(d)' = Line(d) /\ (Sees(d)' <=> Sees(d))
  BY <1>1 DEF Connected, Line, Sees
<1>4. \A f \in Fields : f # "core" \/ f \notin silent'[d] => view'[d].data[f] = view[d].data[f]
  <2>1. CASE d = e
    BY <1>1, <2>1
  <2>2. CASE d # e
    BY <1>1, <2>2
  <2> QED
    BY <2>1, <2>2
<1> QED
  BY <1>1, <1>2, <1>3, <1>4

LEMMA PanelLane ==
    ASSUME LaneInv, Known, NEW e \in Devices, ToolPanel(e), NEW d \in Devices
    PROVE  Lane(d)'
<1>1. /\ UNCHANGED <<session, ready>> /\ Line(d)' = Line(d) /\ (Sees(d)' <=> Sees(d))
      /\ clock \in Nat /\ clock' = clock + 1 /\ view'[d].v = view[d].v
      /\ \A f \in Context : view'[d].data[f] = view[d].data[f]
  BY PanelEffect DEF Context, Fields
<1>2. Lane(d)
  BY DEF LaneInv
<1>3. \A u : OnWay(u, Line(d)', ready', d) <=> OnWay(u, Line(d), ready, d)
  BY <1>1
<1>4. ASSUME NEW u, OnWay(u, Line(d), ready, d), u.kind = "update"
      PROVE  /\ u.val <= clock'
             /\ u.field \in Context /\ u.val = session'.data[u.field] => Comprises(d, u)'
  <2>1. u.val <= clock /\ u.val \in Nat
    <3>1. u \in Message
      BY <1>4, OnWayTyped
    <3> QED
      BY <1>2, <1>4, <3>1 DEF Lane, Message
  <2>2. u.val <= clock'
    BY <1>1, <2>1
  <2>3. ASSUME u.field \in Context, u.val = session'.data[u.field] PROVE Comprises(d, u)'
    <3>1. Comprises(d, u)
      BY <1>1, <1>2, <1>4, <2>3 DEF Lane
    <3>2. \A s : OnWay(s, Line(d)', ready', d) /\ s.kind = "snapshot" /\ u.v <= s.v
               => s.data[u.field] = u.val
      BY <1>3, <3>1 DEF Comprises
    <3> QED
      BY <1>1, <2>3, <3>1, <3>2 DEF Comprises
  <2> QED
    BY <2>2, <2>3
<1> QED
  BY <1>1, <1>2, <1>3, <1>4 DEF Lane

(* The kinds of steps. *)
LEMMA StepIs ==
    ASSUME OwnInv, Known, Known', Durable, [Next]_vars
    PROVE  \/ Idle
           \/ \E h \in Handlers, kind \in Announced \cup Unannounced :
                 \E next, m : Mutation(h, kind, next, m)
           \/ \E h \in Handlers : HubSave(h) /\ req[h].kind \in {"core", "tests"}
           \/ RunSend
           \/ \E k \in Conns : HubReject(k) \/ HubSnapshot(k) \/ HubGreet(k)
           \/ \E d \in Devices : Receive(d) \/ ToolPanel(d)
           \/ ToolEvent \/ AgentEvent
           \/ HubRestart
<1>1. ASSUME NEW k \in Conns, HandlerStep(k), ~HubReject(k), ~HubSnapshot(k), ~HubGreet(k)
      PROVE  \/ Idle
             \/ \E h \in Handlers, kind \in Announced \cup Unannounced :
                   \E next, m : Mutation(h, kind, next, m)
  BY <1>1, MutationIs, ConnectIdle, EndIdle, UnregisterIdle DEF HandlerStep
<1>2. ASSUME NEW d \in Devices, ClientStep(d), ~Receive(d), ~ToolPanel(d) PROVE Idle
  BY <1>2, OpenIdle, GoneIdle, OtherIdle DEF ClientStep
<1>3. ASSUME NEW h \in Handlers, HubSave(h) \/ HubEchoed(h)
      PROVE  Idle \/ (HubSave(h) /\ req[h].kind \in {"core", "tests"})
  BY <1>3, FinishIdle DEF HubSave, HubEchoed
<1>4. HubDetected => \E h \in Handlers, kind \in Announced \cup Unannounced :
                         \E next, m : Mutation(h, kind, next, m)
  BY MutationIs
<1> QED
  BY <1>1, <1>2, <1>3, <1>4, RestIdle, OtherIdle DEF Next

LEMMA IdleLane == ASSUME LaneInv, VersionInv, Known, Known', Idle, NEW d \in Devices PROVE Lane(d)'
<1>1. ready' \in Seq(Task)
  BY LineTypes DEF Known, Typed, LoopTyped
<1>2. PICK N : GrownFor(ready, ready', d, N) /\ \A t \in N : t.task # "send"
  BY LoopIdleFor DEF Idle
<1> QED
  BY <1>1, <1>2, LaneIdle DEF Idle, IdleFor

LEMMA InitLane == Init => LaneInv
<1> SUFFICES ASSUME Init, NEW d \in Devices PROVE Lane(d)
  BY DEF LaneInv
<1>1. Line(d) = <<>> /\ ready = <<>>
  BY DEF Init, Line, Connected
<1>2. \A m : ~OnWay(m, Line(d), ready, d)
  BY <1>1, OnWayIs
<1> QED
  BY <1>1, <1>2 DEF Lane, Ascends

LEMMA StepLane ==
    ASSUME LaneInv, OwnInv, VersionInv, Known, Known', Durable, [Next]_vars PROVE LaneInv'
<1> SUFFICES ASSUME NEW d \in Devices PROVE Lane(d)'
  BY DEF LaneInv
<1>1. ASSUME NEW k \in Conns, HubReject(k) PROVE Lane(d)'
  <2> DEFINE m == [kind |-> "rejected", v |-> session.v]
  <2>1. /\ pc[k] = "reading" /\ chan' = Written(dev[k], m)
        /\ UNCHANGED <<session, clock, ready, reg, up, link, view, synced, jumped>>
    BY <1>1 DEF HubReject, sessionVars, loopVars, clientVars
  <2>2. dev[k] \in Devices /\ m \in Message /\ m.kind = "rejected"
    BY <2>1, MessageTypes DEF OwnInv, Known
  <2> HIDE DEF m
  <2> QED
    BY <2>1, <2>2, WriteLane
<1>2. ASSUME NEW k \in Conns, HubSnapshot(k) PROVE Lane(d)'
  <2> DEFINE m == Snapshot(session)
  <2>1. /\ pc[k] = "reading" /\ chan' = Written(dev[k], m)
        /\ UNCHANGED <<session, clock, ready, reg, up, link, view, synced, jumped>>
    BY <1>2 DEF HubSnapshot, loopVars, clientVars
  <2>2. dev[k] \in Devices /\ m \in Message /\ m.kind = "snapshot" /\ m.data = session.data
    BY <2>1, MessageTypes DEF OwnInv, Known, Snapshot
  <2> HIDE DEF m
  <2> QED
    BY <2>1, <2>2, WriteLane
<1>3. CASE HubRestart
  <2>1. ready' = <<>> /\ reg'[d] = NoConn
    BY <1>3 DEF HubRestart
  <2>2. Line(d)' = <<>>
    BY <2>1 DEF Line, Connected
  <2>3. \A m : ~OnWay(m, Line(d)', ready', d)
    BY <2>1, <2>2, OnWayIs
  <2> QED
    BY <2>1, <2>2, <2>3 DEF Lane, Ascends
<1> QED
  BY <1>1, <1>2, <1>3, StepIs, IdleLane, MutationLane, EchoLane, SendLane, GreetLane, ReadLane,
     EventLane, PanelLane

-----------------------------------------------------------------------------
(* Fields. A message is wrong about a field if it takes the client away    *)
(* from the session's value, right if it brings it there.                  *)

Wrong(m, f, x) ==
    \/ m.kind \in {"set", "update"} /\ m.field = f /\ m.val # x
    \/ m.kind = "snapshot" /\ m.data[f] # x
Right(m, f, x) ==
    \/ m.kind = (IF f \in Context THEN "update" ELSE "set") /\ m.field = f /\ m.val = x
    \/ m.kind = "snapshot" /\ m.data[f] = x

(* The client d will drop m for its version.                               *)
Passed(d, m) ==
    /\ m.kind = "update"
    /\ \/ d \in synced /\ m.v <= view[d].v
       \/ \E i \in DOMAIN Line(d) : Line(d)[i].kind = "snapshot" /\ m.v <= Line(d)[i].v

Wrongs(d, f) == {m \in Message : Wrong(m, f, session.data[f]) /\ ~Passed(d, m)}
Rights(f) == {m \in Message : Right(m, f, session.data[f])}
OldSets(f) == {m \in Message : m.kind = "set" /\ Wrong(m, f, session.data[f])}

(* A device gets no old announcement without a later right one; neither    *)
(* does a client read an old value, and it has the right one or gets it.   *)
Settled(d, f) == NoStale(f) /\ LoopMended(ready, d, OldSets(f), Rights(f))
Arrives(d, f) ==
    /\ NoStale(f)
    /\ Mended(Line(d), ready, d, Wrongs(d, f), Rights(f))
    /\ view[d].data[f] = session.data[f] \/ Comes(Line(d), ready, d, Rights(f))

FieldOK(d, f) ==
    /\ reg[d] # NoConn => Echo(f) \/ Settled(d, f)
    /\ Served(d) => Echo(f) \/ Arrives(d, f)
FieldInv == \A d \in Devices : \A f \in Fields \ silent[d] : FieldOK(d, f)

(* The handlers of H keep their order in the queue. *)
LEMMA GoesLastStays ==
    ASSUME NEW q \in Seq(Task), NEW r \in Seq(Task), NEW n, NEW N, Grown(q, r, n, N),
           NEW H, \A i \in DOMAIN q : i <= n => \A g \in H : q[i] # Resume(g),
           \A t \in N : \A g \in H : t # Resume(g),
           NEW h \in H, NEW T, NEW S, S \subseteq T, S \subseteq H, GoesLast(q, h, T)
    PROVE  GoesLast(r, h, S)
<1> SUFFICES ASSUME NEW g \in S, NEW j \in DOMAIN r, r[j] = Resume(h)
             PROVE  \E i \in DOMAIN r : i < j /\ r[i] = Resume(g)
  BY DEF GoesLast
<1>1. /\ n \in Nat
      /\ \A i \in DOMAIN q : i \in Nat /\ (i > n => i - n \in DOMAIN r /\ r[i - n] = q[i])
      /\ \A i \in DOMAIN r :
            /\ i \in Nat
            /\ \/ i + n \in DOMAIN q /\ r[i] = q[i + n]
               \/ i + n > Len(q) /\ r[i] \in N
  BY GrownIndices
<1>2. j \in Nat /\ j + n \in DOMAIN q /\ q[j + n] = Resume(h)
  BY <1>1
<1>3. PICK i \in DOMAIN q : i < j + n /\ q[i] = Resume(g)
  BY <1>2 DEF GoesLast
<1>4. i \in Nat /\ i > n
  <2>1. ~(i <= n) /\ i \in Nat
    BY <1>1, <1>3
  <2> QED
    BY <1>1, <2>1
<1>5. i - n \in DOMAIN r /\ r[i - n] = Resume(g) /\ i - n < j
  BY <1>1, <1>2, <1>3, <1>4
<1> QED
  BY <1>5

EchoLoop ==
    \E n, N :
        /\ Grown(ready, ready', n, N)
        /\ \A i \in DOMAIN ready : i <= n => \A g \in Savers("core") : ready[i] # Resume(g)
        /\ \A t \in N : \A g \in Savers("core") : t # Resume(g)

LEMMA IdleEchoLoop == ASSUME LoopIdle PROVE EchoLoop
BY DEF LoopIdle, EchoLoop, Resume

(* What is still to echo is, and nothing old.                              *)
EchoStays(f) == (Echo(f) => Echo(f)') /\ (NoStale(f) => NoStale(f)')

LEMMA OtherEchoStays == ASSUME NEW f, f \notin {"core", "tests"} PROVE EchoStays(f)
BY DEF EchoStays, Echo, NoStale

LEMMA TestsEchoStays ==
    ASSUME Savers("tests") \subseteq Savers("tests")' PROVE EchoStays("tests")
BY DEF EchoStays, Echo, NoStale

LEMMA CoreEchoStays ==
    ASSUME Known, Known', EchoLoop, session'.data["core"] = session.data["core"],
           Savers("core")' = Savers("core"), \A h \in Savers("core") : req'[h] = req[h]
    PROVE  EchoStays("core")
<1>1. Stale' = Stale /\ Stale \subseteq Savers("core")
  BY DEF Stale
<1>2. PICK n, N :
        /\ Grown(ready, ready', n, N)
        /\ \A i \in DOMAIN ready : i <= n => \A g \in Savers("core") : ready[i] # Resume(g)
        /\ \A t \in N : \A g \in Savers("core") : t # Resume(g)
  BY DEF EchoLoop
<1>3. ASSUME NEW h \in Savers("core") \ Stale, GoesLast(ready, h, Stale)
      PROVE  GoesLast(ready', h, Stale)
  <2>1. ready \in Seq(Task) /\ ready' \in Seq(Task)
    BY DEF Known, Typed, LoopTyped
  <2> QED
    BY <1>1, <1>2, <1>3, <2>1, GoesLastStays
<1>4. Echo("core") => Echo("core")'
  BY <1>1, <1>3 DEF Echo
<1> QED
  BY <1>1, <1>4 DEF EchoStays, NoStale

LEMMA SaversEchoStays ==
    ASSUME Known, Known', EchoLoop, SaversStay, NEW f, session'.data[f] = session.data[f]
    PROVE  EchoStays(f)
BY OtherEchoStays, TestsEchoStays, CoreEchoStays DEF SaversStay

(* What is right is not wrong. *)
LEMMA RightOrWrong ==
    ASSUME NEW m \in Message, NEW f, NEW x
    PROVE  /\ Right(m, f, x) => ~Wrong(m, f, x)
           /\ m.kind = "snapshot" => Right(m, f, x) \/ Wrong(m, f, x)
BY DEF Right, Wrong

(* The device d sees what it saw.                                          *)
LEMMA FieldIdle ==
    ASSUME FieldInv, Known, Known', NEW d \in Devices, NEW f \in Fields \ silent[d],
           session'.data[f] = session.data[f], EchoStays(f),
           Stays(d), reg'[d] # NoConn => reg[d] # NoConn, Served(d)' => Served(d),
           NEW N, GrownFor(ready, ready', d, N),
           \A t \in N : t.task = "send" /\ t.to = d => ~Wrong(t.msg, f, session.data[f])
    PROVE  FieldOK(d, f)'
<1>1. ready \in Seq(Task) /\ ready' \in Seq(Task) /\ FieldOK(d, f)
  BY DEF Known, Typed, LoopTyped, FieldInv
<1>2. OldSets(f)' = OldSets(f) /\ Rights(f)' = Rights(f)
  BY DEF OldSets, Rights
<1>3. ASSUME reg'[d] # NoConn PROVE Echo(f)' \/ Settled(d, f)'
  <2>1. Echo(f) \/ Settled(d, f)
    BY <1>1, <1>3 DEF FieldOK
  <2>2. \A t \in N : t.task = "send" /\ t.to = d => t.msg \notin OldSets(f)
    BY DEF OldSets
  <2>3. LoopMended(ready, d, OldSets(f), Rights(f)) => LoopMended(ready', d, OldSets(f), Rights(f))
    BY <1>1, <2>2, GrownMended
  <2> QED
    BY <1>2, <2>1, <2>3 DEF Settled, EchoStays
<1>4. ASSUME Served(d)' PROVE Echo(f)' \/ Arrives(d, f)'
  <2>1. Echo(f) \/ Arrives(d, f)
    BY <1>1, <1>4 DEF FieldOK
  <2>2. Connected(d)' /\ Line(d)' = Line(d) /\ view'[d] = view[d] /\ (d \in synced' <=> d \in synced)
    BY <1>4, StaysLine DEF Served, Stays
  <2>3. Wrongs(d, f)' = Wrongs(d, f)
    BY <2>2 DEF Wrongs, Passed
  <2>4. \A t \in N : t.task = "send" /\ t.to = d => t.msg \notin Wrongs(d, f)
    BY DEF Wrongs
  <2>5. /\ Mended(Line(d), ready, d, Wrongs(d, f), Rights(f))
              => Mended(Line(d), ready', d, Wrongs(d, f), Rights(f))
        /\ Comes(Line(d), ready, d, Rights(f)) => Comes(Line(d), ready', d, Rights(f))
    BY <1>1, <2>4, GrownMended
  <2> QED
    BY <1>2, <2>1, <2>2, <2>3, <2>5 DEF Arrives, EchoStays
<1> QED
  BY <1>3, <1>4 DEF FieldOK

(* A right message is sent to all registered devices.                      *)
LEMMA FieldSent ==
    ASSUME Known, Known', NEW q \in Seq(Task), NEW h, NEW m \in Message,
           NEW d \in Devices, NEW f \in Fields, NoStale(f)', Right(m, f, session'.data[f]),
           GrownFor(q, ready', d, Sends(h, m)),
           reg[d] # NoConn => \E z \in DOMAIN ready' : z > Len(q) /\ To(ready', d, z) /\ ready'[z].msg = m,
           UNCHANGED reg
    PROVE  FieldOK(d, f)'
<1>1. ASSUME reg[d] # NoConn
      PROVE  Settled(d, f)' /\ Arrives(d, f)'
  <2>1. PICK z \in DOMAIN ready' : z > Len(q) /\ To(ready', d, z) /\ ready'[z].msg = m
    BY <1>1
  <2>2. m \in Rights(f)' /\ m \notin OldSets(f)' /\ m \notin Wrongs(d, f)'
    BY RightOrWrong DEF Rights, OldSets, Wrongs
  <2>3. \A t \in Sends(h, m) : t.task = "send" /\ t.to = d => t.msg = m
    BY SendsIs
  <2> DEFINE W == Wrongs(d, f)'
             V == OldSets(f)'
             R == Rights(f)'
             c == Line(d)'
             N == Sends(h, m)
  <2>4. ready' \in Seq(Task)
    BY DEF Known, Typed, LoopTyped
  <2>5. GrownFor(q, ready', d, N) /\ (\A t \in N : t.task = "send" /\ t.to = d => t.msg = m)
        /\ m \in R /\ m \notin V /\ m \notin W
    BY <2>2, <2>3
  <2> HIDE DEF W, V, R, c, N
  <2>6. LoopMended(ready', d, V, R)
    BY <2>1, <2>4, <2>5, AddedMends
  <2>7. Mended(c, ready', d, W, R) /\ Comes(c, ready', d, R)
    BY <2>1, <2>4, <2>5, AddedMends
  <2> QED
    BY <2>6, <2>7 DEF Settled, Arrives, W, V, R, c
<1>2. Served(d)' => reg[d] # NoConn
  BY ConnTypes DEF Served, Connected
<1> QED
  BY <1>1, <1>2 DEF FieldOK

LEMMA IdleField ==
    ASSUME FieldInv, Known, Known', Idle, NEW d \in Devices, NEW f \in Fields \ silent'[d]
    PROVE  FieldOK(d, f)'
<1>1. f \notin silent[d] /\ session'.data[f] = session.data[f]
  BY DEF Idle, IdleFor, Unheard
<1>2. EchoStays(f)
  BY <1>1, IdleEchoLoop, SaversEchoStays DEF Idle
<1>3. PICK N : GrownFor(ready, ready', d, N) /\ \A t \in N : t.task # "send"
  BY LoopIdleFor DEF Idle
<1> QED
  BY <1>1, <1>2, <1>3, FieldIdle DEF Idle, IdleFor

LEMMA SendField ==
    ASSUME FieldInv, OwnInv, VersionInv, Known, Known', RunSend,
           NEW d \in Devices, NEW f \in Fields \ silent'[d]
    PROVE  FieldOK(d, f)'
<1>1. /\ ready # <<>> /\ ready' = Tail(ready) /\ ready[1].task = "send" /\ ready \in Seq(Task)
      /\ UNCHANGED <<session, clock, silent, pc, req, reg, up, asks, link, view, synced, jumped>>
  BY DEF RunSend, sessionVars, clientVars, Known, Typed, LoopTyped
<1>2. EchoStays(f)
  <2>1. Grown(ready, ready', 1, {})
    BY <1>1, GrownTail
  <2>2. \A i \in DOMAIN ready : i <= 1 => \A g \in Savers("core") : ready[i] # Resume(g)
    <3>1. \A i \in DOMAIN ready : i <= 1 => i = 1
      BY <1>1
    <3> QED
      BY <1>1, <3>1 DEF Resume
  <2>3. \A t \in {} : \A g \in Savers("core") : t # Resume(g)
    OBVIOUS
  <2>4. EchoLoop
    BY <2>1, <2>2, <2>3 DEF EchoLoop
  <2> QED
    BY <1>1, <2>4, SaversAsBefore, SaversEchoStays
<1>3. /\ Connected(d)' <=> Connected(d)
      /\ IF To(ready, d, 1)
         THEN /\ ready[1].msg \in Message
              /\ Connected(d) => Line(d)' = Append(Line(d), ready[1].msg)
         ELSE Stays(d) /\ \A N : GrownFor(ready, ready', d, N)
  BY SendEffect
<1>4. CASE ~To(ready, d, 1)
  <2>1. GrownFor(ready, ready', d, {}) /\ Stays(d)
    BY <1>3, <1>4
  <2>2. Served(d)' => Served(d)
    <3>1. Served(d)' => Line(d)' = Line(d)
      BY <2>1, StaysLine DEF Served
    <3> QED
      BY <1>1, <1>3, <3>1 DEF Served
  <2>3. \A t \in {} : t.task = "send" /\ t.to = d => ~Wrong(t.msg, f, session.data[f])
    OBVIOUS
  <2> QED
    BY <1>1, <1>2, <2>1, <2>2, <2>3, FieldIdle
<1>5. CASE To(ready, d, 1)
  <2> DEFINE m == ready[1].msg
             c == Line(d)
             q == ready
             R == Rights(f)
  <2>1. /\ m \in Message /\ m.kind # "snapshot" /\ c \in Seq(Message)
        /\ OldSets(f)' = OldSets(f) /\ Rights(f)' = R /\ FieldOK(d, f)
    <3>1. 1 \in DOMAIN ready
      BY <1>1, TailIndices
    <3> QED
      BY <1>1, <1>3, <1>5, <3>1, LineTypes DEF VersionInv, TasksBounded, OldSets, Rights, FieldInv
  <2> HIDE DEF m, R
  <2>2. LoopMended(q, d, OldSets(f), R) => LoopMended(Tail(q), d, OldSets(f), R)
    BY <1>1, <1>5, <2>1, MovedMends
  <2>3. reg'[d] # NoConn => Echo(f)' \/ Settled(d, f)'
    BY <1>1, <1>2, <2>1, <2>2 DEF FieldOK, Settled, EchoStays, R
  <2>4. ASSUME Served(d)' PROVE Echo(f)' \/ Arrives(d, f)'
    <3>1. Connected(d) /\ Line(d)' = Append(c, m)
      BY <1>3, <1>5, <2>4 DEF Served, m
    <3>2. /\ \A i \in DOMAIN c : i \in DOMAIN Line(d)' /\ Line(d)'[i] = c[i]
          /\ \A i \in DOMAIN Line(d)' : i \in DOMAIN c \/ Line(d)'[i] = m
      BY <2>1, <3>1, AppendIndices
    <3>3. Served(d)
      BY <1>1, <2>1, <2>4, <3>1, <3>2 DEF Served
    <3>4. Wrongs(d, f)' \subseteq Wrongs(d, f)
      BY <1>1, <3>2 DEF Wrongs, Passed
    <3>5. Echo(f) \/ Arrives(d, f)
      BY <2>1, <3>3 DEF FieldOK
    <3> DEFINE W == Wrongs(d, f)
               V == Wrongs(d, f)'
    <3>6. V \subseteq W
      BY <3>4
    <3>7. Arrives(d, f) => Mended(c, q, d, W, R) /\ (view[d].data[f] = session.data[f] \/ Comes(c, q, d, R))
      BY DEF Arrives, R
    <3> HIDE DEF W, V
    <3>8. /\ Mended(c, q, d, W, R) => Mended(Append(c, m), Tail(q), d, W, R)
          /\ Comes(c, q, d, R) => Comes(Append(c, m), Tail(q), d, R)
      BY <1>1, <1>5, <2>1, MovedMends DEF m
    <3>9. Mended(Append(c, m), Tail(q), d, W, R) => Mended(Append(c, m), Tail(q), d, V, R)
      BY <3>6, MendedMore
    <3>10. Arrives(d, f) /\ NoStale(f)' => Arrives(d, f)'
      BY <1>1, <2>1, <3>1, <3>7, <3>8, <3>9 DEF Arrives, V
    <3> QED
      BY <1>2, <3>5, <3>10 DEF EchoStays, Arrives
  <2> QED
    BY <2>3, <2>4 DEF FieldOK
<1> QED
  BY <1>4, <1>5

LEMMA RejectField ==
    ASSUME FieldInv, OwnInv, Known, Known', NEW k \in Conns, HubReject(k),
           NEW d \in Devices, NEW f \in Fields \ silent'[d]
    PROVE  FieldOK(d, f)'
<1> DEFINE m == [kind |-> "rejected", v |-> session.v]
           e == dev[k]
<1>1. /\ pc[k] = "reading" /\ chan' = Written(e, m)
      /\ UNCHANGED <<session, silent, ready, pc, req, reg, up, asks, link, view, synced, jumped>>
  BY DEF HubReject, sessionVars, loopVars, clientVars
<1>2. e \in Devices /\ m \in Message /\ m.kind = "rejected" /\ k \in Handlers
  BY <1>1, MessageTypes, ConnTypes DEF OwnInv, Known
<1> HIDE DEF m, e
<1>3. /\ Connected(d)' <=> Connected(d)
      /\ d # e => Stays(d)
      /\ d = e /\ Connected(d) => Line(d)' = Append(Line(d), m)
      /\ ~Connected(d) => Line(d) = <<>> /\ Line(d)' = <<>>
  BY <1>1, <1>2, WriteEffect
<1>4. ready \in Seq(Task) /\ Line(d) \in Seq(Message)
  BY LineTypes
<1>5. EchoStays(f) /\ FieldOK(d, f)
  <2>1. LoopIdle /\ SaversStay
    BY <1>1, SameLoop, SaversAsBefore
  <2> QED
    BY <1>1, <2>1, IdleEchoLoop, SaversEchoStays DEF FieldInv
<1>6. CASE ~(d = e /\ Connected(d))
  <2>1. Stays(d)
    BY <1>3, <1>6 DEF Stays
  <2>2. GrownFor(ready, ready', d, {})
    BY <1>1, <1>4, SameFor
  <2>3. Served(d)' => Served(d)
    <3>1. Served(d)' => Line(d)' = Line(d)
      BY <2>1, StaysLine DEF Served
    <3> QED
      BY <1>1, <1>3, <3>1 DEF Served
  <2>4. \A t \in {} : t.task = "send" /\ t.to = d => ~Wrong(t.msg, f, session.data[f])
    OBVIOUS
  <2> QED
    BY <1>1, <1>5, <2>1, <2>2, <2>3, <2>4, FieldIdle
<1>7. CASE d = e /\ Connected(d)
  <2> DEFINE c == Line(d)
             R == Rights(f)
             W == Wrongs(d, f)
             V == Wrongs(d, f)'
  <2>1. Line(d)' = Append(c, m) /\ OldSets(f)' = OldSets(f) /\ Rights(f)' = R
    BY <1>1, <1>3, <1>7 DEF OldSets, Rights
  <2>2. /\ \A i \in DOMAIN c : i \in DOMAIN Line(d)' /\ Line(d)'[i] = c[i]
        /\ \A i \in DOMAIN Line(d)' : i \in DOMAIN c \/ Line(d)'[i] = m
    BY <1>2, <1>4, <2>1, AppendIndices
  <2>3. V \subseteq W /\ m \notin W
    BY <1>1, <1>2, <2>2 DEF Wrongs, Passed, Wrong
  <2>4. Served(d)' => Served(d)
    BY <1>1, <1>2, <1>3, <2>2 DEF Served
  <2>5. Arrives(d, f) => Mended(c, ready, d, W, R) /\ (view[d].data[f] = session.data[f] \/ Comes(c, ready, d, R))
    BY DEF Arrives
  <2> HIDE DEF R, W, V
  <2>6. /\ Mended(c, ready, d, W, R) => Mended(Append(c, m), ready, d, W, R)
        /\ Comes(c, ready, d, R) => Comes(Append(c, m), ready, d, R)
    BY <1>2, <1>4, <2>3, WrittenMends
  <2>7. Mended(Append(c, m), ready, d, W, R) => Mended(Append(c, m), ready, d, V, R)
    BY <2>3, MendedMore
  <2>8. Arrives(d, f) /\ NoStale(f)' => Arrives(d, f)'
    BY <1>1, <2>1, <2>5, <2>6, <2>7 DEF Arrives, V, R
  <2>9. reg'[d] # NoConn => Echo(f)' \/ Settled(d, f)'
    BY <1>1, <1>5, <2>1 DEF FieldOK, Settled, EchoStays, R
  <2>10. Served(d)' => Echo(f)' \/ Arrives(d, f)'
    BY <1>5, <2>4, <2>8 DEF FieldOK, EchoStays, Arrives
  <2> QED
    BY <2>9, <2>10 DEF FieldOK
<1> QED
  BY <1>6, <1>7

(* What is not outdated for a device gets to it.                           *)
LEMMA NotOutdated ==
    ASSUME Known, NEW d \in Devices, NEW f \in Fields \ Outdated(d), NEW R
    PROVE  NoStale(f) /\ LoopMended(ready, d, OldSets(f), R)
<1>1. NoStale(f)
  BY DEF NoStale, Stale, Savers, Outdated
<1>2. ASSUME NEW i \in DOMAIN ready, To(ready, d, i), ready[i].msg \in OldSets(f) PROVE FALSE
  <2>1. ready[i].msg.kind = "set" /\ ready[i].msg.field = f /\ ready[i].msg.val # session.data[f]
    BY <1>2 DEF OldSets, Wrong
  <2> QED
    BY <1>2, <2>1 DEF To, Outdated
<1> QED
  BY <1>1, <1>2 DEF LoopMended

(* A snapshot behind the line c: no later update of another value comes.   *)
LEMMA SnapshotArrives ==
    ASSUME Known, VersionInv, NEW d \in Devices, NEW f \in Fields,
           UNCHANGED session, NEW c \in Seq(Message), NEW q \in Seq(Task),
           Line(d)' = Append(c, Snapshot(session)), ready' = q, TasksBounded(q, session.v),
           NoStale(f)', LoopMended(q, d, OldSets(f), Rights(f))
    PROVE  Arrives(d, f)'
<1> DEFINE s == Snapshot(session)
           R == Rights(f)
           V == Wrongs(d, f)'
<1>1. s \in Message /\ s.kind = "snapshot" /\ s.v = session.v /\ s.data = session.data
  BY MessageTypes DEF Known, Snapshot
<1> HIDE DEF s
<1>2. Rights(f)' = R /\ s \in R /\ s \notin V
  BY <1>1 DEF Rights, Right, Wrongs, Wrong
<1>3. \E i \in DOMAIN Line(d)' : Line(d)'[i] = s
  BY <1>1, AppendIndices DEF s
<1>4. \A m \in V : m.kind = "update" => ~(m.v <= session.v)
  BY <1>1, <1>3 DEF Wrongs, Passed
<1>5. LoopMended(q, d, V, R)
  <2> SUFFICES ASSUME NEW i \in DOMAIN q, To(q, d, i), q[i].msg \in V
               PROVE  \E j \in DOMAIN q : i < j /\ To(q, d, j) /\ q[j].msg \in R
    BY DEF LoopMended
  <2>1. q[i].msg.kind # "snapshot" /\ (Versioned(q[i].msg) => q[i].msg.v <= session.v)
    BY DEF TasksBounded, To
  <2>2. q[i].msg \in OldSets(f)
    BY <1>4, <2>1 DEF Versioned, Wrongs, Wrong, OldSets
  <2> QED
    BY <2>2 DEF LoopMended, R
<1> HIDE DEF R, V
<1>6. Mended(Append(c, s), q, d, V, R) /\ Comes(Append(c, s), q, d, R)
  BY <1>1, <1>2, <1>5, WrittenMends
<1> QED
  BY <1>2, <1>6 DEF Arrives, s, R, V

LEMMA SnapshotField ==
    ASSUME FieldInv, OwnInv, VersionInv, Known, Known', NEW k \in Conns, HubSnapshot(k),
           NEW d \in Devices, NEW f \in Fields \ silent'[d]
    PROVE  FieldOK(d, f)'
<1> DEFINE m == Snapshot(session)
           e == dev[k]
<1>1. /\ pc[k] = "reading" /\ chan' = Written(e, m) /\ asks[k] > 0
      /\ asks' = [asks EXCEPT ![k] = @ - 1]
      /\ silent' = [silent EXCEPT ![e] = @ \cap Outdated(e)]
      /\ UNCHANGED <<session, ready, pc, req, reg, up, link, view, synced, jumped>>
  BY DEF HubSnapshot, loopVars, clientVars
<1>2. e \in Devices /\ m \in Message /\ k \in Handlers
  BY <1>1, MessageTypes, ConnTypes DEF OwnInv, Known
<1> HIDE DEF m, e
<1>3. /\ Connected(d)' <=> Connected(d)
      /\ d # e => Stays(d)
      /\ d = e /\ Connected(d) => Line(d)' = Append(Line(d), m)
      /\ ~Connected(d) => Line(d) = <<>> /\ Line(d)' = <<>>
  BY <1>1, <1>2, WriteEffect
<1>4. ready \in Seq(Task) /\ Line(d) \in Seq(Message)
  BY LineTypes
<1>5. /\ Echo(f)' <=> Echo(f)
      /\ NoStale(f)' <=> NoStale(f)
      /\ OldSets(f)' = OldSets(f) /\ Rights(f)' = Rights(f)
  BY <1>1 DEF Echo, NoStale, Stale, Savers, GoesLast, OldSets, Rights
<1>6. CASE d # e
  <2>1. Stays(d) /\ f \notin silent[d]
    BY <1>1, <1>3, <1>6 DEF Known, Typed, SessionTyped
  <2>2. GrownFor(ready, ready', d, {})
    BY <1>1, <1>4, SameFor
  <2>3. Served(d)' => Served(d)
    <3>1. Served(d)' => Line(d)' = Line(d) /\ link[d] # k
      <4>1. link[d] = k => link[d] # NoConn
        BY ConnTypes
      <4> QED
        BY <1>6, <2>1, <4>1, StaysLine DEF Served, OwnInv, e
    <3>2. Served(d)' => asks'[link[d]] = asks[link[d]]
      BY <1>1, <1>3, <3>1, ConnTypes DEF Served, Known, Typed, WireTyped
    <3> QED
      BY <1>1, <1>3, <3>1, <3>2 DEF Served
  <2>4. \A t \in {} : t.task = "send" /\ t.to = d => ~Wrong(t.msg, f, session.data[f])
    OBVIOUS
  <2>5. EchoStays(f)
    BY <1>5 DEF EchoStays
  <2> QED
    BY <1>1, <2>1, <2>2, <2>3, <2>4, <2>5, FieldIdle
<1>7. CASE d = e
  <2>1. f \notin silent[d] \/ f \notin Outdated(d)
    BY <1>1, <1>2, <1>7 DEF Known, Typed, SessionTyped
  <2>2. reg[d] # NoConn => Echo(f) \/ Settled(d, f)
    BY <2>1, NotOutdated DEF FieldInv, FieldOK, Settled
  <2>3. reg'[d] # NoConn => Echo(f)' \/ Settled(d, f)'
    BY <1>1, <1>5, <2>2 DEF Settled
  <2>4. ASSUME Served(d)', Settled(d, f) PROVE Arrives(d, f)'
    <3>1. Line(d)' = Append(Line(d), m)
      BY <1>3, <1>7, <2>4 DEF Served
    <3> QED
      BY <1>1, <1>4, <1>5, <2>4, <3>1, SnapshotArrives DEF Settled, VersionInv, m
  <2>5. Served(d)' => reg[d] # NoConn
    BY <1>1, ConnTypes DEF Served, Connected
  <2> QED
    BY <1>5, <2>2, <2>3, <2>4, <2>5 DEF FieldOK
<1> QED
  BY <1>6, <1>7

LEMMA GreetField ==
    ASSUME FieldInv, OwnInv, VersionInv, VersionInv', Known, Known', NEW k \in Conns, HubGreet(k),
           NEW d \in Devices, NEW f \in Fields \ silent'[d]
    PROVE  FieldOK(d, f)'
<1> DEFINE s == Snapshot(session)
<1>1. /\ Resumed(k) /\ ready' = Rest /\ UNCHANGED session
      /\ dev[k] \in Devices /\ s \in Message
      /\ d # dev[k] => Stays(d) /\ reg'[d] = reg[d]
      /\ d = dev[k] => /\ Connected(d)' => Line(d)' = Append(<<>>, s)
  BY GreetEffect
<1>2. /\ pc[k] = "connecting" /\ pc' = [pc EXCEPT ![k] = "reading"]
      /\ silent' = [silent EXCEPT ![dev[k]] = Outdated(dev[k])]
      /\ UNCHANGED <<req, asks, up, link, synced, jumped>>
      /\ k \in Handlers /\ k \notin Savers("core") \cup Savers("tests")
  BY ConnTypes DEF HubGreet, Savers, clientVars
<1> HIDE DEF s
<1>3. EchoStays(f)
  <2>1. LoopIdle /\ SaversStay
    BY <1>1, <1>2, RestLoop, SaversMove
  <2> QED
    BY <1>1, <2>1, IdleEchoLoop, SaversEchoStays
<1>4. /\ ready \in Seq(Task) /\ ready' \in Seq(Task) /\ \A N : GrownFor(ready, ready', d, N)
  BY <1>1, <1>2, RestFor, LineTypes
<1>5. CASE d # dev[k]
  <2>1. f \notin silent[d]
    BY <1>2, <1>5 DEF Known, Typed, SessionTyped
  <2>2. GrownFor(ready, ready', d, {}) /\ Stays(d) /\ reg'[d] = reg[d]
    BY <1>1, <1>4, <1>5
  <2>3. Served(d)' => Served(d)
    <3>1. Connected(d)' => link[d] \in Conns /\ link[d] \in Handlers
      BY <1>2, ConnTypes DEF Connected
    <3>2. Connected(d)' => (pc[link[d]] = "closing" => pc'[link[d]] = "closing")
      BY <1>2, <3>1 DEF Known, Types
    <3> QED
      BY <1>2, <2>2, <3>2, SameClients DEF Stays
  <2>4. \A t \in {} : t.task = "send" /\ t.to = d => ~Wrong(t.msg, f, session.data[f])
    OBVIOUS
  <2> QED
    BY <1>1, <1>3, <2>1, <2>2, <2>3, <2>4, FieldIdle
<1>6. CASE d = dev[k]
  <2> DEFINE R == Rights(f)
             V == OldSets(f)
             N == {}
  <2>1. f \in Fields \ Outdated(d)
    BY <1>2, <1>6 DEF Known, Typed, SessionTyped
  <2>2. NoStale(f) /\ LoopMended(ready, d, V, R)
    BY <2>1, NotOutdated
  <2>3. GrownFor(ready, ready', d, N) /\ \A t \in N : t.task = "send" /\ t.to = d => t.msg \notin V
    BY <1>4
  <2>4. OldSets(f)' = V /\ Rights(f)' = R
    BY <1>1 DEF OldSets, Rights
  <2> HIDE DEF R, V, N
  <2>5. LoopMended(ready', d, V, R)
    BY <1>4, <2>2, <2>3, GrownMended
  <2>6. NoStale(f)'
    BY <1>3, <2>2 DEF EchoStays
  <2>7. Settled(d, f)'
    BY <2>4, <2>5, <2>6 DEF Settled
  <2>8. ASSUME Served(d)' PROVE Arrives(d, f)'
    <3>1. Line(d)' = Append(<<>>, Snapshot(session)) /\ <<>> \in Seq(Message)
      BY <1>1, <1>6, <2>8 DEF Served, s
    <3>2. TasksBounded(ready', session.v)
      BY <1>1 DEF VersionInv
    <3> QED
      BY <1>1, <1>4, <2>5, <2>6, <3>1, <3>2, SnapshotArrives DEF R, V
  <2> QED
    BY <2>7, <2>8 DEF FieldOK
<1> QED
  BY <1>5, <1>6

(* A handler that has not to be waited for, and sends m to everybody.      *)
LEMMA HandlerClients ==
    ASSUME Known, NEW h \in Handlers, NEW x, pc[h] # "closing", pc' = [pc EXCEPT ![h] = x],
           UNCHANGED <<reg, up, chan, asks, link, view, synced, jumped>>, NEW d \in Devices
    PROVE  Stays(d) /\ (Served(d)' => Served(d))
<1>1. Connected(d)' => link[d] \in Conns /\ link[d] \in Handlers
  BY ConnTypes DEF Connected
<1>2. Connected(d)' => (pc[link[d]] = "closing" => pc'[link[d]] = "closing")
  BY <1>1 DEF Known, Types
<1> QED
  BY <1>2, SameClients DEF Connected

LEMMA MutationLoop ==
    ASSUME TurnInv, Known, Known', Durable, NEW h \in Handlers,
           NEW kind \in Announced \cup Unannounced, NEW next, NEW m, Mutation(h, kind, next, m)
    PROVE  /\ Grown(ready, ready', 0, Sends(h, m))
           /\ \A d : GrownFor(ready, ready', d, Sends(h, m))
           /\ \A d \in Devices : reg[d] # NoConn =>
                 \E z \in DOMAIN ready' : z > Len(ready) /\ To(ready', d, z) /\ ready'[z].msg = m
           /\ \A i \in DOMAIN ready : ready[i] # Resume(h)
           /\ h \notin Savers("core") \cup Savers("tests")
<1>1. ready \in Seq(Task) /\ Grown(ready, ready, 0, {})
  BY GrownItself, LineTypes DEF Known, Typed, LoopTyped
<1>2. \A i \in DOMAIN ready : i <= 0 => ready[i].task = "resume"
  BY <1>1
<1>3. Broadcast(ready, h, m) /\ m \in Message /\ pc[h] = "reading"
  BY MutationEffect
<1>4. /\ Grown(ready, ready', 0, Sends(h, m))
      /\ \A d : GrownFor(ready, ready', d, Sends(h, m))
      /\ \A d \in Registered :
             \E z \in DOMAIN ready' : z > Len(ready) /\ To(ready', d, z) /\ ready'[z].msg = m
  BY <1>1, <1>2, <1>3, BroadcastFor
<1>5. \A i \in DOMAIN ready : ready[i] # Resume(h)
  BY <1>3 DEF TurnInv, Turn, Waiting
<1> QED
  BY <1>3, <1>4, <1>5 DEF Registered, Savers

(* Who has written the status will echo it, after the others.              *)
LEMMA CoreToEcho ==
    ASSUME TurnInv, Known, Known', Durable, NEW h \in Handlers,
           NEW next, NEW m, Mutation(h, "core", next, m)
    PROVE  Echo("core")'
<1>0. "core" \in Announced \cup Unannounced /\ "core" \in Fields /\ FieldOf("core") = "core"
  BY FieldsAre DEF Announced, FieldOf
<1>1. /\ running = NoConn /\ pc[h] = "reading" /\ pc' = [pc EXCEPT ![h] = "saving"]
      /\ req' = [req EXCEPT ![h] = [kind |-> "core", stamp |-> clock + 1]]
      /\ session'.data["core"] = clock + 1
  BY <1>0, MutationEffect
<1>2. /\ Grown(ready, ready', 0, Sends(h, m))
      /\ \A i \in DOMAIN ready : ready[i] # Resume(h)
  BY <1>0, MutationLoop
<1>3. /\ pc'[h] = "saving" /\ req'[h].kind = "core" /\ req'[h].stamp = session'.data["core"]
      /\ \A g \in Handlers : g # h => pc'[g] = pc[g]
  BY <1>1 DEF Known, Types
<1>4. h \in Savers("core")' \ Stale'
  BY <1>3 DEF Savers, Stale
<1>5. ASSUME NEW g \in Stale', NEW j \in DOMAIN ready', ready'[j] = Resume(h)
      PROVE  \E i \in DOMAIN ready' : i < j /\ ready'[i] = Resume(g)
  <2>1. g \in Handlers /\ g # h /\ pc[g] = "saving" /\ running # g
    <3>1. g \in Handlers /\ pc'[g] = "saving" /\ g # h
      BY <1>4, <1>5 DEF Stale, Savers
    <3> QED
      BY <1>1, <1>3, <3>1, BoundAssumption DEF Handlers, Conns, Agent, NoConn
  <2>2. PICK i \in DOMAIN ready : ready[i] = Resume(g)
    BY <2>1 DEF TurnInv, Turn, Waiting
  <2>3. ready \in Seq(Task) /\ ready' \in Seq(Task)
    BY DEF Known, Typed, LoopTyped
  <2>4. /\ \A l \in DOMAIN ready : l \in Nat /\ (l > 0 => l - 0 \in DOMAIN ready' /\ ready'[l - 0] = ready[l])
        /\ j \in Nat
        /\ \/ j + 0 \in DOMAIN ready /\ ready'[j] = ready[j + 0]
           \/ j + 0 > Len(ready)
    BY <1>2, <2>3, GrownIndices
  <2>5. j > Len(ready) /\ Len(ready) \in Nat
    BY <1>2, <1>5, <2>3, <2>4
  <2>6. i \in Nat /\ i > 0 /\ i <= Len(ready) /\ i - 0 = i
    BY <2>3
  <2> QED
    BY <2>2, <2>4, <2>5, <2>6
<1>6. GoesLast(ready', h, Stale')
  BY <1>5 DEF GoesLast
<1> QED
  BY <1>4, <1>6 DEF Echo

LEMMA MutationField ==
    ASSUME FieldInv, TurnInv, Known, Known', Durable, NEW h \in Handlers,
           NEW kind \in Announced \cup Unannounced, NEW next, NEW m, Mutation(h, kind, next, m),
           NEW d \in Devices, NEW f \in Fields \ silent'[d]
    PROVE  FieldOK(d, f)'
<1>1. /\ pc[h] = "reading" /\ pc' = [pc EXCEPT ![h] = "saving"]
      /\ req' = [req EXCEPT ![h] = [kind |-> kind, stamp |-> clock + 1]]
      /\ UNCHANGED <<reg, dev, up, chan, asks, link, view, synced, jumped>>
      /\ clock' = clock + 1 /\ m \in Message
      /\ silent'[d] = (silent[d] \ IF kind = "chat" THEN {} ELSE {FieldOf(kind)})
                          \cup IF kind = "associate" THEN {"device"} ELSE {}
      /\ \A g \in Fields : session'.data[g] =
            IF kind # "chat" /\ (g = FieldOf(kind) \/ (kind = "associate" /\ g = "device"))
            THEN clock + 1 ELSE session.data[g]
      /\ kind = "chat" => m = [kind |-> "chat", msg |-> clock + 1]
      /\ kind # "chat" =>
            m = IF kind \in Announced THEN Update(kind) ELSE Set(FieldOf(kind), clock + 1)
  BY MutationEffect
<1>2. /\ Grown(ready, ready', 0, Sends(h, m))
      /\ GrownFor(ready, ready', d, Sends(h, m))
      /\ reg[d] # NoConn =>
            \E z \in DOMAIN ready' : z > Len(ready) /\ To(ready', d, z) /\ ready'[z].msg = m
      /\ h \notin Savers("core") \cup Savers("tests")
  BY MutationLoop
<1>3. Stays(d) /\ (Served(d)' => Served(d))
  BY <1>1, HandlerClients
<1>4. pc'[h] = "saving" /\ req'[h].kind = kind
      /\ \A g \in Handlers : g # h => pc'[g] = pc[g] /\ req'[g] = req[g]
  BY <1>1 DEF Known, Types
<1>5. ASSUME kind = "chat" \/ f # FieldOf(kind) PROVE FieldOK(d, f)'
  <2>1. f \notin silent[d] /\ session'.data[f] = session.data[f]
    BY <1>1, <1>5
  <2>2. EchoStays(f)
    <3>1. CASE f = "tests"
      <4>1. Savers("tests") \subseteq Savers("tests")'
        BY <1>2, <1>4 DEF Savers
      <4> QED
        BY <3>1, <4>1, TestsEchoStays
    <3>2. CASE f = "core"
      <4>1. kind # "core"
        BY <1>5, <3>2 DEF FieldOf
      <4>2. Savers("core")' = Savers("core") /\ \A g \in Savers("core") : req'[g] = req[g]
        BY <1>2, <1>4, <4>1 DEF Savers
      <4>3. EchoLoop
        <5>1. \A t \in Sends(h, m) : \A g \in Savers("core") : t # Resume(g)
          BY <1>2, SendsIs
        <5>2. \A i \in DOMAIN ready : ~(i <= 0)
          BY DEF Known, Typed, LoopTyped
        <5> QED
          BY <1>2, <5>1, <5>2 DEF EchoLoop
      <4> QED
        BY <2>1, <3>2, <4>2, <4>3, CoreEchoStays
    <3> QED
      BY <3>1, <3>2, OtherEchoStays
  <2>3. ~Wrong(m, f, session.data[f])
    <3>1. CASE kind = "chat"
      BY <1>1, <3>1 DEF Wrong
    <3>2. CASE kind # "chat"
      BY <1>1, <1>5, <3>2, MutationSays DEF Wrong
    <3> QED
      BY <3>1, <3>2
  <2>4. \A t \in Sends(h, m) : t.task = "send" /\ t.to = d => ~Wrong(t.msg, f, session.data[f])
    BY <2>3, SendsIs
  <2> QED
    BY <1>1, <1>2, <1>3, <2>1, <2>2, <2>4, FieldIdle
<1>6. ASSUME kind # "chat", f = FieldOf(kind) PROVE FieldOK(d, f)'
  <2>1. CASE f = "core"
    <3>1. kind = "core"
      BY <1>6, <2>1 DEF FieldOf
    <3> QED
      BY <2>1, <3>1, CoreToEcho DEF FieldOK
  <2>2. CASE f = "tests"
    <3>1. kind = "tests"
      BY <1>6, <2>2 DEF FieldOf
    <3>2. h \in Savers("tests")'
      BY <1>4, <3>1 DEF Savers
    <3> QED
      BY <2>2, <3>2 DEF FieldOK, Echo
  <2>3. CASE f \notin {"core", "tests"}
    <3>1. Right(m, f, session'.data[f])
      <4>1. /\ m.field = f /\ m.val = clock + 1
            /\ m.kind = IF f \in Context THEN "update" ELSE "set"
        BY <1>1, <1>6, <2>3, MutationSays
      <4>2. session'.data[f] = clock + 1
        BY <1>1, <1>6
      <4> QED
        BY <4>1, <4>2 DEF Right
    <3>2. NoStale(f)' /\ ready \in Seq(Task)
      BY <2>3 DEF NoStale, Known, Typed, LoopTyped
    <3> QED
      BY <1>1, <1>2, <3>1, <3>2, FieldSent
  <2> QED
    BY <2>1, <2>2, <2>3
<1> QED
  BY <1>5, <1>6

(* Of several that have to echo a status, the last one's is right: so one  *)
(* that echoes another, or waits behind nobody.                            *)
LEMMA CoreEchoed ==
    ASSUME TurnInv, Known, Known', NEW h \in Savers("core"), Resumed(h),
           NEW n \in {0, 1}, NEW N, Grown(ready, ready', n, N),
           \A i \in DOMAIN ready : i <= n => ready[i] = Resume(h),
           \A t \in N : \A g : t = Resume(g) => g = h,
           pc' = [pc EXCEPT ![h] = "echoing"], UNCHANGED <<req, session>>,
           Echo("core") \/ NoStale("core")
    PROVE  \/ Registered = {}
           \/ Echo("core")'
           \/ h \notin Stale /\ NoStale("core")'
<1>1. /\ pc'[h] = "echoing" /\ \A g \in Handlers : g # h => pc'[g] = pc[g]
      /\ h \in Handlers /\ pc[h] = "saving"
  BY DEF Known, Types, Savers
<1>2. Savers("core")' = Savers("core") \ {h} /\ Stale' = Stale \ {h}
  BY <1>1 DEF Savers, Stale
<1>3. ready \in Seq(Task) /\ ready' \in Seq(Task)
  BY DEF Known, Typed, LoopTyped
<1>4. ASSUME NEW g \in Savers("core") \ Stale, GoesLast(ready, g, Stale), g # h PROVE Echo("core")'
  <2> DEFINE H == Savers("core") \ {h}
  <2>1. \A i \in DOMAIN ready : i <= n => \A e \in H : ready[i] # Resume(e)
    BY DEF Resume
  <2>2. \A t \in N : \A e \in H : t # Resume(e)
    OBVIOUS
  <2>3. g \in H /\ Stale' \subseteq Stale /\ Stale' \subseteq H
    BY <1>2, <1>4 DEF Stale
  <2> HIDE DEF H
  <2>4. GoesLast(ready', g, Stale')
    BY <1>3, <1>4, <2>1, <2>2, <2>3, GoesLastStays
  <2> QED
    BY <1>2, <1>4, <2>4 DEF Echo
<1>5. ASSUME h \notin Stale, GoesLast(ready, h, Stale) PROVE Registered = {} \/ Stale = {}
  <2>1. CASE running = h
    BY <1>1, <2>1 DEF TurnInv
  <2>2. CASE running # h
    <3>1. ready # <<>> /\ ready[1] = Resume(h)
      BY <2>2 DEF Resumed
    <3>2. 1 \in DOMAIN ready /\ \A i \in DOMAIN ready : ~(i < 1)
      BY <1>3, <3>1, TailIndices
    <3> QED
      BY <1>5, <3>1, <3>2 DEF GoesLast
  <2> QED
    BY <2>1, <2>2
<1>6. CASE NoStale("core")
  BY <1>2, <1>6 DEF NoStale
<1>7. CASE Echo("core")
  <2>1. PICK g \in Savers("core") \ Stale : GoesLast(ready, g, Stale)
    BY <1>7 DEF Echo
  <2> QED
    BY <1>2, <1>4, <1>5, <2>1 DEF NoStale
<1> QED
  BY <1>6, <1>7

LEMMA EchoField ==
    ASSUME FieldInv, TurnInv, Known, Known', Durable, NEW h \in Handlers, HubSave(h),
           req[h].kind \in {"core", "tests"}, NEW d \in Devices, NEW f \in Fields \ silent'[d]
    PROVE  FieldOK(d, f)'
<1> DEFINE kind == req[h].kind
           m == Set(kind, IF kind = "core" THEN req[h].stamp ELSE session.data["tests"])
           N == Sends(h, m)
<1>1. /\ m \in Message /\ m.kind = "set" /\ m.field = kind /\ kind \in Fields
      /\ pc[h] = "saving" /\ pc' = [pc EXCEPT ![h] = "echoing"]
      /\ Resumed(h) /\ Broadcast(Rest, h, m) /\ Rest \in Seq(Task)
      /\ \E n \in {0, 1} : /\ Grown(ready, Rest, n, {})
                           /\ \A i \in DOMAIN ready : i <= n => ready[i] = Resume(h)
      /\ UNCHANGED <<session, silent, req, reg, up, chan, asks, link, view, synced, jumped>>
  BY EchoEffect
<1>2. m.val = IF kind = "core" THEN req[h].stamp ELSE session.data["tests"]
  BY DEF Set
<1> HIDE DEF m
<1>3. PICK n \in {0, 1} : /\ Grown(ready, Rest, n, {})
                          /\ \A i \in DOMAIN ready : i <= n => ready[i] = Resume(h)
  BY <1>1
<1>4. /\ Grown(ready, ready', n, N)
      /\ GrownFor(ready, ready', d, N) /\ GrownFor(Rest, ready', d, N)
      /\ \A e \in Registered :
            \E z \in DOMAIN ready' : z > Len(Rest) /\ To(ready', e, z) /\ ready'[z].msg = m
  <2>1. \A i \in DOMAIN ready : i <= n => ready[i].task = "resume"
    BY <1>3 DEF Resume
  <2> QED
    BY <1>1, <1>3, <2>1, BroadcastFor
<1>5. /\ \A t \in N : t.task = "send" => t.msg = m
      /\ \A t \in N : \A g : t = Resume(g) => g = h
  BY SendsIs
<1> HIDE DEF N
<1>6. Stays(d) /\ (Served(d)' => Served(d)) /\ f \notin silent[d] /\ FieldOK(d, f)
  BY <1>1, HandlerClients DEF FieldInv
<1>7. /\ pc'[h] = "echoing" /\ \A g \in Handlers : g # h => pc'[g] = pc[g]
  BY <1>1 DEF Known, Types
<1>8. ASSUME f # kind PROVE FieldOK(d, f)'
  <2>1. EchoStays(f)
    <3>1. CASE f = "tests"
      <4>1. Savers("tests") \subseteq Savers("tests")'
        BY <1>1, <1>7, <1>8, <3>1 DEF Savers
      <4> QED
        BY <3>1, <4>1, TestsEchoStays
    <3>2. CASE f = "core"
      <4>1. h \notin Savers("core")
        BY <1>8, <3>2 DEF Savers
      <4>2. Savers("core")' = Savers("core") /\ \A g \in Savers("core") : req'[g] = req[g]
        BY <1>1, <1>7, <4>1 DEF Savers
      <4>3. \A i \in DOMAIN ready : i <= n => \A g \in Savers("core") : ready[i] # Resume(g)
        BY <1>3, <4>1 DEF Resume
      <4>4. \A t \in N : \A g \in Savers("core") : t # Resume(g)
        BY <1>5, <4>1
      <4>5. EchoLoop
        BY <1>4, <4>3, <4>4 DEF EchoLoop
      <4> QED
        BY <1>1, <3>2, <4>2, <4>5, CoreEchoStays
    <3> QED
      BY <3>1, <3>2, OtherEchoStays
  <2>2. \A t \in N : t.task = "send" /\ t.to = d => ~Wrong(t.msg, f, session.data[f])
    BY <1>1, <1>5, <1>8 DEF Wrong
  <2> QED
    BY <1>1, <1>4, <1>6, <2>1, <2>2, FieldIdle
<1>9. ASSUME f = kind, Right(m, f, session.data[f]), NoStale(f)' PROVE FieldOK(d, f)'
  <2>1. reg[d] # NoConn =>
            \E z \in DOMAIN ready' : z > Len(Rest) /\ To(ready', d, z) /\ ready'[z].msg = m
    BY <1>4 DEF Registered
  <2>2. Right(m, f, session'.data[f]) /\ UNCHANGED reg /\ GrownFor(Rest, ready', d, Sends(h, m))
    BY <1>1, <1>4, <1>9 DEF N
  <2> QED
    BY <1>1, <1>9, <2>1, <2>2, FieldSent
<1>10. CASE f = kind /\ kind = "tests"
  <2>1. Right(m, f, session.data[f])
    BY <1>1, <1>2, <1>10 DEF Right, Context
  <2>2. NoStale(f)'
    BY <1>10 DEF NoStale
  <2> QED
    BY <1>9, <1>10, <2>1, <2>2
<1>11. CASE f = kind /\ kind = "core"
  <2>1. h \in Savers("core")
    BY <1>1, <1>11 DEF Savers
  <2>2. Served(d)' => reg'[d] # NoConn
    BY ConnTypes DEF Served, Connected
  <2>3. CASE reg'[d] = NoConn
    BY <2>2, <2>3 DEF FieldOK
  <2>4. CASE reg'[d] # NoConn
    <3>1. Echo("core") \/ NoStale("core")
      BY <1>1, <1>6, <1>11, <2>4 DEF FieldOK, Settled
    <3>2. Registered # {}
      BY <1>1, <2>4 DEF Registered
    <3>3. \/ Echo("core")'
          \/ h \notin Stale /\ NoStale("core")'
      BY <1>1, <1>3, <1>4, <1>5, <2>1, <3>1, <3>2, CoreEchoed
    <3>4. h \notin Stale => Right(m, f, session.data[f])
      BY <1>1, <1>2, <1>11, <2>1 DEF Right, Context, Stale
    <3> QED
      BY <1>9, <1>11, <3>3, <3>4 DEF FieldOK
  <2> QED
    BY <2>3, <2>4
<1> QED
  BY <1>1, <1>8, <1>10, <1>11

(* What reading the head of its line does to the field f of the client d.  *)
LEMMA ReadBrings ==
    ASSUME Known, LaneInv, NEW d \in Devices, Connected(d), NEW f \in Fields,
           Line(d) # <<>>, d \notin synced => Line(d)[1].kind = "snapshot",
           \/ d \in synced \ jumped
           \/ \E i \in DOMAIN Tail(Line(d)) : Tail(Line(d))[i].kind = "snapshot"
           \/ Line(d)[1].kind = "snapshot",
           Arrives(d, f)
    PROVE  \/ Applied(view[d], Line(d)[1]).data[f] = session.data[f]
           \/ Comes(Tail(Line(d)), ready, d, Rights(f))
<1> DEFINE c == Line(d)
           m == c[1]
<1>0. /\ c \in Seq(Message) /\ c # <<>> /\ c = Line(d) /\ m = c[1]
      /\ d \notin synced => m.kind = "snapshot"
      /\ \/ d \in synced \ jumped
         \/ \E i \in DOMAIN Tail(c) : Tail(c)[i].kind = "snapshot"
         \/ m.kind = "snapshot"
  BY LineTypes
<1> HIDE DEF c, m
<1> DEFINE t == Tail(c)
           R == Rights(f)
           W == Wrongs(d, f)
           x == session.data[f]
           a == Applied(view[d], m)
<1>1. /\ 1 \in DOMAIN c /\ m \in Message
      /\ \A i \in DOMAIN t : t[i] \in Message
      /\ \A i \in DOMAIN c : i # 1 => \E j \in DOMAIN t : t[j] = c[i]
  <2>1. /\ 1 \in DOMAIN c /\ c[1] \in Message /\ t \in Seq(Message)
        /\ \A i \in DOMAIN c : i # 1 => i - 1 \in DOMAIN t /\ t[i - 1] = c[i]
    BY <1>0, TailIndices
  <2> HIDE DEF t
  <2> QED
    BY <1>0, <2>1
<1>2. /\ Mended(c, ready, d, W, R)
      /\ view[d].data[f] = x \/ Comes(c, ready, d, R)
  BY <1>0 DEF Arrives
<1>3. view[d] \in ViewType
  BY LineTypes
<1> HIDE DEF t, R, W
<1>4. /\ m \in W => Comes(t, ready, d, R)
      /\ (\E i \in DOMAIN t : t[i] \in W) => Comes(t, ready, d, R)
      /\ Comes(c, ready, d, R) => Comes(t, ready, d, R) \/ m \in R
  BY <1>0, <1>2, ReadMends DEF t
<1>5. \A n \in Message : n.kind = "snapshot" => n \in R \/ n \in W
  BY RightOrWrong DEF R, W, Rights, Wrongs, Passed
(* A snapshot that follows brings the value, or another after it does.     *)
<1>6. (\E i \in DOMAIN t : t[i].kind = "snapshot") => Comes(t, ready, d, R)
  BY <1>1, <1>4, <1>5 DEF Comes
<1> SUFFICES a.data[f] = x \/ Comes(t, ready, d, R)
  BY DEF c, m, t, R
<1>7. CASE m.kind = "snapshot"
  <2>1. a.data = m.data
    BY <1>1, <1>3, <1>7, AppliedIs
  <2>2. m \in R => m.data[f] = x
    BY <1>7 DEF R, Rights, Right
  <2> QED
    BY <1>1, <1>4, <1>5, <1>7, <2>1, <2>2 DEF t, R
<1>8. CASE m.kind = "set"
  <2>1. /\ a.data[m.field] = m.val /\ m.field \in Fields
        /\ \A g \in Fields : g # m.field => a.data[g] = view[d].data[g]
    BY <1>1, <1>3, <1>8, AppliedIs
  <2>2. CASE f # m.field
    <3>1. m \notin R
      BY <1>8, <2>2 DEF R, Rights, Right
    <3> QED
      BY <1>2, <1>4, <2>1, <2>2, <3>1 DEF t, R
  <2>3. CASE f = m.field
    <3>1. m.val # x => m \in W
      BY <1>1, <1>8, <2>3 DEF W, Wrongs, Wrong, Passed
    <3> QED
      BY <1>4, <2>1, <2>3, <3>1 DEF t, R
  <2> QED
    BY <2>2, <2>3
<1>9. CASE m.kind = "update"
  <2>1. d \in synced
    BY <1>0, <1>9
  <2>2. CASE m.v <= view[d].v
    <3>1. a = view[d]
      BY <1>1, <1>3, <1>9, <2>2, AppliedIs
    <3>2. CASE m \notin R
      BY <1>2, <1>4, <3>1, <3>2 DEF t, R
    <3>3. CASE m \in R
      <4>1. f \in Context /\ m.field = f /\ m.val = x
        BY <1>9, <3>3 DEF R, Rights, Right
      <4>2. CASE d \in jumped
        BY <1>0, <1>6, <1>9, <4>2 DEF t, R
      <4>3. CASE d \notin jumped
        <5>1. OnWay(m, Line(d), ready, d) /\ Sees(d)
          BY <1>0, <1>1, <2>1, <4>3, OnWayIs DEF Sees
        <5>2. Comprises(d, m)
          BY <1>9, <4>1, <5>1 DEF LaneInv, Lane
        <5>3. view[d].data[f] = x
          BY <2>2, <4>1, <5>1, <5>2 DEF Comprises
        <5> QED
          BY <3>1, <5>3
      <4> QED
        BY <4>2, <4>3
    <3> QED
      BY <3>2, <3>3
  <2>3. CASE ~(m.v <= view[d].v)
    <3>1. /\ a.data[m.field] = m.val
          /\ \A g \in Fields : g # m.field => a.data[g] = view[d].data[g]
      BY <1>1, <1>3, <1>9, <2>3, AppliedIs
    <3>2. CASE f # m.field
      <4>1. m \notin R
        BY <1>9, <3>2 DEF R, Rights, Right
      <4> QED
        BY <1>2, <1>4, <3>1, <3>2, <4>1 DEF t, R
    <3>3. CASE f = m.field
      <4>1. CASE m.val = x
        BY <3>1, <3>3, <4>1
      <4>2. CASE m.val # x /\ ~Passed(d, m)
        <5>1. m \in W
          BY <1>1, <1>9, <3>3, <4>2 DEF W, Wrongs, Wrong
        <5> QED
          BY <1>4, <5>1 DEF t, R
      <4>3. CASE Passed(d, m)
        <5>1. PICK i \in DOMAIN c : c[i].kind = "snapshot"
          BY <1>0, <2>1, <2>3, <4>3 DEF Passed
        <5>2. i # 1
          BY <1>0, <1>9, <5>1
        <5>3. \E j \in DOMAIN t : t[j].kind = "snapshot"
          BY <1>1, <5>1, <5>2
        <5> QED
          BY <1>6, <5>3 DEF t, R
      <4> QED
        BY <4>1, <4>2, <4>3
    <3> QED
      BY <3>2, <3>3
  <2> QED
    BY <2>2, <2>3
<1>10. CASE m.kind \in {"chat", "rejected"}
  <2>1. a.data = view[d].data
    BY <1>1, <1>3, <1>10, AppliedIs
  <2>2. m \notin R
    BY <1>10 DEF R, Rights, Right
  <2> QED
    BY <1>2, <1>4, <2>1, <2>2 DEF t, R
<1> QED
  BY <1>1, <1>3, <1>7, <1>8, <1>9, <1>10, AppliedIs

LEMMA ReceiveField ==
    ASSUME FieldInv, LaneInv, OwnInv, VersionInv, Known, Known', NEW e \in Devices, Receive(e),
           NEW d \in Devices, NEW f \in Fields \ silent'[d]
    PROVE  FieldOK(d, f)'
<1>1. /\ UNCHANGED <<session, silent, ready, pc, req, reg, up, link>>
      /\ \A k \in Conns : k # link[e] => asks'[k] = asks[k]
  BY ConnTypes DEF Receive, sessionVars, loopVars, Known, Typed, WireTyped
<1>2. /\ Connected(d)' <=> Connected(d)
      /\ d # e => Stays(d)
      /\ ~Connected(d) => Line(d) = <<>> /\ Line(d)' = <<>>
      /\ d = e /\ Connected(d) =>
            /\ Line(d) # <<>> /\ Line(d)[1] \in Message /\ Line(d)' = Tail(Line(d))
            /\ d \notin synced => Line(d)[1].kind = "snapshot"
  BY ReadEffect
<1>3. ready \in Seq(Task) /\ Line(d) \in Seq(Message)
  BY LineTypes
<1>4. EchoStays(f) /\ FieldOK(d, f)
  <2>1. LoopIdle /\ SaversStay
    BY <1>1, SameLoop, SaversAsBefore
  <2> QED
    BY <1>1, <2>1, IdleEchoLoop, SaversEchoStays DEF FieldInv
<1>5. CASE ~(d = e /\ Connected(d))
  <2>1. Stays(d)
    BY <1>2, <1>5 DEF Stays
  <2>2. GrownFor(ready, ready', d, {})
    BY <1>1, <1>3, SameFor
  <2>3. Served(d)' => Served(d)
    <3>1. Served(d)' => Line(d)' = Line(d) /\ link[d] \in Conns /\ link[d] # link[e]
      BY <1>1, <1>5, <1>2, <2>1, StaysLine, ConnTypes DEF Served, OwnInv, Receive
    <3>2. Served(d)' => (d \in (synced \ jumped)' <=> d \in synced \ jumped)
      BY <2>1 DEF Served, Stays
    <3> QED
      BY <1>1, <1>2, <3>1, <3>2 DEF Served
  <2>4. \A t \in {} : t.task = "send" /\ t.to = d => ~Wrong(t.msg, f, session.data[f])
    OBVIOUS
  <2> QED
    BY <1>1, <1>4, <2>1, <2>2, <2>3, <2>4, FieldIdle
<1>6. CASE d = e /\ Connected(d)
  <2> DEFINE c == Line(d)
             m == c[1]
             t == Tail(c)
  <2>1. /\ c # <<>> /\ m \in Message /\ Line(d)' = t /\ (d \notin synced => m.kind = "snapshot")
        /\ c = chan[link[d]] /\ m = chan[link[d]][1] /\ link[d] \in Conns
    BY <1>2, <1>6, LineTypes
  <2>2. /\ \A i \in DOMAIN t : \E j \in DOMAIN c : t[i] = c[j]
        /\ \A i \in DOMAIN c : c[i] = m \/ \E j \in DOMAIN t : t[j] = c[i]
        /\ 1 \in DOMAIN c
    BY <1>3, <2>1, TailIndices
  <2> HIDE DEF c, m, t
  <2>3. \/ /\ m.kind = "update" /\ UNCHANGED <<view, synced, jumped>>
           /\ asks'[link[d]] = IF up[link[d]] THEN asks[link[d]] + 1 ELSE asks[link[d]]
        \/ /\ view'[d] = Applied(view[d], m) /\ UNCHANGED asks
           /\ \/ m.kind = "snapshot" /\ synced' = synced \cup {d} /\ jumped' = jumped \ {d}
              \/ /\ m.kind # "snapshot" /\ UNCHANGED synced
                 /\ IF m.kind = "rejected" /\ m.v > view[d].v THEN jumped' = jumped \cup {d}
                    ELSE jumped' \in {jumped, jumped \cup {d}}
    BY <1>6, <2>1, ReadView
  <2>4. reg'[d] # NoConn => Echo(f)' \/ Settled(d, f)'
    <3>1. OldSets(f)' = OldSets(f) /\ Rights(f)' = Rights(f)
      BY <1>1 DEF OldSets, Rights
    <3> QED
      BY <1>1, <1>4, <3>1 DEF FieldOK, Settled, EchoStays
  <2>5. ASSUME Served(d)' PROVE Echo(f)' \/ Arrives(d, f)'
    <3>1. /\ view'[d] = Applied(view[d], m) /\ UNCHANGED asks
          /\ \/ m.kind = "snapshot" /\ synced' = synced \cup {d} /\ jumped' = jumped \ {d}
             \/ /\ m.kind # "snapshot" /\ UNCHANGED synced
                /\ jumped' \in {jumped, jumped \cup {d}}
      <4>1. up[link[d]] /\ asks'[link[d]] = 0
        BY <1>1, <2>5 DEF Served, Connected
      <4>2. asks[link[d]] + 1 # 0
        BY <2>1 DEF Known, Typed, WireTyped
      <4> QED
        BY <2>3, <4>1, <4>2
    <3>2. Served(d)' => /\ Connected(d) /\ pc[link[d]] # "closing" /\ asks[link[d]] = 0
                        /\ d \in synced' \ jumped' \/ \E i \in DOMAIN t : t[i].kind = "snapshot"
      BY <1>1, <1>2, <2>1, <3>1 DEF Served
    <3>3. Served(d)
      <4>1. CASE m.kind = "snapshot"
        BY <2>2, <2>5, <3>2, <4>1 DEF Served, m, c
      <4>2. CASE m.kind # "snapshot"
        BY <2>2, <2>5, <3>1, <3>2, <4>2 DEF Served, c
      <4> QED
        BY <4>1, <4>2
    <3>4. Echo(f) \/ Arrives(d, f)
      BY <1>4, <3>3 DEF FieldOK
    <3>5. ASSUME Arrives(d, f) PROVE Arrives(d, f)'
      <4>1. view'[d].data[f] = session.data[f] \/ Comes(t, ready, d, Rights(f))
        <5>1. \/ d \in synced \ jumped
              \/ \E i \in DOMAIN t : t[i].kind = "snapshot"
              \/ m.kind = "snapshot"
          BY <2>5, <3>1, <3>2
        <5>2. c = Line(d) /\ m = Line(d)[1] /\ t = Tail(Line(d))
          BY DEF c, m, t
        <5>3. \/ Applied(view[d], Line(d)[1]).data[f] = session.data[f]
              \/ Comes(Tail(Line(d)), ready, d, Rights(f))
          BY <1>6, <2>1, <3>5, <5>1, <5>2, ReadBrings
        <5> QED
          BY <1>1, <3>1, <5>2, <5>3
      <4>2. Wrongs(d, f)' \subseteq Wrongs(d, f)
        <5> SUFFICES ASSUME NEW n \in Message, Passed(d, n) PROVE Passed(d, n)'
          BY <1>1 DEF Wrongs
        <5>1. n.kind = "update" /\ n.v \in Nat
          BY DEF Passed, Message
        <5>2. d \in synced /\ n.v <= view[d].v => d \in synced' /\ n.v <= view'[d].v
          <6>1. ASSUME d \in synced PROVE d \in synced' /\ view'[d].v >= view[d].v
            <7>1. view'[d].v >= view[d].v
              BY <1>1, <6>1, StepRises DEF Next, ClientStep
            <7> QED
              BY <3>1, <6>1, <7>1
          <6>2. view[d].v \in Nat /\ view'[d].v \in Nat
            BY DEF Known, Typed, ClientTyped, ViewType
          <6> QED
            BY <5>1, <6>1, <6>2
        <5>3. ASSUME NEW i \in DOMAIN c, c[i].kind = "snapshot", n.v <= c[i].v
              PROVE  Passed(d, n)'
          <6>1. CASE c[i] = m
            <7>1. view[d] \in ViewType
              BY LineTypes
            <7>2. Applied(view[d], m).v = m.v
              BY <2>1, <5>3, <6>1, <7>1, AppliedIs
            <7>3. d \in synced' /\ view'[d].v = m.v
              BY <3>1, <5>3, <6>1, <7>2
            <7> QED
              BY <5>1, <5>3, <6>1, <7>3 DEF Passed
          <6>2. CASE c[i] # m
            BY <2>1, <2>2, <5>1, <5>3, <6>2 DEF Passed
          <6> QED
            BY <6>1, <6>2
        <5> QED
          BY <5>1, <5>2, <5>3 DEF Passed, c
      <4> DEFINE W == Wrongs(d, f)
                 V == Wrongs(d, f)'
                 R == Rights(f)
      <4>3. V \subseteq W /\ Mended(c, ready, d, W, R) /\ Rights(f)' = R
        BY <1>1, <3>5, <4>2 DEF Arrives, c, Rights
      <4> HIDE DEF W, V, R
      <4>4. Mended(t, ready, d, W, R)
        BY <1>3, <2>1, <4>3, ReadMends DEF c, t
      <4>5. Mended(t, ready, d, V, R)
        BY <4>3, <4>4, MendedMore
      <4> QED
        BY <1>1, <1>4, <2>1, <3>5, <4>1, <4>3, <4>5 DEF Arrives, EchoStays, V, R
    <3> QED
      BY <1>4, <3>4, <3>5 DEF EchoStays
  <2> QED
    BY <2>4, <2>5 DEF FieldOK
<1> QED
  BY <1>5, <1>6

LEMMA EventField ==
    ASSUME FieldInv, Known, Known', Durable, ToolEvent \/ AgentEvent,
           NEW d \in Devices, NEW f \in Fields \ silent'[d]
    PROVE  FieldOK(d, f)'
<1>1. PICK e \in {"core", "agent"}, m \in Message :
          /\ m.kind = "set" /\ m.field = e /\ m.val = clock + 1
          /\ ready' \in Seq(Task)
          /\ Grown(ready, ready', 0, Sends(Agent, m) \ {Resume(Agent)})
          /\ GrownFor(ready, ready', d, Sends(Agent, m))
          /\ reg[d] # NoConn =>
                \E z \in DOMAIN ready' : z > Len(ready) /\ To(ready', d, z) /\ ready'[z].msg = m
          /\ UNCHANGED <<pc, req, reg, dev, up, chan, asks, link, view, synced, jumped>>
          /\ silent'[d] = IF e = "core" THEN silent[d] \cup {"core"} ELSE silent[d] \ {"agent"}
          /\ \A g \in Fields : session'.data[g] =
                IF e = "agent" /\ g = "agent" THEN clock + 1 ELSE session.data[g]
  BY EventEffect
<1>2. Stays(d) /\ (Served(d)' => Served(d))
  BY <1>1, SameClients DEF Connected
<1>3. ready \in Seq(Task)
  BY DEF Known, Typed, LoopTyped
<1>4. CASE f # e
  <2>1. f \notin silent[d] /\ session'.data[f] = session.data[f]
    BY <1>1, <1>4
  <2>2. EchoLoop
    <3>1. \A t \in Sends(Agent, m) \ {Resume(Agent)} : \A g : t # Resume(g)
      BY SendsIs
    <3>2. \A i \in DOMAIN ready : ~(i <= 0)
      BY <1>3
    <3> QED
      BY <1>1, <3>1, <3>2 DEF EchoLoop
  <2>3. EchoStays(f)
    BY <1>1, <2>1, <2>2, SaversAsBefore, SaversEchoStays
  <2>4. \A t \in Sends(Agent, m) : t.task = "send" /\ t.to = d => ~Wrong(t.msg, f, session.data[f])
    BY <1>1, <1>4, SendsIs DEF Wrong
  <2> QED
    BY <1>1, <1>2, <2>1, <2>3, <2>4, FieldIdle
<1>5. CASE f = e
  <2>1. f = "agent" /\ session'.data[f] = clock + 1
    BY <1>1, <1>5
  <2>2. NoStale(f)'
    BY <2>1 DEF NoStale
  <2>3. f \notin Context /\ m.kind = "set" /\ m.field = f /\ m.val = session'.data[f]
    BY <1>1, <1>5, <2>1 DEF Context
  <2>4. Right(m, f, session'.data[f])
    BY <2>3 DEF Right
  <2> QED
    BY <1>1, <1>3, <2>2, <2>4, FieldSent
<1> QED
  BY <1>4, <1>5

LEMMA PanelField ==
    ASSUME FieldInv, Known, NEW e \in Devices, ToolPanel(e),
           NEW d \in Devices, NEW f \in Fields \ silent'[d]
    PROVE  FieldOK(d, f)'
<1>1. /\ UNCHANGED <<session, ready, pc, req, reg, up, chan, asks, link, synced, jumped>>
      /\ (Connected(d)' <=> Connected(d)) /\ Line(d)' = Line(d) /\ view'[d].v = view[d].v
      /\ view'[d].data[f] = view[d].data[f] /\ f \notin silent[d]
  BY PanelEffect
<1>2. Echo(f)' = Echo(f) /\ NoStale(f)' = NoStale(f)
  BY <1>1 DEF Echo, NoStale, Stale, Savers
<1>3. Wrongs(d, f)' = Wrongs(d, f) /\ Rights(f)' = Rights(f) /\ OldSets(f)' = OldSets(f)
  BY <1>1 DEF Wrongs, Passed, Rights, OldSets
<1>4. (Served(d)' => Served(d)) /\ FieldOK(d, f)
  BY <1>1 DEF Served, Connected, FieldInv
<1>5. (Settled(d, f) => Settled(d, f)') /\ (Arrives(d, f) => Arrives(d, f)')
  BY <1>1, <1>2, <1>3 DEF Settled, Arrives
<1> QED
  BY <1>1, <1>2, <1>4, <1>5 DEF FieldOK

LEMMA StepField ==
    ASSUME FieldInv, LaneInv, TurnInv, OwnInv, VersionInv, VersionInv', Known, Known', Durable,
           [Next]_vars
    PROVE  FieldInv'
<1> SUFFICES ASSUME NEW d \in Devices, NEW f \in Fields \ silent'[d] PROVE FieldOK(d, f)'
  BY DEF FieldInv
<1>1. CASE HubRestart
  <2>1. reg'[d] = NoConn
    BY <1>1 DEF HubRestart
  <2>2. ~Served(d)'
    BY <2>1 DEF Served, Connected
  <2> QED
    BY <2>1, <2>2 DEF FieldOK
<1> QED
  BY <1>1, StepIs, IdleField, MutationField, EchoField, SendField, RejectField, SnapshotField,
     GreetField, ReceiveField, EventField, PanelField

LEMMA InitField == Init => FieldInv
<1> SUFFICES ASSUME Init, NEW d \in Devices PROVE reg[d] = NoConn /\ ~Served(d)
  BY DEF FieldInv, FieldOK
<1> QED
  BY DEF Init, Served, Connected

-----------------------------------------------------------------------------
(* Chat messages: a client has every message of the session, or gets it,   *)
(* and no snapshot without it comes last.                                  *)

Lacks(x)  == {m \in Message : m.kind = "snapshot" /\ x \notin ToSet(m.msgs)}
Brings(x) == {m \in Message : \/ m.kind = "chat" /\ m.msg = x
                              \/ m.kind = "snapshot" /\ x \in ToSet(m.msgs)}

Tells(d, x) ==
    /\ Mended(Line(d), ready, d, Lacks(x), Brings(x))
    /\ x \in ToSet(view[d].msgs) \/ Comes(Line(d), ready, d, Brings(x))
ChatInv ==
    \A d \in Devices : Connected(d) /\ "messages" \notin silent[d] =>
        \A x \in ToSet(session.msgs) : Tells(d, x)

LEMMA ChatStays ==
    ASSUME ChatInv, Known, Known', NEW d \in Devices, Connected(d)', "messages" \notin silent[d],
           NEW x \in ToSet(session.msgs), Stays(d), NEW N, GrownFor(ready, ready', d, N),
           \A t \in N : t.task = "send" /\ t.to = d => t.msg.kind # "snapshot"
    PROVE  Tells(d, x)'
<1>1. ready \in Seq(Task) /\ ready' \in Seq(Task)
  BY DEF Known, Typed, LoopTyped
<1>2. Connected(d) /\ Line(d)' = Line(d) /\ view'[d] = view[d]
  BY StaysLine DEF Stays
<1>3. Tells(d, x)
  BY <1>2 DEF ChatInv
<1>4. \A t \in N : t.task = "send" /\ t.to = d => t.msg \notin Lacks(x)
  BY DEF Lacks
<1>5. /\ Mended(Line(d), ready, d, Lacks(x), Brings(x)) => Mended(Line(d), ready', d, Lacks(x), Brings(x))
      /\ Comes(Line(d), ready, d, Brings(x)) => Comes(Line(d), ready', d, Brings(x))
  BY <1>1, <1>4, GrownMended
<1> QED
  BY <1>2, <1>3, <1>5 DEF Tells

LEMMA IdleChat ==
    ASSUME ChatInv, Known, Known', Idle, NEW d \in Devices, Connected(d)',
           "messages" \notin silent'[d], NEW x \in ToSet(session'.msgs)
    PROVE  Tells(d, x)'
<1>1. "messages" \notin silent[d] /\ x \in ToSet(session.msgs) /\ Stays(d)
  BY DEF Idle, IdleFor, Unheard
<1>2. PICK N : GrownFor(ready, ready', d, N) /\ \A t \in N : t.task # "send"
  BY LoopIdleFor DEF Idle
<1> QED
  BY <1>1, <1>2, ChatStays

LEMMA SendChat ==
    ASSUME ChatInv, OwnInv, VersionInv, Known, Known', RunSend,
           NEW d \in Devices, Connected(d)', "messages" \notin silent'[d],
           NEW x \in ToSet(session'.msgs)
    PROVE  Tells(d, x)'
<1>1. /\ ready # <<>> /\ ready' = Tail(ready) /\ ready \in Seq(Task)
      /\ UNCHANGED <<session, silent, view>>
  BY DEF RunSend, sessionVars, clientVars, Known, Typed, LoopTyped
<1>2. /\ Connected(d)
      /\ IF To(ready, d, 1)
         THEN /\ ready[1].msg \in Message
              /\ Line(d)' = Append(Line(d), ready[1].msg)
         ELSE Stays(d) /\ \A N : GrownFor(ready, ready', d, N)
  BY SendEffect
<1>3. CASE ~To(ready, d, 1)
  <2>1. GrownFor(ready, ready', d, {}) /\ Stays(d)
    BY <1>2, <1>3
  <2>2. \A t \in {} : t.task = "send" /\ t.to = d => t.msg.kind # "snapshot"
    OBVIOUS
  <2> QED
    BY <1>1, <2>1, <2>2, ChatStays
<1>4. CASE To(ready, d, 1)
  <2>1. Tells(d, x) /\ Line(d) \in Seq(Message)
    BY <1>1, <1>2, LineTypes DEF ChatInv
  <2>2. LET b == Append(Line(d), ready[1].msg) IN
        /\ Mended(Line(d), ready, d, Lacks(x), Brings(x))
              => Mended(b, Tail(ready), d, Lacks(x), Brings(x))
        /\ Comes(Line(d), ready, d, Brings(x)) => Comes(b, Tail(ready), d, Brings(x))
    BY <1>1, <1>4, <2>1, MovedMends
  <2> QED
    BY <1>1, <1>2, <1>4, <2>1, <2>2 DEF Tells
<1> QED
  BY <1>3, <1>4

LEMMA RejectChat ==
    ASSUME ChatInv, OwnInv, Known, Known', NEW k \in Conns, HubReject(k),
           NEW d \in Devices, Connected(d)', "messages" \notin silent'[d],
           NEW x \in ToSet(session'.msgs)
    PROVE  Tells(d, x)'
<1> DEFINE m == [kind |-> "rejected", v |-> session.v]
           e == dev[k]
<1>1. /\ pc[k] = "reading" /\ chan' = Written(e, m)
      /\ UNCHANGED <<session, silent, ready, reg, up, link, view, synced, jumped>>
  BY DEF HubReject, sessionVars, loopVars, clientVars
<1>2. e \in Devices /\ m \in Message /\ m.kind = "rejected"
  BY <1>1, MessageTypes DEF OwnInv, Known
<1> HIDE DEF m, e
<1>3. Connected(d) /\ (d # e => Stays(d)) /\ (d = e => Line(d)' = Append(Line(d), m))
  BY <1>1, <1>2, WriteEffect
<1>4. ready \in Seq(Task) /\ Line(d) \in Seq(Message)
  BY LineTypes
<1>5. CASE d # e
  <2>1. GrownFor(ready, ready', d, {})
    BY <1>1, <1>4, SameFor
  <2>2. \A t \in {} : t.task = "send" /\ t.to = d => t.msg.kind # "snapshot"
    OBVIOUS
  <2> QED
    BY <1>1, <1>3, <1>5, <2>1, <2>2, ChatStays
<1>6. CASE d = e
  <2>1. Tells(d, x) /\ m \notin Lacks(x)
    BY <1>1, <1>2, <1>3 DEF ChatInv, Lacks
  <2>2. LET b == Append(Line(d), m) IN
        /\ Mended(Line(d), ready, d, Lacks(x), Brings(x)) => Mended(b, ready, d, Lacks(x), Brings(x))
        /\ Comes(Line(d), ready, d, Brings(x)) => Comes(b, ready, d, Brings(x))
    BY <1>2, <1>4, <2>1, WrittenMends
  <2> QED
    BY <1>1, <1>3, <1>6, <2>1, <2>2 DEF Tells
<1> QED
  BY <1>5, <1>6

(* A snapshot behind the line c brings every message of the session.       *)
LEMMA SnapshotTells ==
    ASSUME Known, VersionInv', NEW d \in Devices, UNCHANGED session, ready' \in Seq(Task),
           NEW c \in Seq(Message), Line(d)' = Append(c, Snapshot(session)),
           NEW x \in ToSet(session.msgs)
    PROVE  Tells(d, x)'
<1> DEFINE s == Snapshot(session)
<1>1. s \in Message /\ s \in Brings(x) /\ s \notin Lacks(x)
  BY MessageTypes DEF Known, Snapshot, Brings, Lacks
<1> HIDE DEF s
<1>2. LoopMended(ready', d, Lacks(x), Brings(x))
  BY DEF LoopMended, Lacks, To, VersionInv, TasksBounded
<1>3. LET b == Append(c, s) IN Mended(b, ready', d, Lacks(x), Brings(x)) /\ Comes(b, ready', d, Brings(x))
  BY <1>1, <1>2, WrittenMends
<1> QED
  BY <1>3 DEF Tells, s

LEMMA SnapshotChat ==
    ASSUME ChatInv, OwnInv, VersionInv', Known, Known', NEW k \in Conns, HubSnapshot(k),
           NEW d \in Devices, Connected(d)', "messages" \notin silent'[d],
           NEW x \in ToSet(session'.msgs)
    PROVE  Tells(d, x)'
<1> DEFINE m == Snapshot(session)
           e == dev[k]
<1>1. /\ pc[k] = "reading" /\ chan' = Written(e, m)
      /\ silent' = [silent EXCEPT ![e] = @ \cap Outdated(e)]
      /\ UNCHANGED <<session, ready, reg, up, link, view, synced, jumped>>
  BY DEF HubSnapshot, loopVars, clientVars
<1>2. e \in Devices /\ m \in Message
  BY <1>1, MessageTypes DEF OwnInv, Known
<1> HIDE DEF m, e
<1>3. Connected(d) /\ (d # e => Stays(d)) /\ (d = e => Line(d)' = Append(Line(d), m))
  BY <1>1, <1>2, WriteEffect
<1>4. ready \in Seq(Task) /\ Line(d) \in Seq(Message)
  BY LineTypes
<1>5. CASE d # e
  <2>1. GrownFor(ready, ready', d, {}) /\ "messages" \notin silent[d]
    BY <1>1, <1>4, <1>5, SameFor DEF Known, Typed, SessionTyped
  <2>2. \A t \in {} : t.task = "send" /\ t.to = d => t.msg.kind # "snapshot"
    OBVIOUS
  <2> QED
    BY <1>1, <1>3, <1>5, <2>1, <2>2, ChatStays
<1>6. CASE d = e
  BY <1>1, <1>3, <1>4, <1>6, SnapshotTells DEF m
<1> QED
  BY <1>5, <1>6

LEMMA GreetChat ==
    ASSUME ChatInv, OwnInv, VersionInv', Known, Known', NEW k \in Conns, HubGreet(k),
           NEW d \in Devices, Connected(d)', "messages" \notin silent'[d],
           NEW x \in ToSet(session'.msgs)
    PROVE  Tells(d, x)'
<1>1. /\ Resumed(k) /\ ready' = Rest /\ UNCHANGED session
      /\ d # dev[k] => Stays(d)
      /\ d = dev[k] => Line(d)' = Append(<<>>, Snapshot(session))
  BY GreetEffect
<1>2. silent' = [silent EXCEPT ![dev[k]] = Outdated(dev[k])] /\ k \in Handlers
  BY ConnTypes DEF HubGreet
<1>3. ready' \in Seq(Task) /\ (\A N : GrownFor(ready, ready', d, N)) /\ <<>> \in Seq(Message)
  BY <1>1, <1>2, RestFor
<1>4. CASE d # dev[k]
  <2>1. GrownFor(ready, ready', d, {}) /\ "messages" \notin silent[d]
    BY <1>2, <1>3, <1>4 DEF Known, Typed, SessionTyped
  <2>2. \A t \in {} : t.task = "send" /\ t.to = d => t.msg.kind # "snapshot"
    OBVIOUS
  <2> QED
    BY <1>1, <1>4, <2>1, <2>2, ChatStays
<1>5. CASE d = dev[k]
  BY <1>1, <1>3, <1>5, SnapshotTells
<1> QED
  BY <1>4, <1>5

LEMMA MutationChat ==
    ASSUME ChatInv, TurnInv, Known, Known', Durable, NEW h \in Handlers,
           NEW kind \in Announced \cup Unannounced, NEW next, NEW m, Mutation(h, kind, next, m),
           NEW d \in Devices, Connected(d)', "messages" \notin silent'[d],
           NEW x \in ToSet(session'.msgs)
    PROVE  Tells(d, x)'
<1>1. /\ pc[h] = "reading" /\ pc' = [pc EXCEPT ![h] = "saving"] /\ m \in Message
      /\ UNCHANGED <<reg, up, chan, asks, link, view, synced, jumped>>
      /\ silent'[d] = (silent[d] \ IF kind = "chat" THEN {} ELSE {FieldOf(kind)})
                          \cup IF kind = "associate" THEN {"device"} ELSE {}
      /\ session'.msgs = IF kind = "chat" THEN Append(session.msgs, clock + 1) ELSE session.msgs
      /\ kind = "chat" => m = [kind |-> "chat", msg |-> clock + 1]
      /\ kind # "chat" =>
            m = IF kind \in Announced THEN Update(kind) ELSE Set(FieldOf(kind), clock + 1)
  BY MutationEffect
<1>2. m.kind # "snapshot"
  BY <1>1 DEF Update, Set
<1>3. /\ GrownFor(ready, ready', d, Sends(h, m))
      /\ reg[d] # NoConn =>
            \E z \in DOMAIN ready' : z > Len(ready) /\ To(ready', d, z) /\ ready'[z].msg = m
  BY MutationLoop
<1>4. Stays(d) /\ Connected(d) /\ reg[d] # NoConn
  BY <1>1, HandlerClients, ConnTypes DEF Stays
<1>5. "messages" \notin silent[d]
  <2>1. kind # "chat" => FieldOf(kind) \in Fields
    BY <1>1, MutationSays
  <2>2. "messages" \notin Fields
    BY DEF Fields, Context
  <2> QED
    BY <1>1, <2>1, <2>2
<1>6. \A t \in Sends(h, m) : t.task = "send" /\ t.to = d => t.msg = m
  BY SendsIs
<1>7. CASE x \in ToSet(session.msgs)
  BY <1>2, <1>3, <1>4, <1>5, <1>6, <1>7, ChatStays
<1>8. CASE x \notin ToSet(session.msgs)
  <2>1. kind = "chat" /\ x = clock + 1
    <3>1. session.msgs \in Seq(Nat) /\ clock + 1 \in Nat
      BY LineTypes DEF SessionType
    <3>2. ToSet(Append(session.msgs, clock + 1)) = ToSet(session.msgs) \cup {clock + 1}
      BY <3>1, AppendSet
    <3> QED
      BY <1>1, <1>8, <3>2
  <2>2. m \in Brings(x) /\ m \notin Lacks(x)
    BY <1>1, <2>1 DEF Brings, Lacks
  <2>3. PICK z \in DOMAIN ready' : z > Len(ready) /\ To(ready', d, z) /\ ready'[z].msg = m
    BY <1>3, <1>4
  <2>4. ready \in Seq(Task) /\ ready' \in Seq(Task)
    BY DEF Known, Typed, LoopTyped
  <2> DEFINE N == Sends(h, m)
             W == Lacks(x)
             R == Brings(x)
             c == Line(d)'
  <2>5. /\ GrownFor(ready, ready', d, N)
        /\ \A t \in N : t.task = "send" /\ t.to = d => t.msg \notin W
        /\ ready'[z].msg \in R
    BY <1>3, <1>6, <2>2, <2>3
  <2> HIDE DEF N, W, R, c
  <2>6. Mended(c, ready', d, W, R) /\ Comes(c, ready', d, R)
    BY <2>3, <2>4, <2>5, AddedMends
  <2> QED
    BY <2>6 DEF Tells, W, R, c
<1> QED
  BY <1>7, <1>8

LEMMA EchoChat ==
    ASSUME ChatInv, Known, Known', NEW h \in Handlers, HubSave(h), req[h].kind \in {"core", "tests"},
           NEW d \in Devices, Connected(d)', "messages" \notin silent'[d],
           NEW x \in ToSet(session'.msgs)
    PROVE  Tells(d, x)'
<1> DEFINE m == Set(req[h].kind, IF req[h].kind = "core" THEN req[h].stamp ELSE session.data["tests"])
<1>1. /\ m \in Message /\ m.kind = "set"
      /\ pc[h] = "saving" /\ pc' = [pc EXCEPT ![h] = "echoing"]
      /\ Broadcast(Rest, h, m) /\ Rest \in Seq(Task)
      /\ \E n \in {0, 1} : /\ Grown(ready, Rest, n, {})
                           /\ \A i \in DOMAIN ready : i <= n => ready[i] = Resume(h)
      /\ UNCHANGED <<session, silent, reg, up, chan, asks, link, view, synced, jumped>>
  BY EchoEffect
<1> HIDE DEF m
<1>2. PICK n \in {0, 1} : /\ Grown(ready, Rest, n, {})
                          /\ \A i \in DOMAIN ready : i <= n => ready[i] = Resume(h)
  BY <1>1
<1>3. GrownFor(ready, ready', d, Sends(h, m))
  <2>1. \A i \in DOMAIN ready : i <= n => ready[i].task = "resume"
    BY <1>2 DEF Resume
  <2> QED
    BY <1>1, <1>2, <2>1, BroadcastFor
<1>4. Stays(d)
  BY <1>1, HandlerClients
<1>5. \A t \in Sends(h, m) : t.task = "send" /\ t.to = d => t.msg.kind # "snapshot"
  BY <1>1, SendsIs
<1> QED
  BY <1>1, <1>3, <1>4, <1>5, ChatStays

(* What the client v has or gets it still has or gets when it reads the    *)
(* first message, or drops it as an update.                                *)
LEMMA ReadTells ==
    ASSUME NEW v \in ViewType, NEW c \in Seq(Message), c # <<>>, NEW q, NEW d, NEW x,
           Mended(c, q, d, Lacks(x), Brings(x)),
           x \in ToSet(v.msgs) \/ Comes(c, q, d, Brings(x)),
           NEW a, a = Applied(v, c[1]) \/ (a = v /\ c[1].kind = "update")
    PROVE  /\ Mended(Tail(c), q, d, Lacks(x), Brings(x))
           /\ x \in ToSet(a.msgs) \/ Comes(Tail(c), q, d, Brings(x))
<1> DEFINE W == Lacks(x)
           R == Brings(x)
<1>1. c[1] \in Message
  BY TailIndices
<1>2. /\ c[1].kind = "snapshot" => c[1] \in W \/ x \in ToSet(c[1].msgs)
      /\ c[1].kind # "snapshot" /\ c[1] \in R => c[1].kind = "chat" /\ c[1].msg = x
  BY <1>1 DEF Lacks, Brings
<1>3. Mended(c, q, d, W, R) /\ (x \in ToSet(v.msgs) \/ Comes(c, q, d, R))
  OBVIOUS
<1> HIDE DEF W, R
<1>4. /\ Mended(Tail(c), q, d, W, R)
      /\ c[1] \in W => Comes(Tail(c), q, d, R)
      /\ Comes(c, q, d, R) => Comes(Tail(c), q, d, R) \/ c[1] \in R
  BY <1>3, ReadMends
<1>5. CASE c[1].kind = "snapshot"
  <2>1. a.msgs = c[1].msgs
    BY <1>1, <1>5, AppliedIs
  <2> QED
    BY <1>2, <1>4, <1>5, <2>1 DEF W, R
<1>6. CASE c[1].kind # "snapshot"
  <2>1. ToSet(v.msgs) \subseteq ToSet(a.msgs)
    <3>1. CASE c[1].kind = "chat"
      <4>1. ToSet(Applied(v, c[1]).msgs) = ToSet(v.msgs) \cup {c[1].msg} /\ a = Applied(v, c[1])
        BY <1>1, <3>1, AppliedIs
      <4> QED
        BY <4>1
    <3>2. CASE c[1].kind # "chat"
      <4>1. Applied(v, c[1]).msgs = v.msgs
        <5>1. c[1].kind \in {"update", "set", "rejected"}
          BY <1>1, <1>6, <3>2, AppliedIs
        <5> QED
          BY <1>1, <5>1, AppliedIs
      <4> QED
        BY <4>1
    <3> QED
      BY <3>1, <3>2
  <2>2. c[1] \in R => x \in ToSet(a.msgs)
    <3>1. ASSUME c[1].kind = "chat", c[1].msg = x PROVE x \in ToSet(a.msgs)
      BY <1>1, <3>1, AppliedIs
    <3> QED
      BY <1>2, <1>6, <3>1
  <2> QED
    BY <1>3, <1>4, <2>1, <2>2 DEF W, R
<1> QED
  BY <1>5, <1>6

LEMMA ReceiveChat ==
    ASSUME ChatInv, OwnInv, Known, Known', NEW e \in Devices, Receive(e),
           NEW d \in Devices, Connected(d)', "messages" \notin silent'[d],
           NEW x \in ToSet(session'.msgs)
    PROVE  Tells(d, x)'
<1>1. UNCHANGED <<session, silent, ready>>
  BY DEF Receive, sessionVars, loopVars
<1>2. /\ Connected(d)
      /\ d # e => Stays(d)
      /\ d = e => Line(d) # <<>> /\ Line(d)[1] \in Message /\ Line(d)' = Tail(Line(d))
  BY ReadEffect
<1>3. /\ ready \in Seq(Task) /\ Line(d) \in Seq(Message) /\ view[d] \in ViewType
      /\ Line(d) = chan[link[d]]
  BY <1>2, LineTypes
<1>4. CASE d # e
  <2>1. GrownFor(ready, ready', d, {})
    BY <1>1, <1>3, SameFor
  <2>2. \A t \in {} : t.task = "send" /\ t.to = d => t.msg.kind # "snapshot"
    OBVIOUS
  <2> QED
    BY <1>1, <1>2, <1>4, <2>1, <2>2, ChatStays
<1>5. CASE d = e
  <2>1. /\ Mended(Line(d), ready, d, Lacks(x), Brings(x))
        /\ x \in ToSet(view[d].msgs) \/ Comes(Line(d), ready, d, Brings(x))
    BY <1>1, <1>2 DEF ChatInv, Tells
  <2> DEFINE m == Line(d)[1]
  <2>2. m \in Message /\ m = chan[link[d]][1]
    BY <1>2, <1>3, <1>5
  <2>3. \/ m.kind = "update" /\ view' = view
        \/ view'[d] = Applied(view[d], m)
    <3> HIDE DEF m
    <3> QED
      BY <1>5, <2>2, ReadView
  <2>4. /\ Mended(Tail(Line(d)), ready, d, Lacks(x), Brings(x))
        /\ x \in ToSet(view'[d].msgs) \/ Comes(Tail(Line(d)), ready, d, Brings(x))
    BY <1>2, <1>3, <1>5, <2>1, <2>3, ReadTells
  <2> QED
    BY <1>1, <1>2, <1>5, <2>4 DEF Tells
<1> QED
  BY <1>4, <1>5

LEMMA EventChat ==
    ASSUME ChatInv, Known, Known', Durable, ToolEvent \/ AgentEvent,
           NEW d \in Devices, Connected(d)', "messages" \notin silent'[d],
           NEW x \in ToSet(session'.msgs)
    PROVE  Tells(d, x)'
<1>1. PICK e \in {"core", "agent"}, m \in Message :
          /\ m.kind = "set" /\ GrownFor(ready, ready', d, Sends(Agent, m))
          /\ UNCHANGED <<pc, req, reg, dev, up, chan, asks, link, view, synced, jumped>>
          /\ silent'[d] = IF e = "core" THEN silent[d] \cup {"core"} ELSE silent[d] \ {"agent"}
          /\ session'.msgs = session.msgs
  BY EventEffect
<1>2. Stays(d)
  BY <1>1 DEF Stays, Connected
<1>3. "messages" \notin silent[d] /\ x \in ToSet(session.msgs)
  BY <1>1
<1>4. \A t \in Sends(Agent, m) : t.task = "send" /\ t.to = d => t.msg.kind # "snapshot"
  BY <1>1, SendsIs
<1> QED
  BY <1>1, <1>2, <1>3, <1>4, ChatStays

LEMMA PanelChat ==
    ASSUME ChatInv, Known, NEW e \in Devices, ToolPanel(e),
           NEW d \in Devices, Connected(d)', "messages" \notin silent'[d],
           NEW x \in ToSet(session'.msgs)
    PROVE  Tells(d, x)'
<1>1. /\ UNCHANGED <<session, ready>> /\ Connected(d) /\ Line(d)' = Line(d)
      /\ view'[d].msgs = view[d].msgs /\ silent[d] \subseteq silent'[d]
  BY PanelEffect
<1>2. Tells(d, x)
  BY <1>1 DEF ChatInv
<1> QED
  BY <1>1, <1>2 DEF Tells

LEMMA StepChat ==
    ASSUME ChatInv, TurnInv, OwnInv, VersionInv, VersionInv', Known, Known', Durable, [Next]_vars
    PROVE  ChatInv'
<1> SUFFICES ASSUME NEW d \in Devices, Connected(d)', "messages" \notin silent'[d],
                    NEW x \in ToSet(session'.msgs)
             PROVE  Tells(d, x)'
  BY DEF ChatInv
<1>1. CASE HubRestart
  <2>1. reg'[d] = NoConn
    BY <1>1 DEF HubRestart
  <2> QED
    BY <2>1 DEF Connected
<1> QED
  BY <1>1, StepIs, IdleChat, MutationChat, EchoChat, SendChat, RejectChat, SnapshotChat,
     GreetChat, ReceiveChat, EventChat, PanelChat

LEMMA InitChat == Init => ChatInv
BY DEF Init, ChatInv, Connected

-----------------------------------------------------------------------------
(* When the loop is idle nobody has anything left to echo or to close, and *)
(* nothing is on its way: what has to arrive has arrived.                  *)
LEMMA QuietIsServed ==
    ASSUME Known, TurnInv, OwnInv, ready = <<>>, running = NoConn,
           NEW d \in Devices \ jumped, Connected(d), chan[link[d]] = <<>>, asks[link[d]] = 0
    PROVE  /\ Served(d) /\ Line(d) = <<>>
           /\ \A f : ~Echo(f)
           /\ \A R : ~Comes(Line(d), ready, d, R)
<1>1. \A h \in Handlers : pc[h] \notin Waiting
  <2> SUFFICES ASSUME NEW h \in Handlers, pc[h] \in Waiting PROVE FALSE
    OBVIOUS
  <2>1. running = h \/ \E i \in DOMAIN ready : ready[i] = Resume(h)
    BY DEF TurnInv, Turn
  <2> QED
    BY <2>1, BoundAssumption DEF Handlers, Conns, Agent, NoConn
<1>2. link[d] \in Handlers /\ Line(d) = <<>>
  BY ConnTypes DEF Line
<1>3. d \in synced
  BY DEF OwnInv
<1>4. Served(d)
  BY <1>1, <1>2, <1>3 DEF Served, Waiting
<1>5. Savers("core") = {} /\ Savers("tests") = {}
  BY <1>1 DEF Savers, Waiting
<1>6. \A f : ~Echo(f)
  BY <1>5 DEF Echo
<1>7. \A R : ~Comes(Line(d), ready, d, R)
  BY <1>2 DEF Comes, InLoop
<1> QED
  BY <1>2, <1>4, <1>6, <1>7

LEMMA QuietAgrees ==
    ASSUME Known, TurnInv, OwnInv, FieldInv, ChatInv PROVE QuietAgreement
<1> SUFFICES ASSUME ready = <<>>, running = NoConn, NEW d \in Devices \ jumped,
                    Connected(d), chan[link[d]] = <<>>, asks[link[d]] = 0
             PROVE  /\ \A f \in Fields \ silent[d] : view[d].data[f] = session.data[f]
                    /\ "messages" \notin silent[d] => ToSet(session.msgs) \subseteq ToSet(view[d].msgs)
  BY DEF QuietAgreement
<1>1. /\ Served(d)
      /\ \A f : ~Echo(f)
      /\ \A R : ~Comes(Line(d), ready, d, R)
  BY QuietIsServed
<1>2. ASSUME NEW f \in Fields \ silent[d] PROVE view[d].data[f] = session.data[f]
  <2>1. Arrives(d, f)
    BY <1>1 DEF FieldInv, FieldOK
  <2> QED
    BY <1>1, <2>1 DEF Arrives
<1>3. ASSUME "messages" \notin silent[d], NEW x \in ToSet(session.msgs)
      PROVE  x \in ToSet(view[d].msgs)
  <2>1. Tells(d, x)
    BY <1>3 DEF ChatInv
  <2> QED
    BY <1>1, <2>1 DEF Tells
<1> QED
  BY <1>2, <1>3

(* Whatever overtakes what, a registered client that has read all it was   *)
(* sent shows the session's newest values and has all its chat messages,   *)
(* unless its version passed over an update: only what nobody announced,   *)
(* or an older announcement follows, may differ.                           *)
THEOREM QuietClientsAgree == Spec => []QuietAgreement
<1> DEFINE Way  == TurnInv /\ OwnInv /\ LaneInv
           Good == FieldInv /\ ChatInv
<1>1. Init => Typed /\ VersionInv /\ Way /\ Good
  BY InitTyped, InitVersions, InitTurn, InitOwn, InitLane, InitField, InitChat
<1>2. Durable => Types
  BY DEF Durable
<1>3. Typed /\ Durable /\ Types /\ Types' /\ [Next]_vars => Typed'
  BY StepTyped
<1>4. VersionInv /\ Typed /\ Types /\ Typed' /\ Types' /\ Durable /\ [Next]_vars => VersionInv'
  BY StepVersions DEF Known
<1>5. /\ Typed /\ Types /\ Typed' /\ Types' /\ VersionInv /\ Durable /\ Way /\ [Next]_vars
      => Way'
  BY StepTurn, StepOwn, StepLane DEF Known
<1>6. /\ Typed /\ Types /\ Typed' /\ Types' /\ VersionInv /\ VersionInv' /\ Durable
      /\ Way /\ Good /\ [Next]_vars
      => Good'
  BY StepField, StepChat DEF Known
<1>7. Typed /\ Types /\ Way /\ Good => QuietAgreement
  BY QuietAgrees DEF Known
<1> HIDE DEF Way, Good
<1> QED
  BY <1>1, <1>2, <1>3, <1>4, <1>5, <1>6, <1>7, Durability, PTL DEF Spec

===============================================================================
