------------------------- MODULE SessionSyncProofs -------------------------
(* For any number of devices, connections, writes and restarts: what an    *)
(* acknowledged request wrote survives a crash of the hub, every variable  *)
(* keeps its type, no client's version falls within a connection, and a    *)
(* client that was told of every write holds the context of its version.   *)
EXTENDS SessionSync, FiniteSetTheorems, TLAPS

(* s holds what the request r wrote, or a later write of the same field. *)
Holds(s, r) ==
    /\ r.kind \in Announced \cup Unannounced
    /\ r.kind = "chat" => r.stamp \in ToSet(s.msgs)
    /\ r.kind # "chat" => r.stamp <= s.data[FieldOf(r.kind)]

(* s holds everything t holds. *)
Covers(s, t) ==
    /\ \A f \in Fields : t.data[f] <= s.data[f]
    /\ ToSet(t.msgs) \subseteq ToSet(s.msgs)

Types ==
    /\ session \in SessionType
    /\ saved \in SessionType
    /\ clock \in Nat
    /\ acked \in [data : [Fields -> Nat], msgs : SUBSET Nat]
    /\ req \in [Handlers -> [kind : Announced \cup Unannounced \cup {"none"}, stamp : Nat]]
    /\ pc \in [Handlers -> {"unused", "accepted", "connecting", "reading", "saving",
                            "echoing", "closing", "ended"}]

(* AckedIsDurable is not inductive: a request that is acknowledged must    *)
(* have been saved, so what a handler has yet to save must be in memory,   *)
(* what it has yet to acknowledge on disk, and the disk must hold nothing  *)
(* the memory does not, and never the agent.                               *)
Durable ==
    /\ Types
    /\ \A f \in Fields : session.data[f] <= clock
    /\ Covers(session, saved)
    /\ saved.data["agent"] = 0
    /\ \A h \in Handlers : pc[h] = "saving" => Holds(session, req[h])
    /\ \A h \in Handlers : pc[h] = "echoing" => Holds(saved, req[h])
    /\ AckedIsDurable

LEMMA FieldsAre ==
    Fields = {"device", "issue", "status", "core", "tests", "association", "detected", "agent"}
BY DEF Fields, Context

(* Every request but a chat message writes one field. *)
LEMMA FieldOfType ==
    ASSUME NEW kind \in Announced \cup Unannounced, kind # "chat"
    PROVE  FieldOf(kind) \in Fields /\ FieldOf(kind) # "agent"
BY FieldsAre DEF FieldOf, Announced, Unannounced

LEMMA AppendSet ==
    ASSUME NEW s \in Seq(Nat), NEW x \in Nat
    PROVE  /\ Append(s, x) \in Seq(Nat)
           /\ ToSet(Append(s, x)) = ToSet(s) \cup {x}
<1>1. Append(s, x) \in Seq(Nat) /\ DOMAIN Append(s, x) = 1..(Len(s) + 1) /\ DOMAIN s = 1..Len(s)
  OBVIOUS
<1>2. \A i \in 1..Len(s) : Append(s, x)[i] = s[i]
  OBVIOUS
<1>3. Append(s, x)[Len(s) + 1] = x
  OBVIOUS
<1>4. Len(s) \in Nat
  OBVIOUS
<1>5. \A i \in 1..(Len(s) + 1) : i \in 1..Len(s) \/ i = Len(s) + 1
  BY <1>4
<1>6. Len(s) + 1 \in 1..(Len(s) + 1) /\ 1..Len(s) \subseteq 1..(Len(s) + 1)
  BY <1>4
<1> QED
  BY <1>1, <1>2, <1>3, <1>5, <1>6 DEF ToSet

(* What holds a request still holds it when it grows. *)
LEMMA HoldsMore ==
    ASSUME NEW s \in SessionType, NEW t \in SessionType, Covers(s, t),
           NEW r \in [kind : Announced \cup Unannounced \cup {"none"}, stamp : Nat],
           Holds(t, r)
    PROVE  Holds(s, r)
<1>1. CASE r.kind = "chat"
  BY <1>1 DEF Holds, Covers
<1>2. CASE r.kind # "chat"
  <2>1. FieldOf(r.kind) \in Fields
    BY <1>2, FieldOfType DEF Holds
  <2>2. t.data[FieldOf(r.kind)] <= s.data[FieldOf(r.kind)]
    BY <2>1 DEF Covers
  <2>3. /\ r.stamp \in Nat /\ t.data[FieldOf(r.kind)] \in Nat
        /\ s.data[FieldOf(r.kind)] \in Nat
    BY <2>1 DEF SessionType
  <2> QED
    BY <1>2, <2>2, <2>3 DEF Holds
<1> QED
  BY <1>1, <1>2

LEMMA CoversTransitive ==
    ASSUME NEW s \in SessionType, NEW t \in SessionType, NEW u \in SessionType,
           Covers(s, t), Covers(t, u)
    PROVE  Covers(s, u)
<1>1. ASSUME NEW f \in Fields PROVE u.data[f] <= s.data[f]
  <2>1. u.data[f] <= t.data[f] /\ t.data[f] <= s.data[f]
    BY DEF Covers
  <2>2. u.data[f] \in Nat /\ t.data[f] \in Nat /\ s.data[f] \in Nat
    BY DEF SessionType
  <2> QED
    BY <2>1, <2>2
<1> QED
  BY <1>1 DEF Covers

LEMMA CoversItself == ASSUME NEW s \in SessionType PROVE Covers(s, s)
<1>1. ASSUME NEW f \in Fields PROVE s.data[f] <= s.data[f]
  BY DEF SessionType
<1> QED
  BY <1>1 DEF Covers

(* A write gives its fields the value of the clock and keeps the others. *)
LEMMA WroteType ==
    ASSUME Types, \A f \in Fields : session.data[f] <= clock, NEW fs
    PROVE  /\ Wrote(session, fs) \in SessionType
           /\ \A f \in Fields : Wrote(session, fs).data[f]
                                  = IF f \in fs THEN clock + 1 ELSE session.data[f]
           /\ Wrote(session, fs).msgs = session.msgs
           /\ Wrote(session, fs).paused = session.paused
           /\ Wrote(session, fs).v = session.v
           /\ \A f \in Fields : Wrote(session, fs).data[f] <= clock + 1
           /\ Covers(Wrote(session, fs), session)
<1> DEFINE w == Wrote(session, fs)
<1>1. /\ session.data \in [Fields -> Nat] /\ session.msgs \in Seq(Nat)
      /\ session.v \in Nat /\ session.paused \in BOOLEAN /\ clock \in Nat
  BY DEF Types, SessionType
<1> DEFINE new == [f \in Fields |-> IF f \in fs THEN clock + 1 ELSE session.data[f]]
<1>2. new \in [Fields -> Nat]
  BY <1>1
<1>3. w = [session EXCEPT !.data = new]
  BY DEF Wrote
<1> HIDE DEF new
<1>4. /\ w \in SessionType
      /\ w.data = new /\ w.msgs = session.msgs /\ w.paused = session.paused /\ w.v = session.v
  <2>1. session \in SessionType
    BY DEF Types
  <2> QED
    BY <1>2, <1>3, <2>1 DEF SessionType
<1> USE DEF new
<1>5. ASSUME NEW f \in Fields
      PROVE  w.data[f] <= clock + 1 /\ session.data[f] <= w.data[f]
  <2>1. session.data[f] \in Nat /\ session.data[f] <= clock
    BY <1>1
  <2>2. w.data[f] = IF f \in fs THEN clock + 1 ELSE session.data[f]
    BY <1>4
  <2> QED
    BY <1>1, <2>1, <2>2
<1>6. Covers(w, session)
  BY <1>4, <1>5 DEF Covers
<1>7. \A f \in Fields : w.data[f] = IF f \in fs THEN clock + 1 ELSE session.data[f]
  BY <1>4
<1> QED
  BY <1>4, <1>5, <1>6, <1>7

LEMMA InitDurable == Init => Durable
<1> SUFFICES ASSUME Init PROVE Durable
  OBVIOUS
<1>1. Types
  BY DEF Init, Types, SessionType, Unset, Nothing, Handlers
<1>2. \A f \in Fields : session.data[f] <= clock
  BY DEF Init, Unset
<1>3. Covers(session, saved)
  BY <1>1, CoversItself DEF Init, Types
<1>4. AckedIsDurable
  BY DEF Init, AckedIsDurable, Unset
<1>5. \A h \in Handlers : pc[h] \notin {"saving", "echoing"}
  BY DEF Init
<1>6. saved.data["agent"] = 0
  BY FieldsAre DEF Init, Unset
<1> QED
  BY <1>1, <1>2, <1>3, <1>4, <1>5, <1>6 DEF Durable

(* A step that saves and acknowledges nothing, in which the session only   *)
(* grows and a handler that starts to save finds its write in memory.      *)
LEMMA Growing ==
    ASSUME Durable, Types', UNCHANGED <<saved, acked>>,
           Covers(session', session),
           \A f \in Fields : session'.data[f] <= clock',
           \A h \in Handlers : pc'[h] = "saving" =>
               (pc[h] = "saving" /\ req'[h] = req[h]) \/ Holds(session', req'[h]),
           \A h \in Handlers : pc'[h] = "echoing" => pc[h] = "echoing" /\ req'[h] = req[h]
    PROVE  Durable'
<1>1. Covers(session', saved)
  BY CoversTransitive DEF Durable, Types
<1>2. ASSUME NEW h \in Handlers, pc'[h] = "saving" PROVE Holds(session', req'[h])
  <2>1. CASE pc[h] = "saving" /\ req'[h] = req[h]
    <3>1. Holds(session, req[h])
      BY <2>1 DEF Durable
    <3>2. /\ req[h] \in [kind : Announced \cup Unannounced \cup {"none"}, stamp : Nat]
          /\ session \in SessionType /\ session' \in SessionType
      BY DEF Durable, Types
    <3> QED
      BY <2>1, <3>1, <3>2, HoldsMore
  <2> QED
    BY <1>2, <2>1
<1>3. ASSUME NEW h \in Handlers, pc'[h] = "echoing" PROVE Holds(saved', req'[h])
  BY <1>3 DEF Durable
<1>4. Covers(session, saved)'
  BY <1>1 DEF Covers
<1>5. AckedIsDurable'
  BY DEF Durable, AckedIsDurable
<1> QED
  BY <1>2, <1>3, <1>4, <1>5 DEF Durable, Holds

(* A step that leaves the session, what is saved and acknowledged alone.   *)
LEMMA Resting ==
    ASSUME Durable, UNCHANGED <<session, clock, saved, acked, req>>,
           Types',
           \A h \in Handlers : pc'[h] \in {"saving", "echoing"} => pc'[h] = pc[h]
    PROVE  Durable'
<1>1. Covers(session', session)
  BY CoversItself DEF Durable, Types
<1>2. \A f \in Fields : session'.data[f] <= clock'
  BY DEF Durable
<1> QED
  BY <1>1, <1>2, Growing

(* Raising the version of a session changes nothing else of it. *)
LEMMA BumpKeepsType ==
    ASSUME NEW next \in SessionType
    PROVE  LET s == [next EXCEPT !.v = @ + 1]
           IN  s \in SessionType /\ s.data = next.data /\ s.msgs = next.msgs
<1>1. next.v + 1 \in Nat
  BY DEF SessionType
<1> QED
  BY <1>1 DEF SessionType

LEMMA MutateDurable ==
    ASSUME Durable, NEW h \in Handlers, NEW kind \in Announced \cup Unannounced,
           NEW next, NEW m, Mutate(h, kind, next, m),
           next \in SessionType, Covers(next, session),
           \A f \in Fields : next.data[f] <= clock + 1,
           IF kind = "chat" THEN clock + 1 \in ToSet(next.msgs)
           ELSE next.data[FieldOf(kind)] = clock + 1
    PROVE  Durable'
<1> DEFINE s == [next EXCEPT !.v = @ + 1]
<1>1. session' = s /\ clock' = clock + 1 /\ clock \in Nat
  BY DEF Mutate, Commit, Durable, Types
<1>2. s \in SessionType /\ s.data = next.data /\ s.msgs = next.msgs
  BY BumpKeepsType
<1>3. req' = [req EXCEPT ![h] = [kind |-> kind, stamp |-> clock + 1]]
      /\ pc' = [pc EXCEPT ![h] = "saving"] /\ UNCHANGED <<saved, acked>>
  BY DEF Mutate
<1>4. Types'
  BY <1>1, <1>2, <1>3 DEF Durable, Types
<1>5. Covers(session', session)
  BY <1>1, <1>2 DEF Covers
<1>6. \A f \in Fields : session'.data[f] <= clock'
  BY <1>1, <1>2
<1>7. Holds(session', req'[h])
  <2>1. req'[h] = [kind |-> kind, stamp |-> clock + 1]
    BY <1>3 DEF Durable, Types
  <2>2. CASE kind = "chat"
    BY <1>1, <1>2, <2>1, <2>2 DEF Holds
  <2>3. CASE kind # "chat"
    <3>1. session'.data[FieldOf(kind)] = clock + 1
      BY <1>1, <1>2, <2>3
    <3> QED
      BY <1>1, <2>1, <2>3, <3>1 DEF Holds
  <2> QED
    BY <2>2, <2>3
<1>8. \A i \in Handlers : i # h => pc'[i] = pc[i] /\ req'[i] = req[i]
  BY <1>3 DEF Durable, Types
<1>9. pc'[h] = "saving"
  BY <1>3 DEF Durable, Types
<1> QED
  BY <1>3, <1>4, <1>5, <1>6, <1>7, <1>8, <1>9, Growing

LEMMA UpdateDurable ==
    ASSUME Durable, NEW k \in Conns, NEW kind \in Announced, HubUpdate(k, kind)
    PROVE  Durable'
<1> DEFINE w == Wrote(session, {FieldOf(kind)})
           next == [w EXCEPT !.paused = IF FieldOf(kind) = "status" THEN kind = "pause" ELSE @]
<1>1. k \in Handlers /\ kind \in Announced \cup Unannounced /\ kind # "chat"
  BY DEF Handlers, Announced
<1>2. FieldOf(kind) \in Fields
  BY <1>1, FieldOfType
<1>3. /\ w \in SessionType /\ Covers(w, session)
      /\ \A f \in Fields : w.data[f] <= clock + 1
      /\ w.data[FieldOf(kind)] = clock + 1
  BY <1>2, WroteType DEF Durable
<1>4. next \in SessionType /\ next.data = w.data /\ next.msgs = w.msgs
  <2> HIDE DEF w
  <2> QED
    BY <1>3 DEF SessionType
<1>5. Covers(next, session)
  BY <1>3, <1>4 DEF Covers
<1>6. Mutate(k, kind, next, Update(kind))
  BY DEF HubUpdate
<1> HIDE DEF next
<1> QED
  BY <1>1, <1>3, <1>4, <1>5, <1>6, MutateDurable

LEMMA ChatDurable == ASSUME Durable, NEW k \in Conns, HubChat(k) PROVE Durable'
<1> DEFINE next == [session EXCEPT !.msgs = Append(@, clock + 1)]
<1>1. k \in Handlers /\ "chat" \in Announced \cup Unannounced
  BY DEF Handlers, Unannounced
<1>2. session \in SessionType /\ session.msgs \in Seq(Nat) /\ clock \in Nat /\ clock + 1 \in Nat
  BY DEF Durable, Types, SessionType
<1>3. /\ Append(session.msgs, clock + 1) \in Seq(Nat)
      /\ ToSet(Append(session.msgs, clock + 1)) = ToSet(session.msgs) \cup {clock + 1}
  BY <1>2, AppendSet
<1>4. /\ next \in SessionType /\ next.data = session.data
      /\ next.msgs = Append(session.msgs, clock + 1)
  BY <1>2, <1>3 DEF SessionType
<1>5. \A f \in Fields : session.data[f] \in Nat /\ session.data[f] <= clock
  BY <1>2 DEF Durable, SessionType
<1>6. Covers(next, session) /\ \A f \in Fields : next.data[f] <= clock + 1
  BY <1>2, <1>3, <1>4, <1>5 DEF Covers
<1>7. Mutate(k, "chat", next, [kind |-> "chat", msg |-> clock + 1])
  BY DEF HubChat
<1> HIDE DEF next
<1> QED
  BY <1>1, <1>3, <1>4, <1>6, <1>7, MutateDurable

LEMMA AssociateDurable == ASSUME Durable, NEW k \in Conns, HubAssociate(k) PROVE Durable'
<1> DEFINE next == Wrote(session, {"association", "device"})
<1>1. k \in Handlers /\ "associate" \in Announced \cup Unannounced
      /\ FieldOf("associate") = "association" /\ "association" \in Fields
  BY FieldsAre DEF Handlers, Unannounced, FieldOf
<1>2. /\ next \in SessionType /\ Covers(next, session)
      /\ \A f \in Fields : next.data[f] <= clock + 1
      /\ next.data["association"] = clock + 1
  BY <1>1, WroteType DEF Durable
<1>3. Mutate(k, "associate", next, Set("association", clock + 1))
  BY DEF HubAssociate
<1> HIDE DEF next
<1> QED
  BY <1>1, <1>2, <1>3, MutateDurable

LEMMA DetectedDurable == ASSUME Durable, HubDetected PROVE Durable'
<1> DEFINE next == Wrote(session, {"detected"})
<1>1. Agent \in Handlers /\ "detected" \in Announced \cup Unannounced
      /\ FieldOf("detected") = "detected" /\ "detected" \in Fields
  BY FieldsAre DEF Handlers, Unannounced, FieldOf
<1>2. /\ next \in SessionType /\ Covers(next, session)
      /\ \A f \in Fields : next.data[f] <= clock + 1
      /\ next.data["detected"] = clock + 1
  BY <1>1, WroteType DEF Durable
<1>3. Mutate(Agent, "detected", next, Set("detected", clock + 1))
  BY DEF HubDetected
<1> HIDE DEF next
<1> QED
  BY <1>1, <1>2, <1>3, MutateDurable

(* A new device, seeding an empty session or not. *)
LEMMA ConnectDurable == ASSUME Durable, NEW k \in Conns, HubConnect(k) PROVE Durable'
<1>1. /\ UNCHANGED <<saved, acked, req>> /\ pc' = [pc EXCEPT ![k] = "connecting"]
      /\ \/ Commit(Seeded, {}, {"device", "issue", "status", "tests", "messages"}) /\ Unseeded
         \/ UNCHANGED <<session, clock>>
  BY DEF HubConnect, sessionVars
<1>2. pc' \in [Handlers -> {"unused", "accepted", "connecting", "reading", "saving",
                            "echoing", "closing", "ended"}]
      /\ \A h \in Handlers : pc'[h] \in {"saving", "echoing"} => pc'[h] = pc[h]
  BY <1>1 DEF Durable, Types
<1>3. CASE UNCHANGED <<session, clock>>
  <2>1. Types'
    BY <1>1, <1>2, <1>3 DEF Durable, Types
  <2> QED
    BY <1>1, <1>2, <1>3, <2>1, Resting
<1>4. CASE Commit(Seeded, {}, {"device", "issue", "status", "tests", "messages"}) /\ Unseeded
  <2> DEFINE w == Wrote(session, {"device", "issue", "status", "tests"})
             seeds == <<clock + 1>>
  <2>1. w \in SessionType /\ Covers(w, session) /\ \A f \in Fields : w.data[f] <= clock + 1
    BY WroteType DEF Durable
  <2>2. clock \in Nat /\ seeds \in Seq(Nat)
    BY DEF Durable, Types
  <2>3. session' = [w EXCEPT !.v = @ + 1, !.msgs = seeds, !.paused = FALSE]
        /\ clock' = clock + 1
    BY <1>4 DEF Commit, Seeded
  <2> HIDE DEF w, seeds
  <2>4. session' \in SessionType /\ session'.data = w.data
    <3> DEFINE w1 == [w EXCEPT !.v = @ + 1]
               w2 == [w1 EXCEPT !.msgs = seeds]
    <3>1. w1 \in SessionType /\ w1.data = w.data
      BY <2>1 DEF SessionType
    <3>2. session' = [w2 EXCEPT !.paused = FALSE]
      BY <2>3
    <3> HIDE DEF w1
    <3>3. w2 \in SessionType /\ w2.data = w1.data
      BY <3>1, <2>2 DEF SessionType
    <3> HIDE DEF w2
    <3>4. session' \in SessionType /\ session'.data = w2.data
      BY <3>2, <3>3 DEF SessionType
    <3> QED
      BY <3>1, <3>3, <3>4
  <2>5. ToSet(session.msgs) = {}
    BY <1>4 DEF Unseeded, ToSet
  <2>6. Covers(session', session) /\ \A f \in Fields : session'.data[f] <= clock'
    BY <2>1, <2>3, <2>4, <2>5 DEF Covers
  <2>7. Types'
    BY <1>1, <1>2, <2>2, <2>3, <2>4 DEF Durable, Types
  <2> QED
    BY <1>1, <1>2, <2>6, <2>7, Growing
<1> QED
  BY <1>1, <1>3, <1>4

LEMMA RestDurable == ASSUME Durable, RestCreate PROVE Durable'
<1>1. PICK g \in {"device", "issue"} :
          session' = Wrote(session, {g}) /\ clock' = clock + 1
      /\ UNCHANGED <<saved, acked, req, pc>>
  BY DEF RestCreate, Commit
<1>2. session' \in SessionType /\ Covers(session', session)
      /\ \A f \in Fields : session'.data[f] <= clock'
  BY <1>1, WroteType DEF Durable
<1>3. Types'
  BY <1>1, <1>2 DEF Durable, Types
<1> QED
  BY <1>1, <1>2, <1>3, Growing

(* What is saved of a session: it covers what was saved before. *)
LEMMA PersistableIs ==
    ASSUME Durable
    PROVE  LET s == Persistable(session)
           IN  /\ s \in SessionType /\ s.data["agent"] = 0 /\ s.msgs = session.msgs
               /\ s.v = session.v /\ s.paused = session.paused
               /\ \A f \in Fields \ {"agent"} : s.data[f] = session.data[f]
               /\ Covers(session, s) /\ Covers(s, saved)
<1> DEFINE s == Persistable(session)
<1>1. /\ session \in SessionType /\ saved \in SessionType /\ "agent" \in Fields
      /\ session.data \in [Fields -> Nat]
  BY FieldsAre DEF Durable, Types, SessionType
<1> DEFINE kept == [session.data EXCEPT !["agent"] = 0]
<1>2. s = [session EXCEPT !.data = kept]
  BY <1>1 DEF Persistable, SessionType
<1>7. kept \in [Fields -> Nat]
  BY <1>1
<1> HIDE DEF s, kept
<1>3. /\ s \in SessionType /\ s.data = kept
      /\ s.msgs = session.msgs /\ s.v = session.v /\ s.paused = session.paused
  BY <1>1, <1>2, <1>7 DEF SessionType
<1>4. s.data["agent"] = 0 /\ \A f \in Fields \ {"agent"} : s.data[f] = session.data[f]
  BY <1>1, <1>3 DEF kept
<1>5. ASSUME NEW f \in Fields
      PROVE  s.data[f] <= session.data[f] /\ saved.data[f] <= s.data[f]
  <2>1. /\ saved.data[f] <= session.data[f] /\ saved.data["agent"] = 0
        /\ session.data[f] \in Nat /\ saved.data[f] \in Nat
    BY <1>1 DEF Durable, Covers, SessionType
  <2>2. CASE f = "agent"
    BY <1>4, <2>1, <2>2
  <2>3. CASE f # "agent"
    BY <1>4, <2>1, <2>3
  <2> QED
    BY <2>2, <2>3
<1>6. Covers(session, s) /\ Covers(s, saved)
  BY <1>3, <1>5 DEF Durable, Covers
<1> QED
  BY <1>3, <1>4, <1>6 DEF s

(* A request that the session holds is kept when it is saved. *)
LEMMA HoldsSaved ==
    ASSUME Durable, NEW r \in [kind : Announced \cup Unannounced \cup {"none"}, stamp : Nat],
           Holds(session, r)
    PROVE  Holds(Persistable(session), r)
<1>1. CASE r.kind = "chat"
  BY <1>1, PersistableIs DEF Holds
<1>2. CASE r.kind # "chat"
  <2>1. FieldOf(r.kind) \in Fields \ {"agent"}
    BY <1>2, FieldOfType DEF Holds
  <2> QED
    BY <1>2, <2>1, PersistableIs DEF Holds
<1> QED
  BY <1>1, <1>2

(* Saving: the disk gets what the memory holds. *)
LEMMA SavedDurable ==
    ASSUME Durable, Types', UNCHANGED <<session, clock>>, saved' = Persistable(session),
           \A f \in Fields : acked'.data[f] <= saved'.data[f],
           acked'.msgs \subseteq ToSet(saved'.msgs),
           \A h \in Handlers : pc'[h] = "saving" => pc[h] = "saving" /\ req'[h] = req[h],
           \A h \in Handlers : pc'[h] = "echoing" =>
               pc[h] \in {"saving", "echoing"} /\ req'[h] = req[h]
    PROVE  Durable'
<1>1. Covers(session, Persistable(session)) /\ Persistable(session).data["agent"] = 0
  BY PersistableIs
<1>2. ASSUME NEW h \in Handlers, pc[h] = "echoing" PROVE Holds(session, req[h])
  <2>1. Holds(saved, req[h]) /\ Covers(session, saved)
    BY <1>2 DEF Durable
  <2>2. /\ req[h] \in [kind : Announced \cup Unannounced \cup {"none"}, stamp : Nat]
        /\ session \in SessionType /\ saved \in SessionType
    BY DEF Durable, Types
  <2> QED
    BY <2>1, <2>2, HoldsMore
<1>3. \A h \in Handlers : pc[h] = "saving" => Holds(session, req[h])
  BY DEF Durable
<1>4. Covers(session, saved)' /\ saved'.data["agent"] = 0
  BY <1>1 DEF Covers
<1>5. AckedIsDurable'
  BY DEF AckedIsDurable
<1>6. \A h \in Handlers : pc'[h] = "saving" => Holds(session, req[h])'
  BY <1>3 DEF Holds
<1>7. ASSUME NEW h \in Handlers, pc'[h] = "echoing" PROVE Holds(saved', req'[h])
  <2>1. Holds(session, req[h]) /\ req'[h] = req[h]
    BY <1>2, <1>3, <1>7
  <2>2. req[h] \in [kind : Announced \cup Unannounced \cup {"none"}, stamp : Nat]
    BY DEF Durable, Types
  <2> QED
    BY <2>1, <2>2, HoldsSaved
<1>8. \A f \in Fields : session'.data[f] <= clock'
  BY DEF Durable
<1>9. \A h \in Handlers : pc'[h] = "echoing" => Holds(saved, req[h])'
  BY <1>7 DEF Holds
<1> QED
  BY <1>4, <1>5, <1>6, <1>8, <1>9 DEF Durable

(* What is acknowledged is still within what is saved. *)
LEMMA AckedWithin ==
    ASSUME Durable, NEW s \in SessionType, Covers(s, saved)
    PROVE  /\ \A f \in Fields : acked.data[f] <= s.data[f]
           /\ acked.msgs \subseteq ToSet(s.msgs)
<1>1. ASSUME NEW f \in Fields PROVE acked.data[f] <= s.data[f]
  <2>1. acked.data[f] <= saved.data[f] /\ saved.data[f] <= s.data[f]
    BY DEF Durable, AckedIsDurable, Covers
  <2>2. acked.data[f] \in Nat /\ saved.data[f] \in Nat /\ s.data[f] \in Nat
    BY DEF Durable, Types, SessionType
  <2> QED
    BY <2>1, <2>2
<1> QED
  BY <1>1 DEF Durable, AckedIsDurable, Covers

(* A request that s holds is acknowledged: s holds what is acknowledged.   *)
LEMMA FinishWithin ==
    ASSUME Durable, NEW h \in Handlers, Finish(h),
           NEW s \in SessionType, Covers(s, saved), Holds(s, req[h])
    PROVE  /\ acked' \in [data : [Fields -> Nat], msgs : SUBSET Nat]
           /\ \A f \in Fields : acked'.data[f] <= s.data[f]
           /\ acked'.msgs \subseteq ToSet(s.msgs)
<1> DEFINE kind == req[h].kind
           stamp == req[h].stamp
<1>1. /\ acked \in [data : [Fields -> Nat], msgs : SUBSET Nat]
      /\ stamp \in Nat /\ kind \in Announced \cup Unannounced
  BY DEF Durable, Types, Holds
<1>2. /\ \A f \in Fields : acked.data[f] <= s.data[f]
      /\ acked.msgs \subseteq ToSet(s.msgs)
  BY AckedWithin
<1>3. CASE kind = "chat"
  <2>1. acked' = [acked EXCEPT !.msgs = @ \cup {stamp}]
    BY <1>3 DEF Finish
  <2>2. stamp \in ToSet(s.msgs)
    BY <1>3 DEF Holds
  <2> QED
    BY <1>1, <1>2, <2>1, <2>2
<1>4. CASE kind # "chat"
  <2> DEFINE g == FieldOf(kind)
             newest == IF acked.data[g] > stamp THEN acked.data[g] ELSE stamp
  <2>1. g \in Fields
    BY <1>1, <1>4, FieldOfType
  <2>2. acked' = [acked EXCEPT !.data[g] = newest]
    BY <1>4 DEF Finish
  <2>3. newest \in Nat /\ newest <= s.data[g]
    BY <1>1, <1>2, <1>4, <2>1 DEF Holds
  <2> HIDE DEF g, newest
  <2> QED
    BY <1>1, <1>2, <2>1, <2>2, <2>3
<1> QED
  BY <1>3, <1>4

LEMMA FinishType ==
    ASSUME Types, NEW h \in Handlers, Finish(h)
    PROVE  /\ pc' \in [Handlers -> {"unused", "accepted", "connecting", "reading", "saving",
                                     "echoing", "closing", "ended"}]
           /\ req' \in [Handlers -> [kind : Announced \cup Unannounced \cup {"none"}, stamp : Nat]]
           /\ pc'[h] = "reading"
           /\ \A i \in Handlers : i # h => pc'[i] = pc[i] /\ req'[i] = req[i]
BY DEF Types, Finish, Nothing

LEMMA GreetDurable == ASSUME Durable, NEW k \in Conns, HubGreet(k) PROVE Durable'
<1>1. /\ saved' = Persistable(session) /\ pc' = [pc EXCEPT ![k] = "reading"]
      /\ UNCHANGED <<session, clock, acked, req>>
  BY DEF HubGreet, sessionVars
<1>0. /\ Persistable(session) \in SessionType
      /\ Covers(Persistable(session), saved)
  BY PersistableIs
<1>2. Types'
  BY <1>0, <1>1 DEF Durable, Types
<1>3. /\ \A f \in Fields : acked'.data[f] <= saved'.data[f]
      /\ acked'.msgs \subseteq ToSet(saved'.msgs)
  BY <1>0, <1>1, AckedWithin
<1>4. \A h \in Handlers : pc'[h] \in {"saving", "echoing"} => pc'[h] = pc[h]
  BY <1>1 DEF Durable, Types
<1> QED
  BY <1>1, <1>2, <1>3, <1>4, SavedDurable
(* The awaited broadcast of a mutation is over. *)
LEMMA SaveDurable == ASSUME Durable, NEW h \in Handlers, HubSave(h) PROVE Durable'
<1>1. /\ pc[h] = "saving" /\ saved' = Persistable(session)
      /\ UNCHANGED <<session, clock>>
  BY DEF HubSave, sessionVars
<1> DEFINE kept == Persistable(session)
<1>2. /\ kept \in SessionType /\ saved \in SessionType /\ Covers(kept, saved)
      /\ Holds(kept, req[h])
  <2>1. /\ Holds(session, req[h]) /\ saved \in SessionType
        /\ req[h] \in [kind : Announced \cup Unannounced \cup {"none"}, stamp : Nat]
    BY <1>1 DEF Durable, Types
  <2> QED
    BY <2>1, PersistableIs, HoldsSaved
<1> HIDE DEF kept
<1>0. saved' = kept
  BY <1>1 DEF kept
<1>3. CASE pc' = [pc EXCEPT ![h] = "echoing"] /\ UNCHANGED <<acked, req>>
  <2>1. Types'
    BY <1>0, <1>1, <1>2, <1>3 DEF Durable, Types
  <2>2. /\ \A f \in Fields : acked'.data[f] <= kept.data[f]
        /\ acked'.msgs \subseteq ToSet(kept.msgs)
    BY <1>2, <1>3, AckedWithin
  <2>3. /\ \A i \in Handlers : i # h => pc'[i] = pc[i]
        /\ pc'[h] = "echoing" /\ req' = req
    BY <1>3 DEF Durable, Types
  <2> QED
    BY <1>0, <1>1, <2>1, <2>2, <2>3, SavedDurable
<1>4. CASE Finish(h)
  <2>1. /\ acked' \in [data : [Fields -> Nat], msgs : SUBSET Nat]
        /\ \A f \in Fields : acked'.data[f] <= kept.data[f]
        /\ acked'.msgs \subseteq ToSet(kept.msgs)
    BY <1>2, <1>4, FinishWithin
  <2>2. /\ pc' \in [Handlers -> {"unused", "accepted", "connecting", "reading", "saving",
                                   "echoing", "closing", "ended"}]
        /\ req' \in [Handlers -> [kind : Announced \cup Unannounced \cup {"none"}, stamp : Nat]]
        /\ pc'[h] = "reading"
        /\ \A i \in Handlers : i # h => pc'[i] = pc[i] /\ req'[i] = req[i]
    BY <1>4, FinishType DEF Durable
  <2>3. Types'
    BY <1>0, <1>1, <1>2, <2>1, <2>2 DEF Durable, Types
  <2> QED
    BY <1>0, <1>1, <2>1, <2>2, <2>3, SavedDurable
<1>5. (pc' = [pc EXCEPT ![h] = "echoing"] /\ UNCHANGED <<acked, req>>) \/ Finish(h)
  BY DEF HubSave
<1> QED
  BY <1>3, <1>4, <1>5

(* The awaited broadcast of the legacy event is over: what the request     *)
(* wrote is on disk since HubSave.                                         *)
LEMMA EchoedDurable == ASSUME Durable, NEW h \in Handlers, HubEchoed(h) PROVE Durable'
<1>1. /\ pc[h] = "echoing" /\ Finish(h)
      /\ UNCHANGED <<session, clock, saved>>
  BY DEF HubEchoed, sessionVars
<1>2. saved \in SessionType /\ Holds(saved, req[h])
  BY <1>1 DEF Durable, Types
<1>3. /\ acked' \in [data : [Fields -> Nat], msgs : SUBSET Nat]
      /\ \A f \in Fields : acked'.data[f] <= saved.data[f]
      /\ acked'.msgs \subseteq ToSet(saved.msgs)
  BY <1>1, <1>2, CoversItself, FinishWithin
<1>4. /\ pc' \in [Handlers -> {"unused", "accepted", "connecting", "reading", "saving",
                                 "echoing", "closing", "ended"}]
      /\ req' \in [Handlers -> [kind : Announced \cup Unannounced \cup {"none"}, stamp : Nat]]
      /\ pc'[h] = "reading"
      /\ \A i \in Handlers : i # h => pc'[i] = pc[i] /\ req'[i] = req[i]
  BY <1>1, FinishType DEF Durable
<1>5. Types'
  BY <1>1, <1>3, <1>4 DEF Durable, Types
<1>6. AckedIsDurable'
  BY <1>1, <1>3 DEF AckedIsDurable
<1>7. /\ \A i \in Handlers : pc'[i] = "saving" => Holds(session, req[i])'
      /\ \A i \in Handlers : pc'[i] = "echoing" => Holds(saved, req[i])'
  BY <1>1, <1>4 DEF Durable, Holds
<1>8. /\ Covers(session, saved)' /\ saved'.data["agent"] = 0
      /\ \A f \in Fields : session'.data[f] <= clock'
  BY <1>1 DEF Durable, Covers
<1> QED
  BY <1>5, <1>6, <1>7, <1>8 DEF Durable

(* After a restart the memory is what was saved and no request is open.    *)
LEMMA RestartDurable == ASSUME Durable, HubRestart PROVE Durable'
<1>1. /\ session' = saved /\ UNCHANGED <<saved, clock, acked>>
      /\ req' = [h \in Handlers |-> Nothing]
      /\ pc' = [h \in Handlers |-> IF h = Agent THEN "reading"
                                   ELSE IF pc[h] = "unused" THEN "unused" ELSE "ended"]
  BY DEF HubRestart
<1>2. Types'
  BY <1>1 DEF Durable, Types, Nothing
<1>3. \A h \in Handlers : pc'[h] \notin {"saving", "echoing"}
  BY <1>1
<1>4. Covers(session, saved)'
  <2>1. Covers(saved, saved)
    BY CoversItself DEF Durable, Types
  <2> QED
    BY <1>1, <2>1 DEF Covers
<1>5. ASSUME NEW f \in Fields PROVE session'.data[f] <= clock'
  <2>1. saved.data[f] <= session.data[f] /\ session.data[f] <= clock
    BY DEF Durable, Covers
  <2>2. saved.data[f] \in Nat /\ session.data[f] \in Nat /\ clock \in Nat
    BY DEF Durable, Types, SessionType
  <2> QED
    BY <1>1, <2>1, <2>2
<1>6. AckedIsDurable' /\ saved'.data["agent"] = 0
  BY <1>1 DEF Durable, AckedIsDurable
<1> QED
  BY <1>2, <1>3, <1>4, <1>5, <1>6 DEF Durable

(* An event without a version writes at most the session's agent. *)
LEMMA EventIs ==
    ASSUME Durable, ToolEvent \/ AgentEvent
    PROVE  /\ session' \in SessionType /\ Covers(session', session)
           /\ \A f \in Fields : session'.data[f] <= clock'
           /\ \A f \in Fields \ {"agent"} : session'.data[f] = session.data[f]
           /\ session'.v = session.v /\ session'.msgs = session.msgs
           /\ clock < MaxWrites /\ clock' = clock + 1 /\ clock \in Nat
           /\ history' = history /\ running = NoConn
           /\ UNCHANGED <<saved, acked, boundVars, running, pc, req, reg, connVars, clientVars>>
<1>1. /\ session \in SessionType /\ clock \in Nat
      /\ \A f \in Fields : session.data[f] \in Nat /\ session.data[f] <= clock
  BY DEF Durable, Types, SessionType
<1>2. CASE ToolEvent
  <2>1. /\ session' = session /\ clock < MaxWrites /\ clock' = clock + 1
        /\ history' = history /\ running = NoConn
        /\ UNCHANGED <<saved, acked, boundVars, running, pc, req, reg, connVars, clientVars>>
    BY <1>1, <1>2 DEF ToolEvent, Announce, Commit, SessionType
  <2>2. Covers(session, session)
    BY <1>1, CoversItself
  <2>3. \A x \in Nat : x <= clock => x <= clock + 1
    BY <1>1
  <2> QED
    BY <1>1, <2>1, <2>2, <2>3
<1>3. CASE AgentEvent
  <2> DEFINE w == Wrote(session, {"agent"})
  <2>1. /\ w \in SessionType /\ w.msgs = session.msgs /\ w.v = session.v
        /\ \A f \in Fields : w.data[f] = IF f \in {"agent"} THEN clock + 1 ELSE session.data[f]
        /\ \A f \in Fields : w.data[f] <= clock + 1
        /\ Covers(w, session)
    BY WroteType DEF Durable
  <2>2. /\ Commit(w, {"agent"}, {}) /\ running = NoConn
        /\ UNCHANGED <<saved, acked, boundVars, running, pc, req, reg, connVars, clientVars>>
    BY <1>3 DEF AgentEvent, Announce
  <2> HIDE DEF w
  <2>3. /\ session' = w /\ clock < MaxWrites /\ clock' = clock + 1 /\ history' = history
    BY <1>1, <2>1, <2>2 DEF Commit, SessionType
  <2> QED
    BY <1>1, <2>1, <2>2, <2>3
<1> QED
  BY <1>2, <1>3

LEMMA EventDurable == ASSUME Durable, ToolEvent \/ AgentEvent PROVE Durable'
<1>1. /\ session' \in SessionType /\ Covers(session', session) /\ clock' \in Nat
      /\ \A f \in Fields : session'.data[f] <= clock'
      /\ UNCHANGED <<saved, acked, pc, req>>
  BY EventIs
<1>2. Types'
  BY <1>1 DEF Durable, Types
<1> QED
  BY <1>1, <1>2, Growing

(* A tool panel takes a write of the client's own. *)
LEMMA PanelDurable == ASSUME Durable, NEW d \in Devices, ToolPanel(d) PROVE Durable'
<1>1. clock' = clock + 1 /\ UNCHANGED <<session, saved, acked, pc, req>>
  BY DEF ToolPanel
<1>2. session \in SessionType /\ clock \in Nat
  BY DEF Durable, Types
<1>3. Covers(session', session)
  BY <1>1, <1>2, CoversItself
<1>4. \A f \in Fields : session'.data[f] <= clock'
  <2>1. \A f \in Fields : session.data[f] \in Nat /\ session.data[f] <= clock
    BY <1>2 DEF Durable, SessionType
  <2>2. \A x \in Nat : x <= clock => x <= clock + 1
    BY <1>2
  <2> QED
    BY <1>1, <2>1, <2>2
<1>5. Types'
  BY <1>1, <1>2 DEF Durable, Types
<1> QED
  BY <1>1, <1>3, <1>4, <1>5, Growing

(* The steps that move only messages, connections and client state.        *)
LEMMA QuietDurable ==
    ASSUME Durable, UNCHANGED <<session, clock, saved, acked, req>>,
           \/ UNCHANGED pc
           \/ \E k \in Conns : \E p \in {"accepted", "closing", "ended"} :
                 pc' = [pc EXCEPT ![k] = p]
    PROVE  Durable'
<1>1. Types'
  BY DEF Durable, Types, Handlers
<1>2. \A h \in Handlers : pc'[h] \in {"saving", "echoing"} => pc'[h] = pc[h]
  BY DEF Durable, Types
<1> QED
  BY <1>1, <1>2, Resting

LEMMA HandlerDurable == ASSUME Durable, NEW k \in Conns, HandlerStep(k) PROVE Durable'
<1>1. CASE HubConnect(k)
  BY <1>1, ConnectDurable
<1>2. CASE HubGreet(k)
  BY <1>2, GreetDurable
<1>3. CASE \E kind \in Announced : HubUpdate(k, kind)
  BY <1>3, UpdateDurable
<1>4. CASE HubChat(k)
  BY <1>4, ChatDurable
<1>5. CASE HubAssociate(k)
  BY <1>5, AssociateDurable
<1>6. CASE HubReject(k) \/ HubSnapshot(k)
  BY <1>6, QuietDurable DEF HubReject, HubSnapshot, sessionVars
<1>7. CASE HubEnd(k)
  BY <1>7, QuietDurable DEF HubEnd, sessionVars
<1>8. CASE HubUnregister(k)
  BY <1>8, QuietDurable DEF HubUnregister, sessionVars
<1> QED
  BY <1>1, <1>2, <1>3, <1>4, <1>5, <1>6, <1>7, <1>8 DEF HandlerStep

LEMMA ClientDurable == ASSUME Durable, NEW d \in Devices, ClientStep(d) PROVE Durable'
<1>1. CASE \E k \in Conns : Open(d, k)
  BY <1>1, QuietDurable DEF Open, sessionVars
<1>2. CASE Dropped(d) \/ Reload(d)
  BY <1>2, QuietDurable DEF Dropped, Reload, sessionVars
<1>3. CASE Receive(d) \/ Render(d)
  BY <1>3, QuietDurable DEF Receive, Render, sessionVars
<1>4. CASE ToolPanel(d)
  BY <1>4, PanelDurable
<1> QED
  BY <1>1, <1>2, <1>3, <1>4 DEF ClientStep

LEMMA StepDurable == Durable /\ [Next]_vars => Durable'
<1> SUFFICES ASSUME Durable, [Next]_vars PROVE Durable'
  OBVIOUS
<1>1. CASE RunSend
  BY <1>1, QuietDurable DEF RunSend, sessionVars
<1>2. CASE \E k \in Conns : HandlerStep(k)
  BY <1>2, HandlerDurable
<1>3. CASE \E k \in Conns : Break(k)
  BY <1>3, QuietDurable DEF Break, sessionVars
<1>4. CASE \E h \in Handlers : HubSave(h) \/ HubEchoed(h)
  BY <1>4, SaveDurable, EchoedDurable
<1>5. CASE HubDetected
  BY <1>5, DetectedDurable
<1>6. CASE RestCreate
  BY <1>6, RestDurable
<1>7. CASE HubRestart
  BY <1>7, RestartDurable
<1>8. CASE \E d \in Devices : ClientStep(d)
  BY <1>8, ClientDurable
<1>9. CASE UNCHANGED vars
  BY <1>9, QuietDurable DEF vars, sessionVars
<1>10. CASE ToolEvent \/ AgentEvent
  BY <1>10, EventDurable
<1> QED
  BY <1>1, <1>2, <1>3, <1>4, <1>5, <1>6, <1>7, <1>8, <1>9, <1>10 DEF Next

(* In every reachable state the disk is no newer than the memory, which    *)
(* holds what is being saved, and the disk what is being acknowledged      *)
(* (_broadcast_state_update, _persist_session).                            *)
THEOREM Durability == Spec => []Durable
<1>1. Init => Durable
  BY InitDurable
<1>2. Durable /\ [Next]_vars => Durable'
  BY StepDurable
<1> QED
  BY <1>1, <1>2, PTL DEF Spec

(* What a client was told is done is in the saved snapshot, whatever the   *)
(* order in which the handlers come back from their broadcasts to save it, *)
(* so a crash loses no acknowledged write.                                 *)
THEOREM AckedSurvives == Spec => []AckedIsDurable
<1>1. Durable => AckedIsDurable
  BY DEF Durable
<1> QED
  BY <1>1, Durability, PTL

-----------------------------------------------------------------------------
(* Types of the messages, the event loop, the connections and the clients. *)

SessionTyped ==
    /\ history \in [0..MaxWrites -> [Context -> Nat]]
    /\ silent \in [Devices -> SUBSET (Fields \cup {"messages"})]
    /\ refusals \in Nat /\ restarts \in Nat

LoopTyped ==
    /\ ready \in Seq(Task)
    /\ running \in Handlers \cup {NoConn}

WireTyped ==
    /\ reg \in [Devices -> Conns \cup {NoConn}]
    /\ dev \in [Conns -> Devices \cup {None}]
    /\ up \in [Conns -> BOOLEAN]
    /\ chan \in [Conns -> Seq(Message)]
    /\ asks \in [Conns -> Nat]

ClientTyped ==
    /\ link \in [Devices -> Conns \cup {NoConn}]
    /\ again \in [Devices -> BOOLEAN]
    /\ view \in [Devices -> ViewType]
    /\ ref \in [Devices -> Nat]
    /\ synced \subseteq Devices /\ jumped \subseteq Devices

Typed == SessionTyped /\ LoopTyped /\ WireTyped /\ ClientTyped

(* The messages of the hub. *)
LEMMA MessageTypes ==
    ASSUME Types
    PROVE  /\ Snapshot(session) \in Message
           /\ [kind |-> "rejected", v |-> session.v] \in Message
           /\ [kind |-> "chat", msg |-> clock + 1] \in Message
           /\ \A f \in Fields : \A x \in Nat : Set(f, x) \in Message
           /\ \A kind \in Announced : Update(kind) \in Message
<1>1. /\ session.v \in Nat /\ session.data \in [Fields -> Nat]
      /\ session.msgs \in Seq(Nat) /\ clock \in Nat
  BY DEF Types, SessionType
<1>2. Snapshot(session) \in Message
  BY <1>1 DEF Snapshot, Message
<1>3. [kind |-> "rejected", v |-> session.v] \in Message
  BY <1>1 DEF Message
<1>4. [kind |-> "chat", msg |-> clock + 1] \in Message
  BY <1>1 DEF Message
<1>5. \A f \in Fields : \A x \in Nat : Set(f, x) \in Message
  BY DEF Set, Message
<1>6. ASSUME NEW kind \in Announced PROVE Update(kind) \in Message
  <2>1. FieldOf(kind) \in Fields
    BY FieldOfType DEF Announced
  <2> QED
    BY <1>1, <2>1 DEF Update, Message
<1> QED
  BY <1>2, <1>3, <1>4, <1>5, <1>6

(* One send task for each device of a finite set. *)
LEMMA SendTasks ==
    ASSUME NEW D \in SUBSET Devices, NEW m \in Message
    PROVE  SetToSeq({Send(d, m) : d \in D}) \in Seq({Send(d, m) : d \in D})
<1> DEFINE T == {Send(d, m) : d \in D}
<1>1. IsFiniteSet(D)
  BY DevicesAssumption, FS_Subset
<1>2. IsFiniteSet(T)
  <2> DEFINE f == [d \in D |-> Send(d, m)]
  <2>1. f \in Surjection(D, T)
    BY DEF Surjection
  <2> QED
    BY <1>1, <2>1, FS_Surjection
<1>3. Cardinality(T) \in Nat /\ ExistsBijection(1..Cardinality(T), T)
  BY <1>2, FS_CardinalityType
<1>4. \E f \in [1..Cardinality(T) -> T] : IsInjective(f)
  BY <1>3 DEF ExistsBijection, Bijection, Injection
<1>5. SetToSeq(T) \in [1..Cardinality(T) -> T]
  BY <1>4 DEF SetToSeq
<1> DEFINE q == SetToSeq(T)
           n == Cardinality(T)
<1>6. q \in [1..n -> T] /\ n \in Nat
  BY <1>3, <1>5
<1> HIDE DEF q, n, T
<1>7. q \in Seq(T)
  BY <1>6
<1> QED
  BY <1>7 DEF q, T

(* A handler that broadcasts. *)
LEMMA AwaitTyped ==
    ASSUME NEW q \in Seq(Task), NEW h \in Handlers, NEW targets, NEW tasks \in Seq(Task),
           Await(q, h, targets, tasks)
    PROVE  LoopTyped'
<1>1. Resume(h) \in Task
  BY DEF Resume, Task
<1>2. q \o tasks \in Seq(Task)
  OBVIOUS
<1>3. Append(q \o tasks, Resume(h)) \in Seq(Task)
  BY <1>1, <1>2
<1>4. ready' \in Seq(Task) /\ (running' = h \/ running' = NoConn)
  BY <1>3 DEF Await
<1> QED
  BY <1>4 DEF LoopTyped

LEMMA BroadcastTyped ==
    ASSUME NEW q \in Seq(Task), NEW h \in Handlers, NEW m \in Message, Broadcast(q, h, m)
    PROVE  LoopTyped'
<1> DEFINE T == {Send(d, m) : d \in Registered}
<1>1. Registered \in SUBSET Devices
  BY DEF Registered
<1>2. SetToSeq(T) \in Seq(T)
  BY <1>1, SendTasks
<1>3. T \subseteq Task
  BY <1>1 DEF Send, Task
<1> DEFINE tasks == SetToSeq(T)
<1>4. Await(q, h, Registered, tasks)
  BY DEF Broadcast
<1> HIDE DEF T, tasks
<1>5. tasks \in Seq(Task)
  BY <1>2, <1>3 DEF tasks
<1> QED
  BY <1>4, <1>5, AwaitTyped

LEMMA RestTyped == ASSUME LoopTyped, ready # <<>> \/ running # NoConn PROVE Rest \in Seq(Task)
BY DEF LoopTyped, Rest

(* A handler that has its turn. *)
LEMMA ResumedRest == ASSUME LoopTyped, NEW h \in Handlers, Resumed(h) PROVE Rest \in Seq(Task)
<1>1. h # NoConn
  BY BoundAssumption DEF Handlers, Conns, Agent, NoConn
<1> QED
  BY <1>1, RestTyped DEF Resumed

(* A message written to one connection. *)
LEMMA AppendTyped ==
    ASSUME WireTyped, NEW k, NEW m \in Message
    PROVE  [chan EXCEPT ![k] = Append(@, m)] \in [Conns -> Seq(Message)]
<1> DEFINE q == [chan EXCEPT ![k] = Append(@, m)]
<1>1. chan \in [Conns -> Seq(Message)]
  BY DEF WireTyped
<1>2. ASSUME NEW j \in Conns PROVE q[j] \in Seq(Message)
  <2>1. chan[j] \in Seq(Message)
    BY <1>1
  <2>2. Append(chan[j], m) \in Seq(Message)
    BY <2>1
  <2>3. q[j] = IF j = k THEN Append(chan[j], m) ELSE chan[j]
    BY <1>1
  <2> QED
    BY <2>1, <2>2, <2>3
<1> QED
  BY <1>1, <1>2

LEMMA WrittenTyped ==
    ASSUME WireTyped, NEW d, NEW m \in Message
    PROVE  Written(d, m) \in [Conns -> Seq(Message)]
<1>1. [chan EXCEPT ![reg[d]] = Append(@, m)] \in [Conns -> Seq(Message)]
  BY AppendTyped
<1> QED
  BY <1>1 DEF Written, WireTyped

LEMMA CommitTyped ==
    ASSUME SessionTyped, NEW s \in SessionType,
           NEW told, NEW hidden \in SUBSET (Fields \cup {"messages"}), Commit(s, told, hidden),
           UNCHANGED boundVars
    PROVE  SessionTyped'
<1>1. ContextOf(s) \in [Context -> Nat]
  BY DEF ContextOf, SessionType, Fields
<1>2. history' = [history EXCEPT ![s.v] = ContextOf(s)] \/ history' = history
  BY DEF Commit
<1>3. history' \in [0..MaxWrites -> [Context -> Nat]]
  BY <1>1, <1>2 DEF SessionTyped
<1> QED
  BY <1>3 DEF SessionTyped, Commit, boundVars

-----------------------------------------------------------------------------
(* Every step keeps the types. Types itself is a part of Durable.           *)

LEMMA MutateTyped ==
    ASSUME Types, Types', Typed, NEW h \in Handlers, NEW kind \in Announced \cup Unannounced,
           NEW next, NEW m \in Message, Mutate(h, kind, next, m)
    PROVE  Typed'
<1> DEFINE s == [next EXCEPT !.v = @ + 1]
           told == IF kind = "chat" THEN {} ELSE {FieldOf(kind)}
           hidden == IF kind = "associate" THEN {"device"} ELSE {}
<1>1. /\ Commit(s, told, hidden) /\ Broadcast(ready, h, m)
      /\ UNCHANGED <<boundVars, reg, connVars, clientVars>>
  BY DEF Mutate
<1>2. s \in SessionType
  BY <1>1 DEF Commit, Types
<1>3. hidden \in SUBSET (Fields \cup {"messages"})
  BY FieldsAre
<1> HIDE DEF s, told, hidden
<1>4. SessionTyped'
  BY <1>1, <1>2, <1>3, CommitTyped DEF Typed
<1>5. LoopTyped'
  BY <1>1, BroadcastTyped DEF Typed, LoopTyped
<1>6. WireTyped' /\ ClientTyped'
  BY <1>1 DEF Typed, WireTyped, ClientTyped, connVars, clientVars
<1> QED
  BY <1>4, <1>5, <1>6 DEF Typed

LEMMA MutationsTyped ==
    ASSUME Types, Types', Typed,
           \/ \E k \in Conns : \/ \E kind \in Announced : HubUpdate(k, kind)
                               \/ HubChat(k) \/ HubAssociate(k)
           \/ HubDetected
    PROVE  Typed'
<1>1. ASSUME NEW k \in Conns, NEW kind \in Announced, HubUpdate(k, kind) PROVE Typed'
  <2>1. Update(kind) \in Message /\ k \in Handlers
    BY MessageTypes DEF Handlers
  <2>2. \E next : Mutate(k, kind, next, Update(kind))
    BY <1>1 DEF HubUpdate
  <2> QED
    BY <2>1, <2>2, MutateTyped
<1>2. ASSUME NEW k \in Conns, HubChat(k) PROVE Typed'
  <2>1. [kind |-> "chat", msg |-> clock + 1] \in Message /\ k \in Handlers
    BY MessageTypes DEF Handlers
  <2>2. \E next : Mutate(k, "chat", next, [kind |-> "chat", msg |-> clock + 1])
    BY <1>2 DEF HubChat
  <2> QED
    BY <2>1, <2>2, MutateTyped DEF Unannounced
<1>3. clock + 1 \in Nat
  BY DEF Types
<1>4. ASSUME NEW k \in Conns, HubAssociate(k) PROVE Typed'
  <2>1. Set("association", clock + 1) \in Message /\ k \in Handlers
    BY <1>3, MessageTypes, FieldsAre DEF Handlers
  <2>2. \E next : Mutate(k, "associate", next, Set("association", clock + 1))
    BY <1>4 DEF HubAssociate
  <2> QED
    BY <2>1, <2>2, MutateTyped DEF Unannounced
<1>5. ASSUME HubDetected PROVE Typed'
  <2>1. Set("detected", clock + 1) \in Message /\ Agent \in Handlers
    BY <1>3, MessageTypes, FieldsAre DEF Handlers
  <2>2. \E next : Mutate(Agent, "detected", next, Set("detected", clock + 1))
    BY <1>5 DEF HubDetected
  <2> QED
    BY <2>1, <2>2, MutateTyped DEF Unannounced
<1> QED
  BY <1>1, <1>2, <1>4, <1>5

(* The other steps of a handler. *)
LEMMA ConnectTyped == ASSUME Types, Types', Typed, NEW k \in Conns, HubConnect(k) PROVE Typed'
<1> DEFINE hidden == {"device", "issue", "status", "tests", "messages"}
<1>1. /\ Commit(Seeded, {}, hidden) \/ UNCHANGED sessionVars
      /\ Await(ready, k, Registered \ {dev[k]}, <<>>)
      /\ UNCHANGED <<boundVars, reg, connVars, clientVars>>
  BY DEF HubConnect
<1>2. hidden \in SUBSET (Fields \cup {"messages"})
  BY FieldsAre
<1> HIDE DEF hidden
<1>3. ASSUME Commit(Seeded, {}, hidden) PROVE SessionTyped'
  <2>1. Seeded \in SessionType
    BY <1>3 DEF Commit, Types
  <2> QED
    BY <1>1, <1>2, <1>3, <2>1, CommitTyped DEF Typed
<1>4. SessionTyped'
  BY <1>1, <1>3 DEF Typed, SessionTyped, sessionVars, boundVars
<1>5. LoopTyped'
  <2>1. ready \in Seq(Task) /\ k \in Handlers /\ <<>> \in Seq(Task)
    BY DEF Typed, LoopTyped, Handlers
  <2> QED
    BY <1>1, <2>1, AwaitTyped
<1>6. WireTyped' /\ ClientTyped'
  BY <1>1 DEF Typed, WireTyped, ClientTyped, connVars, clientVars
<1> QED
  BY <1>4, <1>5, <1>6 DEF Typed

LEMMA HandlerTyped ==
    ASSUME Types, Types', Typed, NEW k \in Conns,
           HubGreet(k) \/ HubReject(k) \/ HubSnapshot(k) \/ HubEnd(k) \/ HubUnregister(k)
    PROVE  Typed'
<1> USE DEF Typed
<1>1. k \in Handlers
  BY DEF Handlers
<1>2. /\ Snapshot(session) \in Message
      /\ [kind |-> "rejected", v |-> session.v] \in Message
  BY MessageTypes
<1>3. CASE HubGreet(k)
  <2>1. Rest \in Seq(Task)
    BY <1>1, <1>3, ResumedRest DEF HubGreet
  <2>2. LoopTyped'
    BY <1>3, <2>1 DEF HubGreet, LoopTyped
  <2>3. chan' \in [Conns -> Seq(Message)]
    BY <1>2, <1>3, AppendTyped DEF HubGreet, WireTyped
  <2>4. WireTyped' /\ ClientTyped'
    BY <1>3, <2>3 DEF HubGreet, WireTyped, ClientTyped, clientVars
  <2>5. Outdated(dev[k]) \in SUBSET (Fields \cup {"messages"})
    BY DEF Outdated
  <2>6. SessionTyped'
    BY <1>3, <2>5 DEF HubGreet, SessionTyped, boundVars
  <2> QED
    BY <2>2, <2>4, <2>6
<1>4. CASE HubReject(k)
  <2>1. chan' \in [Conns -> Seq(Message)]
    BY <1>2, <1>4, WrittenTyped DEF HubReject
  <2> QED
    BY <1>4, <2>1 DEF HubReject, SessionTyped, LoopTyped, WireTyped, ClientTyped, sessionVars,
                      loopVars, clientVars
<1>5. CASE HubSnapshot(k)
  <2>1. chan' \in [Conns -> Seq(Message)]
    BY <1>2, <1>5, WrittenTyped DEF HubSnapshot
  <2>2. asks' \in [Conns -> Nat]
    BY <1>5 DEF HubSnapshot, WireTyped
  <2> QED
    BY <1>5, <2>1, <2>2 DEF HubSnapshot, SessionTyped, LoopTyped, WireTyped, ClientTyped,
                            sessionVars, boundVars, loopVars, clientVars
<1>6. CASE HubEnd(k)
  <2>1. LoopTyped'
    <3>1. ready \in Seq(Task) /\ <<>> \in Seq(Task)
      BY DEF LoopTyped
    <3>2. Await(ready, k, Registered, <<>>)
      BY <1>6 DEF HubEnd
    <3> QED
      BY <1>1, <3>1, <3>2, AwaitTyped
  <2>2. SessionTyped' /\ WireTyped' /\ ClientTyped'
    BY <1>6 DEF HubEnd, SessionTyped, WireTyped, ClientTyped, sessionVars, clientVars
  <2> QED
    BY <2>1, <2>2
<1>7. CASE HubUnregister(k)
  <2>1. Rest \in Seq(Task)
    BY <1>1, <1>7, ResumedRest DEF HubUnregister
  <2>2. LoopTyped'
    BY <1>7, <2>1 DEF HubUnregister, LoopTyped
  <2>3. SessionTyped' /\ WireTyped' /\ ClientTyped'
    BY <1>7 DEF HubUnregister, SessionTyped, WireTyped, ClientTyped, sessionVars, boundVars,
                clientVars, NoConn
  <2> QED
    BY <2>2, <2>3
<1> QED
  BY <1>3, <1>4, <1>5, <1>6, <1>7

LEMMA SaveTyped ==
    ASSUME Types, Types', Typed, NEW h \in Handlers, HubSave(h) \/ HubEchoed(h)
    PROVE  Typed'
<1>1. Rest \in Seq(Task)
  BY ResumedRest DEF HubSave, HubEchoed, Typed
<1>2. LoopTyped'
  <2>1. CASE ready' = Rest /\ running' = NoConn
    BY <1>1, <2>1 DEF LoopTyped
  <2>2. ASSUME NEW x, Broadcast(Rest, h, Set(req[h].kind, x)), req[h].kind \in {"core", "tests"},
               x = req[h].stamp \/ x = session.data["tests"]
        PROVE LoopTyped'
    <3>1. req[h].kind \in Fields /\ "tests" \in Fields
      BY <2>2, FieldsAre
    <3>3. req[h].stamp \in Nat /\ session.data["tests"] \in Nat
      BY <3>1 DEF Types, SessionType
    <3>2. Set(req[h].kind, x) \in Message
      BY <2>2, <3>1, <3>3, MessageTypes
    <3> QED
      BY <1>1, <2>2, <3>2, BroadcastTyped
  <2> QED
    BY <2>1, <2>2 DEF HubSave, HubEchoed
<1>3. UNCHANGED <<sessionVars, boundVars, reg, connVars, clientVars>>
  BY DEF HubSave, HubEchoed
<1> QED
  BY <1>2, <1>3 DEF Typed, SessionTyped, WireTyped, ClientTyped, sessionVars, boundVars, connVars,
                    clientVars

LEMMA HubTyped ==
    ASSUME Types, Types', Typed, RunSend \/ RestCreate \/ HubRestart
    PROVE  Typed'
<1> USE DEF Typed
<1>1. CASE RunSend
  <2>1. ready[1] \in Task /\ Tail(ready) \in Seq(Task)
    BY <1>1 DEF RunSend, LoopTyped
  <2>2. ready[1].msg \in Message
    BY <1>1, <2>1 DEF RunSend, Task
  <2>3. chan' \in [Conns -> Seq(Message)]
    BY <1>1, <2>2, WrittenTyped DEF RunSend
  <2> QED
    BY <1>1, <2>1, <2>3 DEF RunSend, SessionTyped, LoopTyped, WireTyped, ClientTyped, sessionVars,
                            boundVars, clientVars
<1>2. CASE RestCreate
  <2>1. PICK f \in {"device", "issue"} : Commit(Wrote(session, {f}), {}, {f})
    BY <1>2 DEF RestCreate
  <2>2. Wrote(session, {f}) \in SessionType
    BY <2>1 DEF Commit, Types
  <2>3. SessionTyped'
    BY <1>2, <2>1, <2>2, CommitTyped, FieldsAre DEF RestCreate
  <2> QED
    BY <1>2, <2>3 DEF RestCreate, LoopTyped, WireTyped, ClientTyped, loopVars, connVars, clientVars
<1>3. CASE HubRestart
  BY <1>3 DEF HubRestart, SessionTyped, LoopTyped, WireTyped, ClientTyped, NoConn, clientVars
<1> QED
  BY <1>1, <1>2, <1>3

(* An event without a version appends its send tasks. *)
LEMMA EventQueue ==
    ASSUME Types, Typed, ToolEvent \/ AgentEvent
    PROVE  \E f \in {"core", "agent"} :
               /\ f \in Fields /\ Set(f, clock + 1) \in Message
               /\ SetToSeq({Send(d, Set(f, clock + 1)) : d \in Registered}) \in Seq(Task)
               /\ ready' = ready \o SetToSeq({Send(d, Set(f, clock + 1)) : d \in Registered})
               /\ silent' = [d \in Devices |->
                     (silent[d] \ (IF f = "agent" THEN {"agent"} ELSE {}))
                         \cup (IF f = "core" THEN {"core"} ELSE {})]
<1>1. PICK f \in {"core", "agent"} :
          /\ ready' = ready \o SetToSeq({Send(d, Set(f, clock + 1)) : d \in Registered})
          /\ silent' = [d \in Devices |->
                (silent[d] \ (IF f = "agent" THEN {"agent"} ELSE {}))
                    \cup (IF f = "core" THEN {"core"} ELSE {})]
  <2>1. CASE ToolEvent
    BY <2>1 DEF ToolEvent, Announce, Commit
  <2>2. CASE AgentEvent
    BY <2>2 DEF AgentEvent, Announce, Commit
  <2> QED
    BY <2>1, <2>2
<1>2. f \in Fields /\ clock + 1 \in Nat
  BY FieldsAre DEF Types
<1>3. Set(f, clock + 1) \in Message
  BY <1>2, MessageTypes
<1> DEFINE T == {Send(d, Set(f, clock + 1)) : d \in Registered}
<1>4. Registered \in SUBSET Devices
  BY DEF Registered
<1>5. SetToSeq(T) \in Seq(T)
  BY <1>3, <1>4, SendTasks
<1>6. T \subseteq Task
  BY <1>3, <1>4 DEF Send, Task
<1>7. SetToSeq(T) \in Seq(Task)
  <2> HIDE DEF T
  <2> QED
    BY <1>5, <1>6
<1> QED
  BY <1>1, <1>2, <1>3, <1>7

LEMMA EventTyped ==
    ASSUME Durable, Types', Typed, ToolEvent \/ AgentEvent
    PROVE  Typed'
<1>1. /\ history' = history
      /\ UNCHANGED <<boundVars, running, reg, connVars, clientVars>>
  BY EventIs
<1>2. Types
  BY DEF Durable
<1>3. PICK f \in {"core", "agent"} :
          /\ f \in Fields
          /\ SetToSeq({Send(d, Set(f, clock + 1)) : d \in Registered}) \in Seq(Task)
          /\ ready' = ready \o SetToSeq({Send(d, Set(f, clock + 1)) : d \in Registered})
          /\ silent' = [d \in Devices |->
                (silent[d] \ (IF f = "agent" THEN {"agent"} ELSE {}))
                    \cup (IF f = "core" THEN {"core"} ELSE {})]
  BY <1>2, EventQueue
<1>4. ready' \in Seq(Task)
  <2> DEFINE q == SetToSeq({Send(d, Set(f, clock + 1)) : d \in Registered})
  <2>1. q \in Seq(Task) /\ ready \in Seq(Task) /\ ready' = ready \o q
    BY <1>3 DEF Typed, LoopTyped
  <2> HIDE DEF q
  <2> QED
    BY <2>1
<1>5. silent' \in [Devices -> SUBSET (Fields \cup {"messages"})]
  BY <1>3, FieldsAre DEF Typed, SessionTyped
<1>6. SessionTyped'
  BY <1>1, <1>5 DEF Typed, SessionTyped, boundVars
<1>7. LoopTyped' /\ WireTyped' /\ ClientTyped'
  BY <1>1, <1>4 DEF Typed, LoopTyped, WireTyped, ClientTyped, connVars, clientVars
<1> QED
  BY <1>6, <1>7 DEF Typed

(* The panel of a client changes what it shows alone. *)
LEMMA PanelTyped ==
    ASSUME Types, Typed, NEW d \in Devices, ToolPanel(d)
    PROVE  Typed'
<1> USE DEF Typed
<1>1. clock + 1 \in Nat /\ "core" \in Fields
  BY FieldsAre DEF Types
<1>2. [view EXCEPT ![d].data["core"] = clock + 1] \in [Devices -> ViewType]
  <2>1. view[d] \in ViewType /\ view \in [Devices -> ViewType]
    BY DEF ClientTyped
  <2> DEFINE x == [view[d].data EXCEPT !["core"] = clock + 1]
  <2>2. x \in [Fields -> Nat]
    BY <1>1, <2>1 DEF ViewType
  <2>3. [view EXCEPT ![d].data["core"] = clock + 1] = [view EXCEPT ![d] = [@ EXCEPT !.data = x]]
    BY <2>1 DEF ViewType
  <2> HIDE DEF x
  <2>4. [view[d] EXCEPT !.data = x] \in ViewType
    BY <2>1, <2>2 DEF ViewType
  <2> QED
    BY <2>1, <2>3, <2>4
<1>3. ClientTyped'
  BY <1>2 DEF ToolPanel, ClientTyped
<1>4. silent' \in [Devices -> SUBSET (Fields \cup {"messages"})]
  BY <1>1 DEF ToolPanel, SessionTyped
<1>5. SessionTyped'
  BY <1>4 DEF ToolPanel, SessionTyped, boundVars
<1>6. LoopTyped' /\ WireTyped'
  BY DEF ToolPanel, LoopTyped, WireTyped, loopVars, connVars
<1> QED
  BY <1>3, <1>5, <1>6

(* The reducer keeps the type of what a client shows. *)
LEMMA AppliedTyped ==
    ASSUME NEW c \in ViewType, NEW m \in Message
    PROVE  Applied(c, m) \in ViewType
<1>1. c.v \in Nat /\ c.data \in [Fields -> Nat] /\ c.msgs \in Seq(Nat)
  BY DEF ViewType
<1>2. CASE m.kind = "snapshot"
  BY <1>2 DEF Applied, Message, ViewType
<1>3. CASE m.kind = "update"
  <2>1. m.v \in Nat /\ m.field \in Fields /\ m.val \in Nat
    BY <1>3 DEF Message
  <2> DEFINE data == [c.data EXCEPT ![m.field] = m.val]
  <2>2. data \in [Fields -> Nat]
    BY <1>1, <2>1
  <2>3. Applied(c, m) = IF m.v <= c.v THEN c ELSE [c EXCEPT !.v = m.v, !.data = data]
    BY <1>3 DEF Applied
  <2> HIDE DEF data
  <2> QED
    BY <2>1, <2>2, <2>3 DEF ViewType
<1>4. CASE m.kind = "set"
  <2>1. m.field \in Fields /\ m.val \in Nat
    BY <1>4 DEF Message
  <2> DEFINE data == [c.data EXCEPT ![m.field] = m.val]
  <2>2. data \in [Fields -> Nat]
    BY <1>1, <2>1
  <2>3. Applied(c, m) = [c EXCEPT !.data = data]
    BY <1>4 DEF Applied
  <2> HIDE DEF data
  <2> QED
    BY <2>2, <2>3 DEF ViewType
<1>5. CASE m.kind = "chat"
  <2>1. m.msg \in Nat
    BY <1>5 DEF Message
  <2>2. Append(c.msgs, m.msg) \in Seq(Nat)
    BY <1>1, <2>1
  <2> QED
    BY <1>5, <2>2 DEF Applied, ViewType
<1>6. CASE m.kind = "rejected"
  <2>1. m.v \in Nat
    BY <1>6 DEF Message
  <2> QED
    BY <1>1, <1>6, <2>1 DEF Applied, ViewType
<1>7. m.kind \in {"snapshot", "update", "set", "chat", "rejected"}
  BY DEF Message
<1> QED
  BY <1>2, <1>3, <1>4, <1>5, <1>6, <1>7

LEMMA ReceiveTyped == ASSUME Typed, NEW d \in Devices, Receive(d) PROVE Typed'
<1> DEFINE k == link[d]
           m == chan[k][1]
<1>1. k \in Conns /\ chan[k] \in Seq(Message) /\ chan[k] # <<>>
  BY DEF Typed, ClientTyped, WireTyped, Receive
<1>2. m \in Message /\ Tail(chan[k]) \in Seq(Message)
  BY <1>1
<1>3. chan' = [chan EXCEPT ![k] = Tail(@)]
  BY DEF Receive
<1>4. \/ asks' = [asks EXCEPT ![k] = IF up[k] THEN @ + 1 ELSE @]
      \/ asks' = asks
  BY DEF Receive
<1>5. \/ UNCHANGED <<view, synced, jumped>>
      \/ /\ view' = [view EXCEPT ![d] = Applied(@, m)]
         /\ synced' \subseteq synced \cup {d} /\ jumped' \subseteq jumped \cup {d}
  BY DEF Receive
<1>6. UNCHANGED <<sessionVars, boundVars, loopVars, reg, dev, up, link, again, ref>>
  BY DEF Receive
<1>7. Applied(view[d], m) \in ViewType
  BY <1>2, AppliedTyped DEF Typed, ClientTyped
<1> HIDE DEF m
<1>8. view' \in [Devices -> ViewType]
  BY <1>5, <1>7 DEF Typed, ClientTyped
<1> HIDE DEF k
<1>9. chan' \in [Conns -> Seq(Message)]
  BY <1>1, <1>2, <1>3 DEF Typed, WireTyped
<1>10. asks' \in [Conns -> Nat]
  <2>1. asks \in [Conns -> Nat] /\ asks[k] \in Nat
    BY <1>1 DEF Typed, WireTyped
  <2>2. \E n \in Nat : asks' = [asks EXCEPT ![k] = n] \/ asks' = asks
    <3>1. asks[k] + 1 \in Nat
      BY <2>1
    <3>2. CASE up[k]
      BY <1>4, <3>1, <3>2
    <3>3. CASE ~up[k]
      BY <1>4, <2>1, <3>3
    <3> QED
      BY <3>2, <3>3
  <2> QED
    BY <2>1, <2>2
<1> QED
  BY <1>5, <1>6, <1>8, <1>9, <1>10 DEF Typed, SessionTyped, LoopTyped, WireTyped, ClientTyped,
                                sessionVars, boundVars, loopVars

LEMMA ClientStepTyped == ASSUME Types, Typed, NEW d \in Devices, ClientStep(d) PROVE Typed'
<1> USE DEF Typed
<1>8. CASE ToolPanel(d)
  BY <1>8, PanelTyped
<1> SUFFICES ASSUME ~ToolPanel(d) PROVE Typed'
  BY <1>8
<1>1. UNCHANGED <<sessionVars, boundVars, loopVars>>
  BY DEF ClientStep, Open, Dropped, Reload, Receive, Render
<1>2. SessionTyped' /\ LoopTyped'
  BY <1>1 DEF SessionTyped, LoopTyped, sessionVars, boundVars, loopVars
<1>3. CASE \E k \in Conns : Open(d, k)
  BY <1>2, <1>3 DEF Open, WireTyped, ClientTyped
<1>4. CASE Dropped(d)
  BY <1>2, <1>4 DEF Dropped, WireTyped, ClientTyped, NoConn
<1>5. CASE Reload(d)
  <2>1. Empty \in ViewType
    BY DEF Empty, ViewType, Unset
  <2> QED
    BY <1>2, <1>5, <2>1 DEF Reload, WireTyped, ClientTyped, NoConn
<1>6. CASE Receive(d)
  BY <1>6, ReceiveTyped
<1>7. CASE Render(d)
  <2>1. view[d].v \in Nat
    BY DEF ClientTyped, ViewType
  <2> QED
    BY <1>2, <1>7, <2>1 DEF Render, WireTyped, ClientTyped, connVars
<1> QED
  BY <1>3, <1>4, <1>5, <1>6, <1>7 DEF ClientStep

LEMMA InitTyped == Init => Typed
<1> SUFFICES ASSUME Init PROVE Typed
  OBVIOUS
<1>1. SessionTyped
  BY DEF Init, SessionTyped
<1>2. LoopTyped
  BY DEF Init, LoopTyped, NoConn
<1>3. WireTyped
  BY DEF Init, WireTyped, NoConn
<1>4. ClientTyped
  BY DEF Init, ClientTyped, NoConn, Empty, ViewType, Unset
<1> QED
  BY <1>1, <1>2, <1>3, <1>4 DEF Typed

LEMMA StepTyped == Typed /\ Durable /\ Types /\ Types' /\ [Next]_vars => Typed'
<1> SUFFICES ASSUME Typed, Durable, Types, Types', [Next]_vars PROVE Typed'
  OBVIOUS
<1>1. ASSUME NEW k \in Conns, HandlerStep(k) PROVE Typed'
  BY <1>1, MutationsTyped, ConnectTyped, HandlerTyped DEF HandlerStep
<1>2. ASSUME NEW k \in Conns, Break(k) PROVE Typed'
  BY <1>2 DEF Break, Typed, SessionTyped, LoopTyped, WireTyped, ClientTyped, sessionVars,
              boundVars, loopVars, clientVars
<1>3. CASE UNCHANGED vars
  BY <1>3 DEF vars, Typed, SessionTyped, LoopTyped, WireTyped, ClientTyped, sessionVars,
              boundVars, loopVars, connVars, clientVars
<1> QED
  BY <1>1, <1>2, <1>3, MutationsTyped, SaveTyped, HubTyped, EventTyped, ClientStepTyped DEF Next

(* Every message on a connection and every task of the event loop is one   *)
(* the hub can send, and every handler, connection and client copy keeps   *)
(* its type (_broadcast_state_update, send_snapshot_ws, the clients' reducer).      *)
THEOREM SyncTypeCorrect == Spec => []TypeOK
<1>1. Durable => Types
  BY DEF Durable
<1>2. Init => Typed
  BY InitTyped
<1>3. Typed /\ Types => TypeOK
  BY DEF Typed, Types, SessionTyped, LoopTyped, WireTyped, ClientTyped, TypeOK
<1>4. Typed /\ Durable /\ Types /\ Types' /\ [Next]_vars => Typed'
  BY StepTyped
<1> QED
  BY <1>1, <1>2, <1>3, <1>4, Durability, PTL DEF Spec

-----------------------------------------------------------------------------
(* Versions. On every connection a snapshot is no older than the messages  *)
(* before it, and nothing on a live one is newer than the session.         *)

Versioned(m) == m.kind \in {"snapshot", "update", "rejected"}

Ordered(q) ==
    \A i, j \in DOMAIN q :
        i < j /\ Versioned(q[i]) /\ q[j].kind = "snapshot" => q[i].v <= q[j].v

Bounded(q, v) == \A i \in DOMAIN q : Versioned(q[i]) => q[i].v <= v

(* Snapshots are written at once: no task sends one. *)
TasksBounded(q, v) ==
    \A i \in DOMAIN q : q[i].task = "send" =>
        q[i].msg.kind # "snapshot" /\ (Versioned(q[i].msg) => q[i].msg.v <= v)

(* A connection nobody has opened is empty and nobody's. *)
UnusedQuiet ==
    \A k \in Conns : pc[k] = "unused" =>
        ~up[k] /\ chan[k] = <<>> /\ \A d \in Devices : link[d] # k

(* The snapshots a synced client has still to read are not older than what *)
(* it shows, and neither is the session while it is connected.             *)
ViewsBehind ==
    \A d \in synced :
        /\ link[d] \in Conns
        /\ up[link[d]] => view[d].v <= session.v
        /\ \A i \in DOMAIN chan[link[d]] :
              chan[link[d]][i].kind = "snapshot" => view[d].v <= chan[link[d]][i].v

VersionInv ==
    /\ \A k \in Conns : Ordered(chan[k])
    /\ \A k \in Conns : up[k] => Bounded(chan[k], session.v)
    /\ TasksBounded(ready, session.v)
    /\ UnusedQuiet
    /\ ViewsBehind

(* What is known of a state besides. *)
Known == Typed /\ Types

LEMMA VersionNat == ASSUME NEW m \in Message, Versioned(m) PROVE m.v \in Nat
BY DEF Message, Versioned

LEMMA AppendOrdered ==
    ASSUME NEW q \in Seq(Message), NEW m \in Message, NEW v \in Nat,
           Ordered(q), Bounded(q, v),
           Versioned(m) => m.v <= v, m.kind = "snapshot" => m.v = v
    PROVE  Ordered(Append(q, m)) /\ Bounded(Append(q, m), v)
<1> DEFINE a == Append(q, m)
<1>1. DOMAIN a = 1..(Len(q) + 1) /\ DOMAIN q = 1..Len(q) /\ Len(q) \in Nat
  OBVIOUS
<1>2. /\ \A i \in 1..Len(q) : a[i] = q[i]
      /\ a[Len(q) + 1] = m
  OBVIOUS
<1> HIDE DEF a
<1>3. ASSUME NEW i \in DOMAIN a, Versioned(a[i]) PROVE a[i].v <= v
  <2>1. CASE i = Len(q) + 1
    BY <1>2, <1>3, <2>1
  <2>2. CASE i \in 1..Len(q)
    BY <1>1, <1>2, <1>3, <2>2 DEF Bounded
  <2> QED
    BY <1>1, <2>1, <2>2
<1>4. ASSUME NEW i \in DOMAIN a, NEW j \in DOMAIN a, i < j, Versioned(a[i]),
             a[j].kind = "snapshot"
      PROVE  a[i].v <= a[j].v
  <2>1. i \in 1..Len(q)
    BY <1>1, <1>4
  <2>2. CASE j = Len(q) + 1
    BY <1>2, <1>3, <1>4, <2>2
  <2>3. CASE j \in 1..Len(q)
    BY <1>1, <1>2, <1>4, <2>1, <2>3 DEF Ordered
  <2> QED
    BY <1>1, <2>2, <2>3
<1> QED
  BY <1>3, <1>4 DEF Ordered, Bounded, a

LEMMA TailOrdered ==
    ASSUME NEW q \in Seq(Message), q # <<>>, Ordered(q), NEW v
    PROVE  /\ Ordered(Tail(q))
           /\ Bounded(q, v) => Bounded(Tail(q), v)
           /\ \A i \in DOMAIN Tail(q) : i + 1 \in DOMAIN q /\ Tail(q)[i] = q[i + 1] /\ 1 < i + 1
<1> DEFINE t == Tail(q)
<1>1. \A i \in DOMAIN t : i \in Nat /\ i + 1 \in DOMAIN q /\ t[i] = q[i + 1] /\ 1 < i + 1
  OBVIOUS
<1> HIDE DEF t
<1>2. ASSUME NEW i \in DOMAIN t, NEW j \in DOMAIN t, i < j, Versioned(t[i]), t[j].kind = "snapshot"
      PROVE  t[i].v <= t[j].v
  <2>1. i + 1 < j + 1
    BY <1>1, <1>2
  <2> QED
    BY <1>1, <1>2, <2>1 DEF Ordered
<1>3. Ordered(t)
  BY <1>2 DEF Ordered
<1>4. Bounded(q, v) => Bounded(t, v)
  BY <1>1 DEF Bounded
<1> QED
  BY <1>1, <1>3, <1>4 DEF t

(* Bounds are kept when the version rises. *)
LEMMA BoundedMore ==
    ASSUME NEW v \in Nat, NEW w \in Nat, v <= w
    PROVE  /\ \A q \in Seq(Message) : Bounded(q, v) => Bounded(q, w)
           /\ \A q \in Seq(Task) : TasksBounded(q, v) => TasksBounded(q, w)
<1>1. ASSUME NEW q \in Seq(Message), Bounded(q, v) PROVE Bounded(q, w)
  <2>1. ASSUME NEW i \in DOMAIN q, Versioned(q[i]) PROVE q[i].v <= w
    <3>1. q[i] \in Message
      OBVIOUS
    <3>2. q[i].v \in Nat /\ q[i].v <= v
      BY <1>1, <2>1, <3>1, VersionNat DEF Bounded
    <3> QED
      BY <3>2
  <2> QED
    BY <2>1 DEF Bounded
<1>2. ASSUME NEW q \in Seq(Task), TasksBounded(q, v) PROVE TasksBounded(q, w)
  <2>1. ASSUME NEW i \in DOMAIN q, q[i].task = "send", Versioned(q[i].msg)
        PROVE  q[i].msg.v <= w
    <3>1. q[i] \in Task
      OBVIOUS
    <3>2. q[i].msg \in Message
      BY <2>1, <3>1 DEF Task
    <3>3. q[i].msg.v \in Nat /\ q[i].msg.v <= v
      BY <1>2, <2>1, <3>2, VersionNat DEF TasksBounded
    <3> QED
      BY <3>3
  <2> QED
    BY <1>2, <2>1 DEF TasksBounded
<1> QED
  BY <1>1, <1>2

LEMMA AwaitBounded ==
    ASSUME NEW v, NEW q \in Seq(Task), TasksBounded(q, v), NEW h, NEW targets,
           NEW tasks \in Seq(Task), TasksBounded(tasks, v), Await(q, h, targets, tasks)
    PROVE  TasksBounded(ready', v)
<1> DEFINE b == Append(q \o tasks, Resume(h))
<1>1. CASE ready' = q
  BY <1>1
<1>2. CASE ready' = b
  <2>1. ASSUME NEW i \in DOMAIN b
        PROVE  \/ i \in DOMAIN q /\ b[i] = q[i]
               \/ \E j \in DOMAIN tasks : b[i] = tasks[j]
               \/ b[i] = Resume(h)
    <3>1. /\ DOMAIN q = 1..Len(q) /\ DOMAIN tasks = 1..Len(tasks)
          /\ Len(q) \in Nat /\ Len(tasks) \in Nat
          /\ DOMAIN b = 1..(Len(q) + Len(tasks) + 1)
      OBVIOUS
    <3>2. CASE i \in 1..Len(q)
      BY <3>1, <3>2
    <3>3. CASE i \in (Len(q) + 1)..(Len(q) + Len(tasks))
      <4>1. i - Len(q) \in 1..Len(tasks) /\ b[i] = tasks[i - Len(q)]
        BY <3>1, <3>3
      <4> QED
        BY <3>1, <4>1
    <3>4. CASE i = Len(q) + Len(tasks) + 1
      BY <3>1, <3>4
    <3> HIDE DEF b
    <3> QED
      BY <3>1, <3>2, <3>3, <3>4
  <2> HIDE DEF b
  <2> QED
    BY <1>2, <2>1 DEF TasksBounded, Resume
<1> QED
  BY <1>1, <1>2 DEF Await

LEMMA BroadcastBounded ==
    ASSUME NEW v, NEW q \in Seq(Task), TasksBounded(q, v), NEW h, NEW m \in Message,
           m.kind # "snapshot", Versioned(m) => m.v <= v, Broadcast(q, h, m)
    PROVE  TasksBounded(ready', v)
<1> DEFINE T == {Send(d, m) : d \in Registered}
           tasks == SetToSeq(T)
<1>1. Registered \in SUBSET Devices
  BY DEF Registered
<1>2. tasks \in Seq(T)
  BY <1>1, SendTasks
<1>3. T \subseteq Task /\ \A t \in T : t.msg = m
  BY <1>1 DEF Send, Task
<1>4. Await(q, h, Registered, tasks)
  BY DEF Broadcast
<1> HIDE DEF T, tasks
<1>5. tasks \in Seq(Task) /\ \A i \in DOMAIN tasks : tasks[i].msg = m
  BY <1>2, <1>3
<1>6. TasksBounded(tasks, v)
  BY <1>5 DEF TasksBounded
<1> QED
  BY <1>4, <1>5, <1>6, AwaitBounded

LEMMA RestBounded ==
    ASSUME LoopTyped, NEW v, TasksBounded(ready, v), NEW h \in Handlers, Resumed(h)
    PROVE  TasksBounded(Rest, v)
<1>1. CASE running = NoConn
  <2>1. ready # <<>> /\ ready \in Seq(Task)
    BY <1>1, BoundAssumption DEF Resumed, Handlers, Conns, Agent, NoConn, LoopTyped
  <2>2. \A i \in DOMAIN Tail(ready) : i + 1 \in DOMAIN ready /\ Tail(ready)[i] = ready[i + 1]
    BY <2>1
  <2> QED
    BY <1>1, <2>2 DEF Rest, TasksBounded
<1>2. CASE running # NoConn
  BY <1>2 DEF Rest
<1> QED
  BY <1>1, <1>2

-----------------------------------------------------------------------------
(* The kinds of steps: those that write to no connection, those that write *)
(* to one, and the clients' own.                                           *)

LEMMA SilentVersions ==
    ASSUME VersionInv, Known, Known', UNCHANGED <<chan, link, view, synced>>,
           \A k \in Conns : up'[k] => up[k] /\ session.v <= session'.v,
           \A k \in Conns : pc'[k] = "unused" => pc[k] = "unused",
           TasksBounded(ready', session'.v)
    PROVE  VersionInv'
<1>1. session.v \in Nat /\ session'.v \in Nat
  BY DEF Known, Types, SessionType
<1>2. ASSUME NEW k \in Conns, up'[k] PROVE Bounded(chan[k], session'.v)
  <2>1. chan[k] \in Seq(Message)
    BY DEF Known, Typed, WireTyped
  <2>2. Bounded(chan[k], session.v)
    BY <1>2 DEF VersionInv
  <2> QED
    BY <1>1, <1>2, <2>1, <2>2, BoundedMore
<1>3. UnusedQuiet'
  BY DEF VersionInv, UnusedQuiet
<1>4. ViewsBehind'
  <2>1. ASSUME NEW d \in synced, up'[link[d]] PROVE view[d].v <= session'.v
    <3>1. link[d] \in Conns
      BY DEF VersionInv, ViewsBehind
    <3>2. session.v <= session'.v /\ view[d].v <= session.v
      BY <2>1, <3>1 DEF VersionInv, ViewsBehind
    <3>3. view[d].v \in Nat
      BY DEF Known, Typed, ClientTyped, ViewType
    <3> QED
      BY <1>1, <3>2, <3>3
  <2> QED
    BY <2>1 DEF VersionInv, ViewsBehind
<1> QED
  BY <1>2, <1>3, <1>4 DEF VersionInv

LEMMA WritingVersions ==
    ASSUME VersionInv, Known, Known', UNCHANGED <<session, up, link, view, synced>>,
           NEW k \in Conns, up[k], NEW m \in Message,
           Versioned(m) => m.v <= session.v, m.kind = "snapshot" => m.v = session.v,
           chan' = [chan EXCEPT ![k] = Append(@, m)],
           \A j \in Conns : pc'[j] = "unused" => pc[j] = "unused",
           TasksBounded(ready', session.v)
    PROVE  VersionInv'
<1>1. session.v \in Nat /\ chan \in [Conns -> Seq(Message)]
  BY DEF Known, Types, SessionType, Typed, WireTyped
<1>2. /\ chan'[k] = Append(chan[k], m) /\ chan[k] \in Seq(Message)
      /\ \A j \in Conns : j # k => chan'[j] = chan[j]
  BY <1>1
<1>3. Ordered(chan'[k]) /\ Bounded(chan'[k], session.v)
  BY <1>1, <1>2, AppendOrdered DEF VersionInv
<1>4. ASSUME NEW j \in Conns
      PROVE  Ordered(chan'[j]) /\ (up[j] => Bounded(chan'[j], session.v))
  BY <1>2, <1>3 DEF VersionInv
<1>5. UnusedQuiet'
  BY <1>2 DEF VersionInv, UnusedQuiet
<1>6. ASSUME NEW d \in synced
      PROVE  /\ link[d] \in Conns /\ (up[link[d]] => view[d].v <= session.v)
             /\ \A i \in DOMAIN chan'[link[d]] :
                   chan'[link[d]][i].kind = "snapshot" => view[d].v <= chan'[link[d]][i].v
  <2>1. link[d] \in Conns /\ (up[link[d]] => view[d].v <= session.v)
    BY DEF VersionInv, ViewsBehind
  <2>2. CASE link[d] # k
    BY <1>2, <2>1, <2>2 DEF VersionInv, ViewsBehind
  <2>3. CASE link[d] = k
    <3>1. \A i \in DOMAIN chan'[k] : (i \in DOMAIN chan[k] /\ chan'[k][i] = chan[k][i])
                                     \/ chan'[k][i] = m
      BY <1>2
    <3> QED
      BY <2>1, <2>3, <3>1 DEF VersionInv, ViewsBehind
  <2> QED
    BY <2>1, <2>2, <2>3
<1> QED
  BY <1>4, <1>5, <1>6 DEF VersionInv, ViewsBehind

(* A direct write to a device: to its registered connection, if it lives.  *)
LEMMA WrittenVersions ==
    ASSUME VersionInv, Known, Known', UNCHANGED <<session, up, link, view, synced>>,
           NEW d, NEW m \in Message,
           Versioned(m) => m.v <= session.v, m.kind = "snapshot" => m.v = session.v,
           chan' = Written(d, m),
           \A j \in Conns : pc'[j] = "unused" => pc[j] = "unused",
           TasksBounded(ready', session.v)
    PROVE  VersionInv'
<1>1. CASE chan' = chan
  <2>1. session.v <= session'.v
    BY DEF Known, Types, SessionType
  <2> QED
    BY <1>1, <2>1, SilentVersions
<1>2. CASE chan' # chan
  <2>1. up[reg[d]] /\ chan' = [chan EXCEPT ![reg[d]] = Append(@, m)]
    BY <1>2 DEF Written
  <2>2. reg[d] \in Conns
    BY <1>2, <2>1 DEF Known, Typed, WireTyped
  <2> QED
    BY <2>1, <2>2, WritingVersions
<1> QED
  BY <1>1, <1>2

-----------------------------------------------------------------------------
(* The actions. *)

LEMMA MutateVersions ==
    ASSUME VersionInv, Known, Known', NEW h \in Handlers, NEW kind, NEW next, NEW m \in Message,
           Mutate(h, kind, next, m), next \in SessionType, next.v = session.v,
           m.kind # "snapshot", Versioned(m) => m.v <= session.v + 1
    PROVE  VersionInv'
<1> DEFINE s == [next EXCEPT !.v = @ + 1]
<1>1. /\ session' = s /\ Broadcast(ready, h, m) /\ pc' = [pc EXCEPT ![h] = "saving"]
      /\ UNCHANGED <<connVars, clientVars>>
  BY DEF Mutate, Commit
<1>2. s.v = session.v + 1
  BY DEF SessionType
<1>3. session.v \in Nat /\ session'.v \in Nat /\ session'.v = session.v + 1
      /\ session.v <= session'.v
  BY <1>1, <1>2 DEF Known, Types, SessionType
<1>4. ready \in Seq(Task) /\ TasksBounded(ready, session'.v)
  BY <1>3, BoundedMore DEF VersionInv, Known, Typed, LoopTyped
<1>5. TasksBounded(ready', session'.v)
  BY <1>1, <1>3, <1>4, BroadcastBounded
<1>6. \A k \in Conns : pc'[k] = "unused" => pc[k] = "unused"
  BY <1>1 DEF Known, Types, Handlers
<1> QED
  BY <1>1, <1>3, <1>5, <1>6, SilentVersions DEF connVars, clientVars

LEMMA MutationsVersions ==
    ASSUME VersionInv, Known, Known', Durable,
           \/ \E k \in Conns : \/ \E kind \in Announced : HubUpdate(k, kind)
                               \/ HubChat(k) \/ HubAssociate(k)
           \/ HubDetected
    PROVE  VersionInv'
<1>1. /\ \A fs : Wrote(session, fs) \in SessionType /\ Wrote(session, fs).v = session.v
      /\ session \in SessionType /\ clock + 1 \in Nat
  BY WroteType DEF Durable, Types
<1>2. ASSUME NEW k \in Conns, NEW kind \in Announced, HubUpdate(k, kind) PROVE VersionInv'
  <2> DEFINE w == Wrote(session, {FieldOf(kind)})
             next == [w EXCEPT !.paused = IF FieldOf(kind) = "status" THEN kind = "pause" ELSE @]
  <2>1. Update(kind) \in Message /\ k \in Handlers
    BY MessageTypes DEF Handlers, Known
  <2>2. Update(kind).kind = "update" /\ Update(kind).v = session.v + 1
    BY DEF Update
  <2>3. Mutate(k, kind, next, Update(kind))
    BY <1>2 DEF HubUpdate
  <2>4. w \in SessionType /\ w.v = session.v
    BY <1>1
  <2> HIDE DEF w
  <2>5. next \in SessionType /\ next.v = session.v
    BY <2>4 DEF SessionType
  <2>6. session.v + 1 <= session.v + 1
    BY <1>1 DEF SessionType
  <2> HIDE DEF next
  <2> QED
    BY <2>1, <2>2, <2>3, <2>5, <2>6, MutateVersions
<1>3. ASSUME NEW k \in Conns, HubChat(k) PROVE VersionInv'
  <2> DEFINE m == [kind |-> "chat", msg |-> clock + 1]
             next == [session EXCEPT !.msgs = Append(@, clock + 1)]
  <2>1. m \in Message /\ k \in Handlers /\ m.kind = "chat"
    BY MessageTypes DEF Handlers, Known
  <2>2. Mutate(k, "chat", next, m)
    BY <1>3 DEF HubChat
  <2>3. session.msgs \in Seq(Nat) /\ Append(session.msgs, clock + 1) \in Seq(Nat)
    BY <1>1, AppendSet DEF SessionType
  <2>4. next \in SessionType /\ next.v = session.v
    BY <1>1, <2>3 DEF SessionType
  <2> HIDE DEF m, next
  <2> QED
    BY <2>1, <2>2, <2>4, MutateVersions DEF Versioned
<1>4. ASSUME NEW h \in Handlers, NEW kind, NEW f \in Fields, NEW fs,
             Mutate(h, kind, Wrote(session, fs), Set(f, clock + 1))
      PROVE  VersionInv'
  <2>1. Set(f, clock + 1) \in Message /\ Set(f, clock + 1).kind = "set"
    BY <1>1, MessageTypes DEF Set, Known
  <2> QED
    BY <1>1, <1>4, <2>1, MutateVersions DEF Versioned
<1>5. ASSUME NEW k \in Conns, HubAssociate(k) PROVE VersionInv'
  BY <1>4, <1>5, FieldsAre DEF HubAssociate, Handlers
<1>6. ASSUME HubDetected PROVE VersionInv'
  BY <1>4, <1>6, FieldsAre DEF HubDetected, Handlers
<1> QED
  BY <1>2, <1>3, <1>5, <1>6

LEMMA ConnectVersions ==
    ASSUME VersionInv, Known, Known', Durable, NEW k \in Conns, HubConnect(k) PROVE VersionInv'
<1>1. /\ \/ session' = Seeded
         \/ session' = session
      /\ Await(ready, k, Registered \ {dev[k]}, <<>>)
      /\ pc' = [pc EXCEPT ![k] = "connecting"]
      /\ UNCHANGED <<connVars, clientVars>>
  BY DEF HubConnect, Commit, sessionVars
<1>2. session.v \in Nat /\ session'.v \in Nat
  BY DEF Known, Types, SessionType
<1>3. session.v <= session'.v
  <2>1. CASE session' = Seeded
    <3> DEFINE w == Wrote(session, {"device", "issue", "status", "tests"})
               seeds == <<clock + 1>>
    <3>1. w \in SessionType /\ w.v = session.v
      BY WroteType DEF Durable
    <3>2. session' = [w EXCEPT !.v = @ + 1, !.msgs = seeds, !.paused = FALSE]
      BY <2>1 DEF Seeded
    <3> HIDE DEF w, seeds
    <3>3. session'.v = session.v + 1
      BY <3>1, <3>2 DEF SessionType
    <3> QED
      BY <1>2, <3>3
  <2> QED
    BY <1>1, <1>2, <2>1
<1>4. ready \in Seq(Task) /\ <<>> \in Seq(Task) /\ TasksBounded(ready, session'.v)
  BY <1>2, <1>3, BoundedMore DEF VersionInv, Known, Typed, LoopTyped
<1>5. TasksBounded(<<>>, session'.v)
  BY DEF TasksBounded
<1>6. TasksBounded(ready', session'.v)
  BY <1>1, <1>4, <1>5, AwaitBounded
<1>7. \A j \in Conns : pc'[j] = "unused" => pc[j] = "unused"
  BY <1>1 DEF Known, Types, Handlers
<1> QED
  BY <1>1, <1>3, <1>6, <1>7, SilentVersions DEF connVars, clientVars

LEMMA HandlerVersions ==
    ASSUME VersionInv, Known, Known', NEW k \in Conns,
           HubGreet(k) \/ HubReject(k) \/ HubSnapshot(k) \/ HubEnd(k) \/ HubUnregister(k)
    PROVE  VersionInv'
<1>1. k \in Handlers /\ k # Agent
  BY BoundAssumption DEF Handlers, Conns, Agent
<1>2. /\ Snapshot(session) \in Message
      /\ Snapshot(session).kind = "snapshot" /\ Snapshot(session).v = session.v
      /\ [kind |-> "rejected", v |-> session.v] \in Message
  BY MessageTypes DEF Known, Snapshot
<1>3. session.v \in Nat /\ session.v <= session.v /\ ready \in Seq(Task)
      /\ TasksBounded(ready, session.v)
  BY DEF Known, Types, SessionType, Typed, LoopTyped, VersionInv
<1>4. ASSUME Resumed(k) PROVE TasksBounded(Rest, session.v)
  BY <1>1, <1>3, <1>4, RestBounded DEF Known, Typed
<1>5. \A p : p # "unused" /\ pc' = [pc EXCEPT ![k] = p] =>
                 \A j \in Conns : pc'[j] = "unused" => pc[j] = "unused"
  BY <1>1 DEF Known, Types, Handlers
<1>6. CASE HubGreet(k)
  <2>1. /\ ready' = Rest /\ Resumed(k) /\ pc' = [pc EXCEPT ![k] = "reading"]
        /\ UNCHANGED <<session, up, link, view, synced>>
        /\ chan' = IF up[k] THEN [chan EXCEPT ![k] = Append(@, Snapshot(session))] ELSE chan
    BY <1>6 DEF HubGreet, sessionVars, clientVars
  <2>2. TasksBounded(ready', session.v) /\ \A j \in Conns : pc'[j] = "unused" => pc[j] = "unused"
    BY <1>4, <1>5, <2>1
  <2>3. CASE up[k]
    BY <1>2, <1>3, <2>1, <2>2, <2>3, WritingVersions
  <2>4. CASE ~up[k]
    BY <1>3, <2>1, <2>2, <2>4, SilentVersions
  <2> QED
    BY <2>3, <2>4
<1>7. CASE HubReject(k)
  <2> DEFINE m == [kind |-> "rejected", v |-> session.v]
  <2>1. /\ chan' = Written(dev[k], m)
        /\ UNCHANGED <<session, up, link, view, synced, pc, ready>>
    BY <1>7 DEF HubReject, sessionVars, loopVars, clientVars
  <2>2. m \in Message /\ m.kind = "rejected" /\ m.v = session.v
    BY <1>2
  <2> HIDE DEF m
  <2> QED
    BY <1>3, <2>1, <2>2, WrittenVersions
<1>8. CASE HubSnapshot(k)
  <2>1. /\ chan' = Written(dev[k], Snapshot(session))
        /\ UNCHANGED <<session, up, link, view, synced, pc, ready>>
    BY <1>8 DEF HubSnapshot, sessionVars, loopVars, clientVars
  <2> QED
    BY <1>2, <1>3, <2>1, WrittenVersions
<1>9. CASE HubEnd(k)
  <2>1. /\ Await(ready, k, Registered, <<>>) /\ pc' = [pc EXCEPT ![k] = "closing"]
        /\ UNCHANGED <<session, up, chan, link, view, synced>>
    BY <1>9 DEF HubEnd, sessionVars, clientVars
  <2>2. <<>> \in Seq(Task) /\ TasksBounded(<<>>, session.v)
    BY DEF TasksBounded
  <2>3. TasksBounded(ready', session.v)
    BY <1>3, <2>1, <2>2, AwaitBounded
  <2> QED
    BY <1>3, <1>5, <2>1, <2>3, SilentVersions
<1>10. CASE HubUnregister(k)
  <2>1. /\ ready' = Rest /\ Resumed(k) /\ pc' = [pc EXCEPT ![k] = "ended"]
        /\ up' = [up EXCEPT ![k] = FALSE]
        /\ UNCHANGED <<session, chan, link, view, synced>>
    BY <1>10 DEF HubUnregister, sessionVars, clientVars
  <2>2. \A j \in Conns : up'[j] => up[j]
    BY <2>1 DEF Known, Typed, WireTyped
  <2> QED
    BY <1>3, <1>4, <1>5, <2>1, <2>2, SilentVersions
<1> QED
  BY <1>6, <1>7, <1>8, <1>9, <1>10

LEMMA SaveVersions ==
    ASSUME VersionInv, Known, Known', NEW h \in Handlers, HubSave(h) \/ HubEchoed(h)
    PROVE  VersionInv'
<1>1. /\ session.v \in Nat /\ session.v <= session.v
      /\ Rest \in Seq(Task) /\ TasksBounded(Rest, session.v)
  BY ResumedRest, RestBounded DEF Known, Types, SessionType, Typed, VersionInv, HubSave, HubEchoed
<1>2. TasksBounded(ready', session.v)
  <2>1. CASE ready' = Rest
    BY <1>1, <2>1
  <2>2. ASSUME NEW x, Broadcast(Rest, h, Set(req[h].kind, x)), req[h].kind \in {"core", "tests"},
               x = req[h].stamp \/ x = session.data["tests"]
        PROVE TasksBounded(ready', session.v)
    <3>1. req[h].kind \in Fields /\ "tests" \in Fields
      BY <2>2, FieldsAre
    <3>2. req[h].stamp \in Nat /\ session.data["tests"] \in Nat
      BY <3>1 DEF Known, Types, SessionType
    <3>3. Set(req[h].kind, x) \in Message /\ Set(req[h].kind, x).kind = "set"
      BY <2>2, <3>1, <3>2, MessageTypes DEF Known, Set
    <3> QED
      BY <1>1, <2>2, <3>3, BroadcastBounded DEF Versioned
  <2> QED
    BY <2>1, <2>2 DEF HubSave, HubEchoed
<1>3. /\ UNCHANGED <<session, chan, up, link, view, synced>>
      /\ pc' = [pc EXCEPT ![h] = "echoing"] \/ pc' = [pc EXCEPT ![h] = "reading"]
  BY DEF HubSave, HubEchoed, Finish, sessionVars, connVars, clientVars
<1>4. \A k \in Conns : pc'[k] = "unused" => pc[k] = "unused"
  BY <1>3 DEF Known, Types, Handlers
<1> QED
  BY <1>1, <1>2, <1>3, <1>4, SilentVersions

LEMMA HubVersions ==
    ASSUME VersionInv, Known, Known', Durable,
           RunSend \/ RestCreate \/ HubRestart \/ \E k \in Conns : Break(k)
    PROVE  VersionInv'
<1>1. session.v \in Nat /\ session.v <= session.v /\ ready \in Seq(Task)
      /\ TasksBounded(ready, session.v)
  BY DEF Known, Types, SessionType, Typed, LoopTyped, VersionInv
<1>2. CASE RunSend
  <2> DEFINE m == ready[1].msg
  <2>1. /\ ready # <<>> /\ ready[1].task = "send" /\ ready' = Tail(ready)
        /\ chan' = Written(ready[1].to, m)
        /\ UNCHANGED <<session, up, link, view, synced, pc>>
    BY <1>2 DEF RunSend, sessionVars, clientVars
  <2>2. ready[1] \in Task /\ 1 \in DOMAIN ready
    BY <1>1, <2>1
  <2>3. m \in Message /\ m.kind # "snapshot" /\ (Versioned(m) => m.v <= session.v)
    BY <1>1, <2>1, <2>2 DEF Task, TasksBounded
  <2>4. \A i \in DOMAIN Tail(ready) : i + 1 \in DOMAIN ready /\ Tail(ready)[i] = ready[i + 1]
    BY <1>1, <2>1
  <2>5. TasksBounded(ready', session.v)
    BY <1>1, <2>1, <2>4 DEF TasksBounded
  <2> HIDE DEF m
  <2> QED
    BY <2>1, <2>3, <2>5, WrittenVersions
<1>3. CASE RestCreate
  <2>1. PICK f \in {"device", "issue"} : session' = Wrote(session, {f})
    BY <1>3 DEF RestCreate, Commit
  <2>2. session'.v = session.v
    BY <2>1, WroteType DEF Durable
  <2> QED
    BY <1>1, <1>3, <2>2, SilentVersions DEF RestCreate, loopVars, connVars, clientVars
<1>4. CASE HubRestart
  <2>1. /\ ready' = <<>> /\ up' = [k \in Conns |-> FALSE]
        /\ UNCHANGED <<chan, link, view, synced>>
        /\ \A k \in Conns : k # Agent /\ k \in Handlers
    BY <1>4, BoundAssumption DEF HubRestart, clientVars, Handlers, Conns, Agent
  <2>2. \A k \in Conns : pc'[k] = "unused" => pc[k] = "unused"
    BY <1>4, <2>1 DEF HubRestart
  <2>3. TasksBounded(ready', session'.v)
    BY <2>1 DEF TasksBounded
  <2> QED
    BY <2>1, <2>2, <2>3, SilentVersions
<1>5. CASE \E k \in Conns : Break(k)
  <2>1. /\ \A k \in Conns : up'[k] => up[k]
        /\ UNCHANGED <<session, chan, link, view, synced, pc, ready>>
    BY <1>5 DEF Break, Known, Typed, WireTyped, sessionVars, loopVars, clientVars
  <2> QED
    BY <1>1, <2>1, SilentVersions
<1> QED
  BY <1>2, <1>3, <1>4, <1>5

LEMMA JoinedAt ==
    ASSUME NEW S, NEW T, NEW q \in Seq(S), NEW tasks \in Seq(T)
    PROVE  \A i \in DOMAIN (q \o tasks) :
               \/ i \in DOMAIN q /\ (q \o tasks)[i] = q[i]
               \/ \E j \in DOMAIN tasks : (q \o tasks)[i] = tasks[j]
<1> DEFINE b == q \o tasks
<1>1. /\ DOMAIN q = 1..Len(q) /\ DOMAIN tasks = 1..Len(tasks)
      /\ Len(q) \in Nat /\ Len(tasks) \in Nat /\ DOMAIN b = 1..(Len(q) + Len(tasks))
  OBVIOUS
<1>2. ASSUME NEW i \in DOMAIN b
      PROVE  (i \in DOMAIN q /\ b[i] = q[i]) \/ \E j \in DOMAIN tasks : b[i] = tasks[j]
  <2>1. CASE i \in 1..Len(q)
    BY <1>1, <2>1
  <2>2. CASE i \in (Len(q) + 1)..(Len(q) + Len(tasks))
    <3>1. i - Len(q) \in 1..Len(tasks) /\ b[i] = tasks[i - Len(q)]
      BY <1>1, <2>2
    <3> QED
      BY <1>1, <3>1
  <2> HIDE DEF b
  <2> QED
    BY <1>1, <2>1, <2>2
<1> QED
  BY <1>2

LEMMA AppendedBounded ==
    ASSUME NEW v, NEW q \in Seq(Task), TasksBounded(q, v),
           NEW tasks \in Seq(Task), TasksBounded(tasks, v)
    PROVE  TasksBounded(q \o tasks, v)
<1> DEFINE b == q \o tasks
<1>1. \A i \in DOMAIN b : \/ i \in DOMAIN q /\ b[i] = q[i]
                         \/ \E j \in DOMAIN tasks : b[i] = tasks[j]
  BY JoinedAt
<1> HIDE DEF b
<1>2. TasksBounded(b, v)
  BY <1>1 DEF TasksBounded
<1> QED
  BY <1>2 DEF b

LEMMA EventVersions ==
    ASSUME VersionInv, Known, Known', Durable, ToolEvent \/ AgentEvent
    PROVE  VersionInv'
<1>1. /\ session'.v = session.v /\ UNCHANGED <<pc, connVars, clientVars>>
      /\ session.v \in Nat
  BY EventIs DEF Known, Types, SessionType
<1>2. PICK f \in {"core", "agent"} :
          /\ Set(f, clock + 1) \in Message
          /\ SetToSeq({Send(d, Set(f, clock + 1)) : d \in Registered}) \in Seq(Task)
          /\ ready' = ready \o SetToSeq({Send(d, Set(f, clock + 1)) : d \in Registered})
  BY EventQueue DEF Known
<1> DEFINE T == {Send(d, Set(f, clock + 1)) : d \in Registered}
           tasks == SetToSeq(T)
<1>3. Registered \in SUBSET Devices
  BY DEF Registered
<1>4. tasks \in Seq(T) /\ tasks \in Seq(Task) /\ ready' = ready \o tasks
  BY <1>2, <1>3, SendTasks
<1>5. \A t \in T : t.msg = Set(f, clock + 1)
  BY DEF Send
<1> HIDE DEF T, tasks
<1>6. \A i \in DOMAIN tasks : tasks[i].msg = Set(f, clock + 1)
  BY <1>4, <1>5
<1>7. TasksBounded(tasks, session.v)
  BY <1>6 DEF TasksBounded, Set, Versioned
<1>8. ready \in Seq(Task) /\ TasksBounded(ready, session.v)
  BY DEF Known, Typed, LoopTyped, VersionInv
<1>9. TasksBounded(ready', session'.v)
  BY <1>1, <1>4, <1>7, <1>8, AppendedBounded
<1> QED
  BY <1>1, <1>9, SilentVersions DEF connVars, clientVars

(* A panel changes one field of what one client shows. *)
LEMMA PanelIs ==
    ASSUME Known, NEW d \in Devices, ToolPanel(d)
    PROVE  /\ UNCHANGED <<session, history, saved, acked, boundVars, loopVars, pc, req, reg,
                          connVars, link, again, ref, synced, jumped>>
           /\ \A e \in Devices :
                 /\ view'[e].v = view[e].v /\ view'[e].msgs = view[e].msgs
                 /\ \A f \in Fields \ {"core"} : view'[e].data[f] = view[e].data[f]
                 /\ e # d => view'[e] = view[e] /\ silent'[e] = silent[e]
           /\ silent'[d] = silent[d] \cup {"core"}
<1>1. /\ view \in [Devices -> ViewType]
      /\ silent \in [Devices -> SUBSET (Fields \cup {"messages"})]
  BY DEF Known, Typed, ClientTyped, SessionTyped
<1>2. /\ view' = [view EXCEPT ![d].data["core"] = clock + 1]
      /\ silent' = [silent EXCEPT ![d] = @ \cup {"core"}]
      /\ UNCHANGED <<session, history, saved, acked, boundVars, loopVars, pc, req, reg,
                     connVars, link, again, ref, synced, jumped>>
  BY DEF ToolPanel
<1>3. ASSUME NEW e \in Devices
      PROVE  /\ view'[e].v = view[e].v /\ view'[e].msgs = view[e].msgs
             /\ \A f \in Fields \ {"core"} : view'[e].data[f] = view[e].data[f]
             /\ e # d => view'[e] = view[e]
  <2>1. view[e] \in ViewType
    BY <1>1
  <2> QED
    BY <1>1, <1>2, <2>1 DEF ViewType
<1>4. /\ \A e \in Devices : e # d => silent'[e] = silent[e]
      /\ silent'[d] = silent[d] \cup {"core"}
  BY <1>1, <1>2
<1> QED
  BY <1>2, <1>3, <1>4

LEMMA PanelVersions ==
    ASSUME VersionInv, Known, NEW d \in Devices, ToolPanel(d)
    PROVE  VersionInv'
<1>1. /\ UNCHANGED <<session, ready, pc, up, chan, link, synced>>
      /\ \A e \in Devices : view'[e].v = view[e].v
  BY PanelIs DEF loopVars, connVars
<1>2. synced \subseteq Devices
  BY DEF Known, Typed, ClientTyped
<1>3. ViewsBehind'
  BY <1>1, <1>2 DEF VersionInv, ViewsBehind
<1> QED
  BY <1>1, <1>3 DEF VersionInv, UnusedQuiet

(* A client that opens or leaves a connection. *)
LEMMA MoveVersions ==
    ASSUME VersionInv, Known, Known', NEW d \in Devices,
           (\E k \in Conns : Open(d, k)) \/ Dropped(d) \/ Reload(d)
    PROVE  VersionInv'
<1>1. UNCHANGED <<session, ready>>
  BY DEF Open, Dropped, Reload, sessionVars, loopVars
<1>2. ASSUME NEW k \in Conns, Open(d, k) PROVE VersionInv'
  <2>1. /\ link[d] = NoConn /\ pc[k] = "unused" /\ chan[k] = <<>>
        /\ link' = [link EXCEPT ![d] = k] /\ pc' = [pc EXCEPT ![k] = "accepted"]
        /\ up' = [up EXCEPT ![k] = TRUE] /\ UNCHANGED <<chan, view, synced>>
    BY <1>2 DEF Open, VersionInv, UnusedQuiet
  <2>2. d \notin synced /\ \A e \in synced : e \in Devices /\ link[e] # k
    BY <2>1, BoundAssumption DEF VersionInv, ViewsBehind, UnusedQuiet, Conns, NoConn, Known,
                                 Typed, ClientTyped
  <2>3. /\ \A e \in synced : link'[e] = link[e]
        /\ \A j \in Conns : j # k => up'[j] = up[j]
    BY <2>1, <2>2 DEF Known, Typed, WireTyped, ClientTyped
  <2>4. ASSUME NEW j \in Conns, up'[j] PROVE Bounded(chan[j], session.v)
    <3>1. CASE j = k
      BY <2>1, <3>1 DEF Bounded
    <3>2. CASE j # k
      BY <2>3, <2>4, <3>2 DEF VersionInv
    <3> QED
      BY <3>1, <3>2
  <2>5. UnusedQuiet'
    <3>1. ASSUME NEW j \in Conns, pc'[j] = "unused"
          PROVE  ~up'[j] /\ chan'[j] = <<>> /\ \A e \in Devices : link'[e] # j
      <4>1. j # k /\ pc[j] = "unused"
        BY <2>1, <3>1 DEF Known, Types, Handlers
      <4>2. \A e \in Devices : link'[e] = link[e] \/ link'[e] = k
        BY <2>1 DEF Known, Typed, ClientTyped
      <4> QED
        BY <2>1, <2>3, <4>1, <4>2 DEF VersionInv, UnusedQuiet
    <3> QED
      BY <3>1 DEF UnusedQuiet
  <2>6. ViewsBehind'
    BY <1>1, <2>1, <2>2, <2>3 DEF VersionInv, ViewsBehind
  <2> QED
    BY <1>1, <2>1, <2>4, <2>5, <2>6 DEF VersionInv
<1>3. CASE Dropped(d) \/ Reload(d)
  <2> DEFINE k == link[d]
  <2>1. /\ k \in Conns /\ chan' = [chan EXCEPT ![k] = <<>>]
        /\ link' = [link EXCEPT ![d] = NoConn] /\ UNCHANGED pc
        /\ \A j \in Conns : up'[j] => up[j]
        /\ synced' = synced \ {d} /\ \A e \in Devices : e # d => view'[e] = view[e]
    BY <1>3 DEF Dropped, Reload, Known, Typed, WireTyped, ClientTyped, loopVars
  <2>2. /\ chan'[k] = <<>> /\ \A j \in Conns : j # k => chan'[j] = chan[j]
        /\ link'[d] = NoConn /\ \A e \in Devices : e # d => link'[e] = link[e]
    BY <2>1 DEF Known, Typed, WireTyped, ClientTyped
  <2>3. ASSUME NEW j \in Conns
        PROVE  Ordered(chan'[j]) /\ (up'[j] => Bounded(chan'[j], session.v))
    <3>1. CASE j = k
      BY <2>2, <3>1 DEF Ordered, Bounded
    <3>2. CASE j # k
      BY <2>1, <2>2, <3>2 DEF VersionInv
    <3> QED
      BY <3>1, <3>2
  <2>4. UnusedQuiet'
    BY <2>1, <2>2, BoundAssumption DEF VersionInv, UnusedQuiet, Conns, NoConn
  <2>5. ASSUME NEW e \in synced'
        PROVE  /\ link'[e] \in Conns /\ (up'[link'[e]] => view'[e].v <= session.v)
               /\ \A i \in DOMAIN chan'[link'[e]] :
                     chan'[link'[e]][i].kind = "snapshot" => view'[e].v <= chan'[link'[e]][i].v
    <3>1. e \in synced /\ e \in Devices /\ e # d
      BY <2>1, <2>5 DEF Known, Typed, ClientTyped
    <3>2. link'[e] = link[e] /\ view'[e] = view[e] /\ link[e] \in Conns
      BY <2>1, <2>2, <3>1 DEF VersionInv, ViewsBehind
    <3>3. CASE link[e] = k
      BY <2>1, <2>2, <3>1, <3>2, <3>3 DEF VersionInv, ViewsBehind
    <3>4. CASE link[e] # k
      BY <2>1, <2>2, <3>1, <3>2, <3>4 DEF VersionInv, ViewsBehind
    <3> QED
      BY <3>3, <3>4
  <2> QED
    BY <1>1, <2>3, <2>4, <2>5 DEF VersionInv, ViewsBehind
<1> QED
  BY <1>2, <1>3

(* What the reducer makes of the version. *)
LEMMA AppliedVersion ==
    ASSUME NEW c \in ViewType, NEW m \in Message
    PROVE  \/ Applied(c, m).v = c.v /\ m.kind # "snapshot"
           \/ Versioned(m) /\ Applied(c, m).v = m.v /\ (m.kind # "snapshot" => c.v <= m.v)
<1>1. c.v \in Nat
  BY DEF ViewType
<1>2. CASE m.kind = "snapshot"
  BY <1>2 DEF Applied, Versioned
<1>3. CASE m.kind = "update"
  <2>1. m.v \in Nat
    BY <1>3, VersionNat DEF Versioned
  <2>2. Applied(c, m) = IF m.v <= c.v THEN c ELSE [c EXCEPT !.v = m.v, !.data[m.field] = m.val]
    BY <1>3 DEF Applied
  <2>3. ~(m.v <= c.v) => Applied(c, m).v = m.v
    BY <2>2 DEF ViewType
  <2> QED
    BY <1>1, <1>3, <2>1, <2>2, <2>3 DEF Versioned
<1>4. CASE m.kind = "set"
  BY <1>4 DEF Applied, ViewType
<1>5. CASE m.kind = "chat"
  BY <1>5 DEF Applied, ViewType
<1>6. CASE m.kind = "rejected"
  <2>1. m.v \in Nat
    BY <1>6, VersionNat DEF Versioned
  <2>2. Applied(c, m).v = IF c.v > m.v THEN c.v ELSE m.v
    BY <1>6 DEF Applied, ViewType
  <2> QED
    BY <1>1, <1>6, <2>1, <2>2 DEF Versioned
<1>7. m.kind \in {"snapshot", "update", "set", "chat", "rejected"}
  BY DEF Message
<1> QED
  BY <1>2, <1>3, <1>4, <1>5, <1>6, <1>7

(* Reading a message: the version does not fall, and stays behind the      *)
(* snapshots that follow.                                                  *)
LEMMA ReceiveVersions ==
    ASSUME VersionInv, Known, Known', NEW d \in Devices, Receive(d)
    PROVE  VersionInv' /\ (d \in synced => view[d].v <= view'[d].v)
<1> DEFINE k == link[d]
           q == chan[k]
           m == q[1]
<1>1. /\ k \in Conns /\ q \in Seq(Message) /\ q # <<>> /\ chan' = [chan EXCEPT ![k] = Tail(@)]
      /\ UNCHANGED <<session, ready, pc, up, link>>
  BY DEF Receive, Known, Typed, WireTyped, ClientTyped, sessionVars, loopVars
<1>2. /\ chan'[k] = Tail(q) /\ \A j \in Conns : j # k => chan'[j] = chan[j]
  BY <1>1 DEF Known, Typed, WireTyped
<1>3. m \in Message /\ 1 \in DOMAIN q
  BY <1>1
<1>4. /\ Ordered(Tail(q)) /\ (up[k] => Bounded(Tail(q), session.v))
      /\ \A i \in DOMAIN Tail(q) : i + 1 \in DOMAIN q /\ Tail(q)[i] = q[i + 1] /\ 1 < i + 1
  BY <1>1, TailOrdered DEF VersionInv
<1>5. \/ UNCHANGED <<view, synced>>
      \/ /\ view' = [view EXCEPT ![d] = Applied(@, m)]
         /\ synced' = IF m.kind = "snapshot" THEN synced \cup {d} ELSE synced
  BY DEF Receive
<1>6. session.v \in Nat /\ view[d] \in ViewType /\ view[d].v \in Nat
  BY DEF Known, Types, SessionType, Typed, ClientTyped, ViewType
<1>7. \A e \in Devices : e # d => view'[e] = view[e]
  BY <1>5 DEF Known, Typed, ClientTyped
<1>8. \/ view'[d] = view[d] /\ (d \in synced' => d \in synced)
      \/ /\ view'[d] = Applied(view[d], m)
         /\ d \in synced' => d \in synced \/ m.kind = "snapshot"
  BY <1>5 DEF Known, Typed, ClientTyped
<1>9. /\ Versioned(m) => m.v \in Nat /\ (up[k] => m.v <= session.v)
      /\ d \in synced /\ m.kind = "snapshot" => view[d].v <= m.v
  BY <1>1, <1>3, VersionNat DEF VersionInv, Bounded, ViewsBehind
<1>10. \/ view'[d].v = view[d].v /\ (d \in synced' => d \in synced)
       \/ /\ Versioned(m) /\ view'[d].v = m.v
          /\ d \in synced => view[d].v <= m.v
  BY <1>3, <1>6, <1>8, <1>9, AppliedVersion
<1>11. d \in synced => view[d].v <= view'[d].v
  BY <1>6, <1>10
<1>12. ASSUME NEW i \in DOMAIN Tail(q), Tail(q)[i].kind = "snapshot"
       PROVE  /\ d \in synced => view[d].v <= Tail(q)[i].v
              /\ Versioned(m) => m.v <= Tail(q)[i].v
  <2>1. i + 1 \in DOMAIN q /\ Tail(q)[i] = q[i + 1] /\ 1 < i + 1
    BY <1>4
  <2>2. Ordered(q)
    BY <1>1 DEF VersionInv
  <2> QED
    BY <1>3, <1>12, <2>1, <2>2 DEF Ordered, VersionInv, ViewsBehind
<1>13. ASSUME d \in synced'
       PROVE  /\ up[k] => view'[d].v <= session.v
              /\ \A i \in DOMAIN Tail(q) : Tail(q)[i].kind = "snapshot" =>
                    view'[d].v <= Tail(q)[i].v
  <2>1. CASE view'[d].v = view[d].v /\ d \in synced
    BY <1>12, <2>1 DEF VersionInv, ViewsBehind
  <2>2. CASE Versioned(m) /\ view'[d].v = m.v
    BY <1>9, <1>12, <2>2
  <2> QED
    BY <1>10, <1>13, <2>1, <2>2
<1>14. ViewsBehind'
  <2>1. ASSUME NEW e \in synced'
        PROVE  /\ link[e] \in Conns /\ (up[link[e]] => view'[e].v <= session.v)
               /\ \A i \in DOMAIN chan'[link[e]] :
                     chan'[link[e]][i].kind = "snapshot" => view'[e].v <= chan'[link[e]][i].v
    <3>1. CASE e = d
      BY <1>1, <1>2, <1>13, <2>1, <3>1
    <3>2. CASE e # d
      <4>1. e \in synced /\ view'[e] = view[e]
        BY <1>5, <1>7, <2>1, <3>2 DEF Known, Typed, ClientTyped
      <4>2. CASE link[e] = k
        BY <1>1, <1>2, <1>4, <4>1, <4>2 DEF VersionInv, ViewsBehind
      <4>3. CASE link[e] # k
        BY <1>2, <4>1, <4>3 DEF VersionInv, ViewsBehind
      <4> QED
        BY <4>2, <4>3
    <3> QED
      BY <3>1, <3>2
  <2> QED
    BY <1>1, <2>1 DEF ViewsBehind
<1>15. ASSUME NEW j \in Conns
       PROVE  Ordered(chan'[j]) /\ (up[j] => Bounded(chan'[j], session.v))
  BY <1>2, <1>4 DEF VersionInv
<1>16. UnusedQuiet'
  BY <1>1, <1>2 DEF VersionInv, UnusedQuiet
<1> QED
  BY <1>1, <1>11, <1>14, <1>15, <1>16 DEF VersionInv

LEMMA InitVersions == Init => VersionInv
<1> SUFFICES ASSUME Init PROVE VersionInv
  OBVIOUS
<1>1. \A k \in Conns : chan[k] = <<>> /\ up[k] = FALSE
  BY DEF Init
<1>2. \A k \in Conns : Ordered(chan[k])
  BY <1>1 DEF Ordered
<1>3. UnusedQuiet
  BY <1>1, BoundAssumption DEF Init, UnusedQuiet, Conns, NoConn
<1>4. TasksBounded(ready, session.v) /\ ViewsBehind
  BY DEF Init, TasksBounded, ViewsBehind
<1> QED
  BY <1>1, <1>2, <1>3, <1>4 DEF VersionInv

LEMMA StepVersions ==
    VersionInv /\ Known /\ Known' /\ Durable /\ [Next]_vars => VersionInv'
<1> SUFFICES ASSUME VersionInv, Known, Known', Durable, [Next]_vars PROVE VersionInv'
  OBVIOUS
<1>1. ASSUME NEW k \in Conns, HandlerStep(k) PROVE VersionInv'
  BY <1>1, MutationsVersions, ConnectVersions, HandlerVersions DEF HandlerStep
<1>2. session.v <= session.v
  BY DEF Known, Types, SessionType
<1>3. ASSUME NEW d \in Devices, ClientStep(d) PROVE VersionInv'
  <2>1. CASE Render(d)
    BY <1>2, <2>1, SilentVersions DEF Render, VersionInv, sessionVars, loopVars, connVars
  <2> QED
    BY <1>3, <2>1, MoveVersions, ReceiveVersions, PanelVersions DEF ClientStep
<1>4. CASE UNCHANGED vars
  BY <1>2, <1>4, SilentVersions DEF VersionInv, vars, sessionVars, loopVars, connVars, clientVars
<1> QED
  BY <1>1, <1>3, <1>4, MutationsVersions, SaveVersions, HubVersions, EventVersions DEF Next

(* What a client shows changes only by what it reads, or when it reloads.  *)
LEMMA StepRises ==
    ASSUME VersionInv, Known, Known', [Next]_vars,
           NEW d \in Devices, d \in synced, link'[d] = link[d]
    PROVE  view'[d].v >= view[d].v
<1>1. view[d].v \in Nat /\ view'[d].v \in Nat
  BY DEF Known, Typed, ClientTyped, ViewType
<1>2. ASSUME NEW e \in Devices, ClientStep(e) PROVE view'[d].v >= view[d].v
  <2>1. CASE Receive(e)
    <3>1. e # d => view'[d] = view[d]
      BY <2>1 DEF Receive, Known, Typed, ClientTyped
    <3>2. e = d => view[d].v <= view'[d].v
      BY <2>1, ReceiveVersions
    <3> QED
      BY <1>1, <3>1, <3>2
  <2>2. CASE Reload(e)
    <3>1. e # d => view'[d] = view[d]
      BY <2>2 DEF Reload, Known, Typed, ClientTyped
    <3>2. e # d
      BY <2>2 DEF Reload, Known, Typed, ClientTyped
    <3> QED
      BY <1>1, <3>1, <3>2
  <2>3. CASE (\E k \in Conns : Open(e, k)) \/ Dropped(e) \/ Render(e)
    BY <1>1, <2>3 DEF Open, Dropped, Render
  <2>4. CASE ToolPanel(e)
    BY <1>1, <2>4, PanelIs
  <2> QED
    BY <1>2, <2>1, <2>2, <2>3, <2>4 DEF ClientStep
<1>4. CASE \E h \in Handlers : HubSave(h) \/ HubEchoed(h)
  BY <1>1, <1>4 DEF HubSave, HubEchoed, clientVars
<1>5. CASE HubDetected \/ RestCreate \/ ToolEvent \/ AgentEvent \/ HubRestart \/ RunSend
  BY <1>1, <1>5 DEF RunSend, HubDetected, RestCreate, ToolEvent, AgentEvent, Announce,
                    HubRestart, Mutate, clientVars
<1>6. ASSUME NEW k \in Conns, HandlerStep(k) \/ Break(k) PROVE view' = view
  <2>1. CASE HubConnect(k) \/ HubGreet(k) \/ HubUnregister(k)
    BY <2>1 DEF HubConnect, HubGreet, HubUnregister, clientVars
  <2>2. CASE \/ \E kind \in Announced : HubUpdate(k, kind)
             \/ HubChat(k) \/ HubAssociate(k)
    <3>1. \A kind, next, m : Mutate(k, kind, next, m) => view' = view
      BY DEF Mutate, clientVars
    <3> QED
      BY <2>2, <3>1 DEF HubUpdate, HubChat, HubAssociate
  <2>3. CASE HubReject(k) \/ HubSnapshot(k) \/ HubEnd(k)
    BY <2>3 DEF HubReject, HubSnapshot, HubEnd, clientVars
  <2>4. CASE Break(k)
    BY <2>4 DEF Break, clientVars
  <2> QED
    BY <1>6, <2>1, <2>2, <2>3, <2>4 DEF HandlerStep
<1>7. CASE UNCHANGED vars
  BY <1>1, <1>7 DEF vars, clientVars
<1> QED
  BY <1>1, <1>2, <1>4, <1>5, <1>6, <1>7 DEF Next

(* On a connection that has brought a snapshot a client never goes back to *)
(* an earlier version, whatever overtakes what, and whatever is dropped,   *)
(* reloaded or restarted.                                                  *)
THEOREM VersionsRise == Spec => VersionNeverFalls
<1>1. Init => VersionInv
  BY InitVersions
<1>2. Init => Typed
  BY InitTyped
<1>3. Durable => Types
  BY DEF Durable
<1>4. Typed /\ Durable /\ Types /\ Types' /\ [Next]_vars => Typed'
  BY StepTyped
<1>5. VersionInv /\ Typed /\ Types /\ Typed' /\ Types' /\ Durable /\ [Next]_vars => VersionInv'
  BY StepVersions DEF Known
<1>6. VersionInv /\ Typed /\ Types /\ Typed' /\ Types' /\ [Next]_vars =>
          [\A d \in Devices :
              d \in synced /\ link'[d] = link[d] => view'[d].v >= view[d].v]_vars
  BY StepRises DEF Known
<1> QED
  BY <1>1, <1>2, <1>3, <1>4, <1>5, <1>6, Durability, PTL DEF Spec, VersionNeverFalls

-----------------------------------------------------------------------------
(* Contexts. Every message on its way to a live connection is true of the  *)
(* history: a snapshot shows the context of its version, an update what    *)
(* distinguishes its version from the one before.                          *)

Shows(data, v, H) == \A f \in Context : data[f] = H[v][f]

Told(m, H) ==
    /\ m.kind = "snapshot" => Shows(m.data, m.v, H)
    /\ m.kind = "update" =>
          /\ m.v # 0
          /\ \A f \in Context : H[m.v][f] = IF f = m.field THEN m.val ELSE H[m.v - 1][f]
    /\ m.kind = "set" => m.field \notin Context

SessionShown ==
    /\ session.v <= clock /\ clock <= MaxWrites
    /\ saved.v <= session.v
    /\ Shows(session.data, session.v, history) /\ Shows(saved.data, saved.v, history)

WiresTold == \A k \in Conns : up[k] => \A i \in DOMAIN chan[k] : Told(chan[k][i], history)

TasksTold(q, H) == \A i \in DOMAIN q : q[i].task = "send" => Told(q[i].msg, H)

ContextInv == SessionShown /\ WiresTold /\ TasksTold(ready, history) /\ ContextAtVersion

(* What a message says is not changed by a write with a higher version.    *)
LEMMA ToldStays ==
    ASSUME NEW v \in Nat, NEW H, NEW J, \A i \in 0..v : J[i] = H[i],
           NEW m \in Message, Versioned(m) => m.v <= v, Told(m, H)
    PROVE  Told(m, J)
<1>1. CASE Versioned(m)
  <2>1. m.v \in 0..v /\ (m.v # 0 => m.v - 1 \in 0..v)
    BY <1>1, VersionNat
  <2> QED
    BY <2>1 DEF Told, Shows
<1>2. CASE ~Versioned(m)
  BY <1>2 DEF Told, Versioned
<1> QED
  BY <1>1, <1>2

LEMMA TasksStay ==
    ASSUME NEW v \in Nat, NEW H, NEW J, \A i \in 0..v : J[i] = H[i],
           NEW q \in Seq(Task), TasksBounded(q, v), TasksTold(q, H)
    PROVE  TasksTold(q, J)
<1>1. ASSUME NEW i \in DOMAIN q, q[i].task = "send" PROVE Told(q[i].msg, J)
  <2>1. q[i] \in Task
    OBVIOUS
  <2>2. q[i].msg \in Message /\ Told(q[i].msg, H)
        /\ (Versioned(q[i].msg) => q[i].msg.v <= v)
    BY <1>1, <2>1 DEF Task, TasksBounded, TasksTold
  <2> QED
    BY <2>2, ToldStays
<1> QED
  BY <1>1 DEF TasksTold

(* The tasks of a broadcast, and of what is left in the queue. *)
LEMMA AwaitTold ==
    ASSUME NEW H, NEW q \in Seq(Task), TasksTold(q, H), NEW h, NEW targets,
           NEW tasks \in Seq(Task), TasksTold(tasks, H), Await(q, h, targets, tasks)
    PROVE  TasksTold(ready', H)
<1> DEFINE b == Append(q \o tasks, Resume(h))
<1>1. CASE ready' = q
  BY <1>1
<1>2. CASE ready' = b
  <2>1. ASSUME NEW i \in DOMAIN b
        PROVE  \/ i \in DOMAIN q /\ b[i] = q[i]
               \/ \E j \in DOMAIN tasks : b[i] = tasks[j]
               \/ b[i] = Resume(h)
    <3>1. /\ DOMAIN q = 1..Len(q) /\ DOMAIN tasks = 1..Len(tasks)
          /\ Len(q) \in Nat /\ Len(tasks) \in Nat
          /\ DOMAIN b = 1..(Len(q) + Len(tasks) + 1)
      OBVIOUS
    <3>2. CASE i \in 1..Len(q)
      BY <3>1, <3>2
    <3>3. CASE i \in (Len(q) + 1)..(Len(q) + Len(tasks))
      <4>1. i - Len(q) \in 1..Len(tasks) /\ b[i] = tasks[i - Len(q)]
        BY <3>1, <3>3
      <4> QED
        BY <3>1, <4>1
    <3>4. CASE i = Len(q) + Len(tasks) + 1
      BY <3>1, <3>4
    <3> HIDE DEF b
    <3> QED
      BY <3>1, <3>2, <3>3, <3>4
  <2> HIDE DEF b
  <2> QED
    BY <1>2, <2>1 DEF TasksTold, Resume
<1> QED
  BY <1>1, <1>2 DEF Await

LEMMA BroadcastTold ==
    ASSUME NEW H, NEW q \in Seq(Task), TasksTold(q, H), NEW h, NEW m \in Message, Told(m, H),
           Broadcast(q, h, m)
    PROVE  TasksTold(ready', H)
<1> DEFINE T == {Send(d, m) : d \in Registered}
           tasks == SetToSeq(T)
<1>1. Registered \in SUBSET Devices
  BY DEF Registered
<1>2. tasks \in Seq(T)
  BY <1>1, SendTasks
<1>3. T \subseteq Task /\ \A t \in T : t.msg = m
  BY <1>1 DEF Send, Task
<1>4. Await(q, h, Registered, tasks)
  BY DEF Broadcast
<1> HIDE DEF T, tasks
<1>5. tasks \in Seq(Task) /\ \A i \in DOMAIN tasks : tasks[i].msg = m
  BY <1>2, <1>3
<1>6. TasksTold(tasks, H)
  BY <1>5 DEF TasksTold
<1> QED
  BY <1>4, <1>5, <1>6, AwaitTold

LEMMA RestTold ==
    ASSUME LoopTyped, NEW H, TasksTold(ready, H), NEW h \in Handlers, Resumed(h)
    PROVE  TasksTold(Rest, H)
<1>1. CASE running = NoConn
  <2>1. ready # <<>> /\ ready \in Seq(Task)
    BY <1>1, BoundAssumption DEF Resumed, Handlers, Conns, Agent, NoConn, LoopTyped
  <2>2. \A i \in DOMAIN Tail(ready) : i + 1 \in DOMAIN ready /\ Tail(ready)[i] = ready[i + 1]
    BY <2>1
  <2> QED
    BY <1>1, <2>2 DEF Rest, TasksTold
<1>2. CASE running # NoConn
  BY <1>2 DEF Rest
<1> QED
  BY <1>1, <1>2

(* A step that writes to no connection and moves no client. *)
LEMMA SilentContexts ==
    ASSUME ContextInv, VersionInv, Known, UNCHANGED <<chan, link, view, synced, jumped>>,
           \A k \in Conns : up'[k] => up[k],
           \A i \in 0..session.v : history'[i] = history[i],
           SessionShown', TasksTold(ready', history')
    PROVE  ContextInv'
<1>1. session.v \in Nat
  BY DEF Known, Types, SessionType
<1>2. WiresTold'
  <2>1. ASSUME NEW k \in Conns, up'[k], NEW i \in DOMAIN chan[k]
        PROVE  Told(chan[k][i], history')
    <3>1. up[k] /\ chan[k] \in Seq(Message)
      BY <2>1 DEF Known, Typed, WireTyped
    <3>2. chan[k][i] \in Message
      BY <3>1
    <3>3. Told(chan[k][i], history) /\ (Versioned(chan[k][i]) => chan[k][i].v <= session.v)
      BY <3>1 DEF ContextInv, WiresTold, VersionInv, Bounded
    <3> QED
      BY <1>1, <3>2, <3>3, ToldStays
  <2> QED
    BY <2>1 DEF WiresTold
<1>3. ASSUME NEW d \in Devices \ jumped, d \in synced, up'[link[d]], NEW f \in Context
      PROVE  view[d].data[f] = history'[view[d].v][f]
  <2>1. link[d] \in Conns
    BY <1>3 DEF VersionInv, ViewsBehind
  <2>2. up[link[d]]
    BY <1>3, <2>1
  <2>3. view[d].v <= session.v
    BY <1>3, <2>2 DEF VersionInv, ViewsBehind
  <2>4. view[d].v \in 0..session.v
    BY <1>1, <2>3 DEF Known, Typed, ClientTyped, ViewType
  <2>5. view[d].data[f] = history[view[d].v][f]
    BY <1>3, <2>2 DEF ContextInv, ContextAtVersion, ContextAt
  <2> QED
    BY <2>4, <2>5
<1>4. ContextAtVersion'
  BY <1>3 DEF ContextAtVersion, ContextAt
<1> QED
  BY <1>2, <1>4 DEF ContextInv

(* A step that writes a message to one connection. *)
LEMMA WritingContexts ==
    ASSUME ContextInv, Known, UNCHANGED <<history, up, link, view, synced, jumped>>,
           NEW k, NEW m \in Message, Told(m, history),
           chan' = [chan EXCEPT ![k] = Append(@, m)],
           SessionShown', TasksTold(ready', history)
    PROVE  ContextInv'
<1>1. WiresTold'
  <2>1. ASSUME NEW j \in Conns, up[j], NEW i \in DOMAIN chan'[j] PROVE Told(chan'[j][i], history)
    <3>1. chan[j] \in Seq(Message) /\ chan'[j] = IF j = k THEN Append(chan[j], m) ELSE chan[j]
      BY DEF Known, Typed, WireTyped
    <3>2. (i \in DOMAIN chan[j] /\ chan'[j][i] = chan[j][i]) \/ chan'[j][i] = m
      BY <3>1
    <3> QED
      BY <2>1, <3>2 DEF ContextInv, WiresTold
  <2> QED
    BY <2>1 DEF WiresTold
<1>2. ContextAtVersion'
  BY DEF ContextInv, ContextAtVersion, ContextAt
<1> QED
  BY <1>1, <1>2 DEF ContextInv

(* A write with the next version adds to the history and changes nothing   *)
(* of it.                                                                   *)
LEMMA CommitShows ==
    ASSUME ContextInv, Known, NEW s, s.v = session.v + 1, NEW told, NEW hidden,
           Commit(s, told, hidden), UNCHANGED saved
    PROVE  /\ SessionShown'
           /\ \A i \in 0..session.v : history'[i] = history[i]
           /\ \A f \in Context : history'[session.v + 1][f] = s.data[f]
<1>1. session.v \in Nat /\ clock \in Nat /\ MaxWrites \in Nat
  BY BoundAssumption DEF SessionType, Known, Types
<1>2. /\ session' = s /\ clock' = clock + 1 /\ clock < MaxWrites
      /\ history' = IF s.v > session.v THEN [history EXCEPT ![s.v] = ContextOf(s)] ELSE history
  BY DEF Commit
<1>3. /\ session.v + 1 \in 0..MaxWrites /\ history \in [0..MaxWrites -> [Context -> Nat]]
      /\ history' = [history EXCEPT ![session.v + 1] = ContextOf(s)]
  BY <1>1, <1>2 DEF ContextInv, SessionShown, Known, Typed, SessionTyped
<1>4. /\ history'[session.v + 1] = ContextOf(s)
      /\ \A i \in 0..session.v : history'[i] = history[i]
  BY <1>1, <1>3
<1>5. \A f \in Context : history'[session.v + 1][f] = s.data[f]
  BY <1>1, <1>4 DEF ContextOf
<1>6. Shows(session'.data, session'.v, history')
  BY <1>1, <1>2, <1>5 DEF Shows
<1>7. saved.v \in 0..session.v
  BY <1>1 DEF ContextInv, SessionShown, Known, Types, SessionType
<1>8. Shows(saved'.data, saved'.v, history')
  BY <1>2, <1>4, <1>7 DEF ContextInv, SessionShown, Shows
<1>9. session'.v <= clock' /\ clock' <= MaxWrites /\ saved'.v <= session'.v
  BY <1>1, <1>2, <1>7 DEF ContextInv, SessionShown
<1> QED
  BY <1>4, <1>5, <1>6, <1>8, <1>9 DEF SessionShown

LEMMA MutateContexts ==
    ASSUME ContextInv, VersionInv, Known, NEW h \in Handlers, NEW kind, NEW next,
           NEW m \in Message, Mutate(h, kind, next, m), next \in SessionType, next.v = session.v,
           m.kind # "snapshot", m.kind = "set" => m.field \notin Context,
           m.kind = "update" =>
               /\ m.v = session.v + 1
               /\ \A f \in Context :
                     next.data[f] = IF f = m.field THEN m.val ELSE session.data[f]
    PROVE  ContextInv'
<1> DEFINE s == [next EXCEPT !.v = @ + 1]
<1>1. s.v = session.v + 1 /\ s.data = next.data /\ session.v \in Nat
  BY DEF SessionType, Known, Types
<1>2. /\ \E told, hidden : Commit(s, told, hidden)
      /\ Broadcast(ready, h, m) /\ UNCHANGED <<saved, connVars, clientVars>>
  BY DEF Mutate
<1> HIDE DEF s
<1>3. /\ SessionShown'
      /\ \A i \in 0..session.v : history'[i] = history[i]
      /\ \A f \in Context : history'[session.v + 1][f] = next.data[f]
  BY <1>1, <1>2, CommitShows
<1>4. Told(m, history')
  <2>1. CASE m.kind = "update"
    <3>1. m.v = session.v + 1 /\ m.v # 0 /\ m.v - 1 = session.v
      BY <1>1, <2>1
    <3>2. session.v \in 0..session.v
      BY <1>1
    <3>3. \A f \in Context : history'[session.v][f] = session.data[f]
      BY <1>3, <3>2 DEF ContextInv, SessionShown, Shows
    <3> QED
      BY <1>3, <2>1, <3>1, <3>3 DEF Told
  <2>2. CASE m.kind # "update"
    BY <2>2 DEF Told
  <2> QED
    BY <2>1, <2>2
<1>5. ready \in Seq(Task) /\ TasksTold(ready, history')
  BY <1>1, <1>3, TasksStay DEF ContextInv, VersionInv, Known, Typed, LoopTyped
<1>6. TasksTold(ready', history')
  BY <1>2, <1>4, <1>5, BroadcastTold
<1> QED
  BY <1>2, <1>3, <1>6, SilentContexts DEF connVars, clientVars

(* A seeding device writes without a message, but with a version.          *)
LEMMA ConnectContexts ==
    ASSUME ContextInv, VersionInv, Known, Durable, NEW k \in Conns, HubConnect(k)
    PROVE  ContextInv'
<1>1. /\ \/ \E told, hidden : Commit(Seeded, told, hidden)
         \/ UNCHANGED <<session, clock, history>>
      /\ Await(ready, k, Registered \ {dev[k]}, <<>>)
      /\ UNCHANGED <<saved, connVars, clientVars>>
  BY DEF HubConnect, sessionVars
<1>2. session.v \in Nat /\ ready \in Seq(Task) /\ <<>> \in Seq(Task)
  BY DEF Known, Types, SessionType, Typed, LoopTyped
<1>3. SessionShown' /\ \A i \in 0..session.v : history'[i] = history[i]
  <2>1. CASE UNCHANGED <<session, clock, history>>
    BY <1>1, <2>1 DEF ContextInv, SessionShown
  <2>2. CASE \E told, hidden : Commit(Seeded, told, hidden)
    <3> DEFINE w == Wrote(session, {"device", "issue", "status", "tests"})
               seeds == <<clock + 1>>
    <3>1. w \in SessionType /\ w.v = session.v
      BY WroteType DEF Durable
    <3>2. Seeded = [w EXCEPT !.v = @ + 1, !.msgs = seeds, !.paused = FALSE]
      BY DEF Seeded
    <3> HIDE DEF w, seeds
    <3>3. Seeded.v = session.v + 1
      BY <3>1, <3>2 DEF SessionType
    <3> QED
      BY <1>1, <2>2, <3>3, CommitShows
  <2> QED
    BY <1>1, <2>1, <2>2
<1>4. TasksTold(ready, history') /\ TasksTold(<<>>, history')
  <2>1. TasksTold(ready, history')
    BY <1>2, <1>3, TasksStay DEF ContextInv, VersionInv
  <2> QED
    BY <2>1 DEF TasksTold
<1>5. TasksTold(ready', history')
  BY <1>1, <1>2, <1>4, AwaitTold
<1> QED
  BY <1>1, <1>3, <1>5, SilentContexts DEF connVars, clientVars

LEMMA MutationsContexts ==
    ASSUME ContextInv, VersionInv, Known, Durable,
           \/ \E k \in Conns : \/ \E kind \in Announced : HubUpdate(k, kind)
                               \/ HubChat(k) \/ HubAssociate(k)
           \/ HubDetected
    PROVE  ContextInv'
<1>1. /\ \A fs : /\ Wrote(session, fs) \in SessionType /\ Wrote(session, fs).v = session.v
                 /\ \A f \in Fields : Wrote(session, fs).data[f]
                                        = IF f \in fs THEN clock + 1 ELSE session.data[f]
      /\ session \in SessionType /\ clock + 1 \in Nat
  BY WroteType DEF Durable, Types
<1>2. ASSUME NEW k \in Conns, NEW kind \in Announced, HubUpdate(k, kind) PROVE ContextInv'
  <2> DEFINE w == Wrote(session, {FieldOf(kind)})
             next == [w EXCEPT !.paused = IF FieldOf(kind) = "status" THEN kind = "pause" ELSE @]
  <2>1. Update(kind) \in Message /\ k \in Handlers
    BY MessageTypes DEF Handlers, Known
  <2>2. Update(kind).kind = "update" /\ Update(kind).v = session.v + 1
        /\ Update(kind).field = FieldOf(kind) /\ Update(kind).val = clock + 1
    BY DEF Update
  <2>3. Mutate(k, kind, next, Update(kind))
    BY <1>2 DEF HubUpdate
  <2>4. w \in SessionType /\ w.v = session.v
        /\ \A f \in Context : w.data[f] = IF f = FieldOf(kind) THEN clock + 1 ELSE session.data[f]
    BY <1>1 DEF Fields
  <2> HIDE DEF w
  <2>5. next \in SessionType /\ next.v = session.v /\ next.data = w.data
    BY <2>4 DEF SessionType
  <2> HIDE DEF next
  <2> QED
    BY <2>1, <2>2, <2>3, <2>4, <2>5, MutateContexts
<1>3. ASSUME NEW k \in Conns, HubChat(k) PROVE ContextInv'
  <2> DEFINE m == [kind |-> "chat", msg |-> clock + 1]
             next == [session EXCEPT !.msgs = Append(@, clock + 1)]
  <2>1. m \in Message /\ k \in Handlers /\ m.kind = "chat"
    BY MessageTypes DEF Handlers, Known
  <2>2. Mutate(k, "chat", next, m)
    BY <1>3 DEF HubChat
  <2>3. session.msgs \in Seq(Nat) /\ Append(session.msgs, clock + 1) \in Seq(Nat)
    BY <1>1, AppendSet DEF SessionType
  <2>4. next \in SessionType /\ next.v = session.v
    BY <1>1, <2>3 DEF SessionType
  <2> HIDE DEF m, next
  <2> QED
    BY <2>1, <2>2, <2>4, MutateContexts
<1>4. ASSUME NEW h \in Handlers, NEW kind, NEW f \in Fields \ Context, NEW fs,
             Mutate(h, kind, Wrote(session, fs), Set(f, clock + 1))
      PROVE  ContextInv'
  <2>1. /\ Set(f, clock + 1) \in Message /\ Set(f, clock + 1).kind = "set"
        /\ Set(f, clock + 1).field = f
    BY <1>1, MessageTypes DEF Set, Known
  <2> QED
    BY <1>1, <1>4, <2>1, MutateContexts
<1>5. "association" \in Fields \ Context /\ "detected" \in Fields \ Context
  BY DEF Fields, Context
<1>6. ASSUME NEW k \in Conns, HubAssociate(k) PROVE ContextInv'
  BY <1>4, <1>5, <1>6 DEF HubAssociate, Handlers
<1>7. ASSUME HubDetected PROVE ContextInv'
  BY <1>4, <1>5, <1>7 DEF HubDetected, Handlers
<1> QED
  BY <1>2, <1>3, <1>6, <1>7

(* What a save keeps shows the context of its version.                     *)
LEMMA SavedShown ==
    ASSUME ContextInv, Durable, UNCHANGED <<session, clock, history>>,
           saved' = saved \/ saved' = Persistable(session)
    PROVE  SessionShown'
<1>1. CASE saved' = saved
  BY <1>1 DEF ContextInv, SessionShown
<1>2. CASE saved' = Persistable(session)
  <2>1. /\ saved'.v = session.v /\ session.v \in Nat
        /\ \A f \in Context : saved'.data[f] = session.data[f]
    BY <1>2, PersistableIs DEF Context, Fields, SessionType
  <2>2. Shows(saved'.data, saved'.v, history) /\ saved'.v <= session.v
    BY <2>1 DEF ContextInv, SessionShown, Shows
  <2> QED
    BY <2>2 DEF ContextInv, SessionShown
<1> QED
  BY <1>1, <1>2

LEMMA HandlerContexts ==
    ASSUME ContextInv, VersionInv, Known, Durable, NEW k \in Conns,
           HubGreet(k) \/ HubReject(k) \/ HubSnapshot(k) \/ HubEnd(k) \/ HubUnregister(k)
    PROVE  ContextInv'
<1>1. k \in Handlers
  BY DEF Handlers
<1>2. /\ Snapshot(session) \in Message
      /\ [kind |-> "rejected", v |-> session.v] \in Message
      /\ Told([kind |-> "rejected", v |-> session.v], history)
  BY MessageTypes DEF Known, Told
<1>3. Told(Snapshot(session), history)
  BY DEF Told, Snapshot, ContextInv, SessionShown
<1>4. /\ ready \in Seq(Task) /\ <<>> \in Seq(Task)
      /\ TasksTold(ready, history) /\ TasksTold(<<>>, history)
  BY DEF Known, Typed, LoopTyped, ContextInv, TasksTold
<1>5. ASSUME Resumed(k) PROVE TasksTold(Rest, history)
  BY <1>1, <1>4, <1>5, RestTold DEF Known, Typed
<1>6. UNCHANGED <<session, clock, history>>
  BY DEF HubGreet, HubReject, HubSnapshot, HubEnd, HubUnregister, sessionVars
<1>7. SessionShown'
  <2>1. saved' = saved \/ saved' = Persistable(session)
    BY DEF HubGreet, HubReject, HubSnapshot, HubEnd, HubUnregister
  <2> QED
    BY <1>6, <2>1, SavedShown
<1>8. UNCHANGED <<link, view, synced, jumped>>
  BY DEF HubGreet, HubReject, HubSnapshot, HubEnd, HubUnregister, clientVars
<1>9. TasksTold(ready', history)
  <2>1. ASSUME NEW D, Await(ready, k, D, <<>>) PROVE TasksTold(ready', history)
    BY <1>4, <2>1, AwaitTold
  <2> QED
    BY <1>4, <1>5, <2>1 DEF HubGreet, HubReject, HubSnapshot, HubEnd, HubUnregister,
                            loopVars
<1>10. CASE UNCHANGED chan /\ \A j \in Conns : up'[j] => up[j]
  BY <1>6, <1>7, <1>8, <1>9, <1>10, SilentContexts
<1>11. ASSUME NEW j, NEW m \in Message, Told(m, history), UNCHANGED up,
              chan' = [chan EXCEPT ![j] = Append(@, m)]
       PROVE  ContextInv'
  BY <1>6, <1>7, <1>8, <1>9, <1>11, WritingContexts
<1>12. CASE HubEnd(k)
  BY <1>10, <1>12 DEF HubEnd
<1>13. CASE HubUnregister(k)
  BY <1>10, <1>13 DEF HubUnregister, Known, Typed, WireTyped
<1>14. CASE HubGreet(k)
  BY <1>2, <1>3, <1>10, <1>11, <1>14 DEF HubGreet
<1>15. CASE HubReject(k)
  BY <1>2, <1>10, <1>11, <1>15 DEF HubReject, Written
<1>16. CASE HubSnapshot(k)
  BY <1>2, <1>3, <1>10, <1>11, <1>16 DEF HubSnapshot, Written
<1> QED
  BY <1>12, <1>13, <1>14, <1>15, <1>16

LEMMA SaveContexts ==
    ASSUME ContextInv, VersionInv, Known, Durable, NEW h \in Handlers, HubSave(h) \/ HubEchoed(h)
    PROVE  ContextInv'
<1>1. Rest \in Seq(Task) /\ TasksTold(Rest, history)
  BY ResumedRest, RestTold DEF Known, Typed, ContextInv, HubSave, HubEchoed
<1>2. TasksTold(ready', history)
  <2>1. CASE ready' = Rest
    BY <1>1, <2>1
  <2>2. ASSUME NEW x, Broadcast(Rest, h, Set(req[h].kind, x)), req[h].kind \in {"core", "tests"},
               x = req[h].stamp \/ x = session.data["tests"]
        PROVE TasksTold(ready', history)
    <3>1. req[h].kind \in Fields /\ "tests" \in Fields /\ req[h].kind \notin Context
      BY <2>2 DEF Fields, Context
    <3>2. req[h].stamp \in Nat /\ session.data["tests"] \in Nat
      BY <3>1 DEF Known, Types, SessionType
    <3>3. /\ Set(req[h].kind, x) \in Message /\ Set(req[h].kind, x).kind = "set"
          /\ Set(req[h].kind, x).field = req[h].kind
      BY <2>2, <3>1, <3>2, MessageTypes DEF Known, Set
    <3>4. Told(Set(req[h].kind, x), history)
      BY <3>1, <3>3 DEF Told
    <3> QED
      BY <1>1, <2>2, <3>3, <3>4, BroadcastTold
  <2> QED
    BY <2>1, <2>2 DEF HubSave, HubEchoed
<1>3. /\ UNCHANGED <<session, clock, history, chan, up, link, view, synced, jumped>>
      /\ saved' = saved \/ saved' = Persistable(session)
  BY DEF HubSave, HubEchoed, sessionVars, connVars, clientVars
<1>4. SessionShown'
  BY <1>3, SavedShown
<1> QED
  BY <1>2, <1>3, <1>4, SilentContexts

LEMMA HubContexts ==
    ASSUME ContextInv, VersionInv, Known, "rest" \notin Requests,
           RunSend \/ RestCreate \/ HubRestart \/ \E k \in Conns : Break(k)
    PROVE  ContextInv'
<1>1. ready \in Seq(Task) /\ TasksTold(ready, history)
  BY DEF Known, Typed, LoopTyped, ContextInv
<1>2. CASE RunSend
  <2> DEFINE m == ready[1].msg
  <2>1. /\ ready # <<>> /\ ready[1].task = "send" /\ ready' = Tail(ready)
        /\ chan' = Written(ready[1].to, m)
        /\ UNCHANGED <<session, clock, history, saved, up, link, view, synced, jumped>>
    BY <1>2 DEF RunSend, sessionVars, clientVars
  <2>2. ready[1] \in Task /\ 1 \in DOMAIN ready
    BY <1>1, <2>1
  <2>3. m \in Message /\ Told(m, history)
    BY <1>1, <2>1, <2>2 DEF Task, TasksTold
  <2>4. \A i \in DOMAIN Tail(ready) : i + 1 \in DOMAIN ready /\ Tail(ready)[i] = ready[i + 1]
    BY <1>1, <2>1
  <2>5. TasksTold(ready', history) /\ SessionShown'
    BY <1>1, <2>1, <2>4 DEF TasksTold, ContextInv, SessionShown
  <2> HIDE DEF m
  <2>6. CASE chan' = chan
    BY <2>1, <2>5, <2>6, SilentContexts
  <2>7. CASE chan' = [chan EXCEPT ![reg[ready[1].to]] = Append(@, m)]
    BY <2>1, <2>3, <2>5, <2>7, WritingContexts
  <2> QED
    BY <2>1, <2>6, <2>7 DEF Written
<1>3. CASE HubRestart
  <2>1. /\ ready' = <<>> /\ up' = [k \in Conns |-> FALSE] /\ session' = saved
        /\ UNCHANGED <<saved, clock, history, chan, link, view, synced, jumped>>
    BY <1>3 DEF HubRestart, clientVars
  <2>2. session.v \in Nat /\ saved.v \in Nat /\ clock \in Nat
    BY DEF Known, Types, SessionType
  <2>3. SessionShown'
    BY <2>1, <2>2 DEF ContextInv, SessionShown
  <2>4. TasksTold(ready', history)
    BY <2>1 DEF TasksTold
  <2> QED
    BY <2>1, <2>3, <2>4, SilentContexts
<1>4. CASE \E k \in Conns : Break(k)
  <2>1. /\ \A k \in Conns : up'[k] => up[k]
        /\ UNCHANGED <<session, clock, history, saved, chan, link, view, synced, jumped, ready>>
    BY <1>4 DEF Break, Known, Typed, WireTyped, sessionVars, loopVars, clientVars
  <2>2. SessionShown'
    BY <2>1 DEF ContextInv, SessionShown
  <2> QED
    BY <1>1, <2>1, <2>2, SilentContexts
<1> QED
  BY <1>2, <1>3, <1>4 DEF RestCreate

LEMMA MoveContexts ==
    ASSUME ContextInv, VersionInv, Known, NEW d \in Devices,
           (\E k \in Conns : Open(d, k)) \/ Dropped(d) \/ Reload(d)
    PROVE  ContextInv'
<1>1. UNCHANGED <<session, clock, history, saved, ready>>
  BY DEF Open, Dropped, Reload, sessionVars, loopVars
<1>2. SessionShown' /\ TasksTold(ready', history')
  BY <1>1 DEF ContextInv, SessionShown
<1>3. ASSUME NEW k \in Conns, Open(d, k) PROVE ContextInv'
  <2>1. /\ link[d] = NoConn /\ pc[k] = "unused" /\ chan[k] = <<>>
        /\ link' = [link EXCEPT ![d] = k]
        /\ up' = [up EXCEPT ![k] = TRUE] /\ UNCHANGED <<chan, view, synced, jumped>>
    BY <1>3 DEF Open, VersionInv, UnusedQuiet
  <2>2. d \notin synced /\ \A e \in synced : e \in Devices /\ link[e] # k
    BY <2>1, BoundAssumption DEF VersionInv, ViewsBehind, UnusedQuiet, Conns, NoConn, Known,
                                 Typed, ClientTyped
  <2>3. /\ \A e \in synced : link'[e] = link[e] /\ link[e] \in Conns
        /\ \A j \in Conns : j # k => up'[j] = up[j]
    BY <2>1, <2>2 DEF Known, Typed, WireTyped, ClientTyped, VersionInv, ViewsBehind
  <2>4. WiresTold'
    <3>1. ASSUME NEW j \in Conns, up'[j], NEW i \in DOMAIN chan[j] PROVE Told(chan[j][i], history)
      <4>1. j # k
        BY <2>1, <3>1
      <4> QED
        BY <2>3, <3>1, <4>1 DEF ContextInv, WiresTold
    <3> QED
      BY <1>1, <2>1, <3>1 DEF WiresTold
  <2>5. ContextAtVersion'
    BY <1>1, <2>1, <2>2, <2>3 DEF ContextInv, ContextAtVersion, ContextAt
  <2> QED
    BY <1>2, <2>4, <2>5 DEF ContextInv
<1>4. CASE Dropped(d) \/ Reload(d)
  <2>1. /\ link' = [link EXCEPT ![d] = NoConn] /\ chan' = [chan EXCEPT ![link[d]] = <<>>]
        /\ \A j \in Conns : up'[j] => up[j]
        /\ synced' = synced \ {d} /\ jumped \subseteq jumped' \cup {d}
        /\ \A e \in Devices : e # d => view'[e] = view[e]
    BY <1>4 DEF Dropped, Reload, Known, Typed, WireTyped, ClientTyped
  <2>2. \A e \in Devices : e # d => link'[e] = link[e]
    BY <2>1 DEF Known, Typed, ClientTyped
  <2>3. WiresTold'
    <3>1. ASSUME NEW j \in Conns, up'[j], NEW i \in DOMAIN chan'[j]
          PROVE  Told(chan'[j][i], history)
      <4>1. chan'[j] = chan[j] \/ chan'[j] = <<>>
        BY <2>1 DEF Known, Typed, WireTyped
      <4>2. chan'[j] = chan[j] /\ up[j]
        BY <2>1, <3>1, <4>1
      <4> QED
        BY <3>1, <4>2 DEF ContextInv, WiresTold
    <3> QED
      BY <1>1, <3>1 DEF WiresTold
  <2>4. ASSUME NEW e \in Devices \ jumped', e \in synced', up'[link'[e]], NEW f \in Context
        PROVE  view'[e].data[f] = history[view'[e].v][f]
    <3>1. e # d /\ e \in synced /\ e \notin jumped
      BY <2>1, <2>4
    <3>2. link'[e] = link[e] /\ link[e] \in Conns /\ view'[e] = view[e]
      BY <2>1, <2>2, <3>1 DEF VersionInv, ViewsBehind
    <3>3. up[link[e]]
      BY <2>1, <2>4, <3>2
    <3> QED
      BY <3>1, <3>2, <3>3 DEF ContextInv, ContextAtVersion, ContextAt
  <2>5. ContextAtVersion'
    BY <1>1, <2>4 DEF ContextAtVersion, ContextAt
  <2> QED
    BY <1>2, <2>3, <2>5 DEF ContextInv
<1> QED
  BY <1>3, <1>4

(* An event without a version is about no part of the context.             *)
LEMMA EventContexts ==
    ASSUME ContextInv, VersionInv, Known, Durable, ToolEvent \/ AgentEvent
    PROVE  ContextInv'
<1>1. /\ \A f \in Fields \ {"agent"} : session'.data[f] = session.data[f]
      /\ session'.v = session.v /\ clock < MaxWrites /\ clock' = clock + 1
      /\ clock \in Nat /\ history' = history
      /\ UNCHANGED <<saved, connVars, clientVars>>
  BY EventIs
<1>2. /\ MaxWrites \in Nat /\ session.v \in Nat
      /\ \A f \in Context : session'.data[f] = session.data[f]
  BY <1>1, BoundAssumption DEF Known, Types, SessionType, Context, Fields
<1>3. SessionShown'
  <2>1. Shows(session'.data, session'.v, history')
    BY <1>1, <1>2 DEF ContextInv, SessionShown, Shows
  <2>2. session'.v <= clock' /\ clock' <= MaxWrites
    BY <1>1, <1>2 DEF ContextInv, SessionShown
  <2> QED
    BY <1>1, <2>1, <2>2 DEF ContextInv, SessionShown
<1>4. PICK f \in {"core", "agent"} :
          /\ Set(f, clock + 1) \in Message
          /\ ready' = ready \o SetToSeq({Send(d, Set(f, clock + 1)) : d \in Registered})
  BY EventQueue DEF Known
<1> DEFINE T == {Send(d, Set(f, clock + 1)) : d \in Registered}
           tasks == SetToSeq(T)
<1>5. Registered \in SUBSET Devices
  BY DEF Registered
<1>6. tasks \in Seq(T) /\ ready' = ready \o tasks
  BY <1>4, <1>5, SendTasks
<1>7. \A t \in T : t.msg = Set(f, clock + 1)
  BY DEF Send
<1> HIDE DEF T, tasks
<1>8. \A i \in DOMAIN tasks : Told(tasks[i].msg, history)
  BY <1>6, <1>7 DEF Told, Set, Context
<1>9. TasksTold(ready', history)
  <2>1. ready \in Seq(Task) /\ TasksTold(ready, history)
    BY DEF Known, Typed, LoopTyped, ContextInv
  <2>2. \A i \in DOMAIN (ready \o tasks) :
           \/ i \in DOMAIN ready /\ (ready \o tasks)[i] = ready[i]
           \/ \E j \in DOMAIN tasks : (ready \o tasks)[i] = tasks[j]
    BY <1>6, <2>1, JoinedAt
  <2> QED
    BY <1>6, <1>8, <2>1, <2>2 DEF TasksTold
<1> QED
  BY <1>1, <1>3, <1>9, SilentContexts DEF connVars, clientVars

LEMMA PanelContexts ==
    ASSUME ContextInv, VersionInv, Known, NEW d \in Devices, ToolPanel(d)
    PROVE  ContextInv'
<1>1. /\ UNCHANGED <<session, saved, history, ready, chan, up, link, synced, jumped>>
      /\ \A e \in Devices :
            /\ view'[e].v = view[e].v
            /\ \A f \in Context : view'[e].data[f] = view[e].data[f]
  BY PanelIs DEF Context, Fields, loopVars, connVars
<1>2. clock < MaxWrites /\ clock' = clock + 1 /\ clock \in Nat /\ MaxWrites \in Nat
      /\ session.v \in Nat
  BY BoundAssumption DEF ToolPanel, Known, Types, SessionType
<1>3. SessionShown'
  BY <1>1, <1>2 DEF ContextInv, SessionShown
<1>4. WiresTold' /\ TasksTold(ready', history')
  BY <1>1 DEF ContextInv, WiresTold
<1>5. ContextAtVersion'
  BY <1>1 DEF ContextInv, ContextAtVersion, ContextAt
<1> QED
  BY <1>3, <1>4, <1>5 DEF ContextInv

(* A message read by a client that shows the context of its version.       *)
LEMMA AppliedShows ==
    ASSUME NEW c \in ViewType, NEW m \in Message, NEW H, Told(m, H),
           m.kind # "snapshot" => Shows(c.data, c.v, H),
           m.kind = "rejected" => m.v <= c.v,
           m.kind = "update" => m.v <= c.v + 1
    PROVE  Shows(Applied(c, m).data, Applied(c, m).v, H)
<1>1. c.v \in Nat /\ c.data \in [Fields -> Nat] /\ Context \subseteq Fields
  BY DEF ViewType, Fields
<1>2. CASE m.kind = "snapshot"
  BY <1>2 DEF Applied, Told
<1>3. CASE m.kind = "update"
  <2>1. m.v \in Nat /\ m.v <= c.v + 1
    BY <1>3, VersionNat DEF Versioned
  <2>2. CASE m.v <= c.v
    BY <1>3, <2>2 DEF Applied
  <2>3. CASE ~(m.v <= c.v)
    <3>1. m.v - 1 = c.v
      BY <1>1, <2>1, <2>3
    <3>2. Applied(c, m) = [c EXCEPT !.v = m.v, !.data[m.field] = m.val]
      BY <1>3, <2>3 DEF Applied
    <3>3. /\ Applied(c, m).v = m.v
          /\ \A f \in Context : Applied(c, m).data[f] = IF f = m.field THEN m.val ELSE c.data[f]
      BY <1>1, <3>2 DEF ViewType
    <3> QED
      BY <1>3, <3>1, <3>3 DEF Told, Shows
  <2> QED
    BY <2>2, <2>3
<1>4. CASE m.kind = "set"
  <2>1. Applied(c, m) = [c EXCEPT !.data[m.field] = m.val]
    BY <1>4 DEF Applied
  <2>2. /\ Applied(c, m).v = c.v
        /\ \A f \in Context : f # m.field /\ Applied(c, m).data[f] = c.data[f]
    BY <1>1, <1>4, <2>1 DEF ViewType, Told
  <2> QED
    BY <1>4, <2>2 DEF Shows
<1>5. CASE m.kind = "chat"
  BY <1>5 DEF Applied, ViewType
<1>6. CASE m.kind = "rejected"
  <2>1. m.v \in Nat
    BY <1>6, VersionNat DEF Versioned
  <2>2. Applied(c, m) = [c EXCEPT !.v = IF c.v > m.v THEN c.v ELSE m.v]
    BY <1>6 DEF Applied
  <2>3. Applied(c, m).v = c.v /\ Applied(c, m).data = c.data
    BY <1>1, <1>6, <2>1, <2>2 DEF ViewType
  <2> QED
    BY <1>6, <2>3
<1>7. m.kind \in {"snapshot", "update", "set", "chat", "rejected"}
  BY DEF Message
<1> QED
  BY <1>2, <1>3, <1>4, <1>5, <1>6, <1>7

LEMMA ReceiveContexts ==
    ASSUME ContextInv, VersionInv, Known, NEW d \in Devices, Receive(d)
    PROVE  ContextInv'
<1> DEFINE k == link[d]
           q == chan[k]
           m == q[1]
<1>1. /\ k \in Conns /\ q \in Seq(Message) /\ q # <<>> /\ chan' = [chan EXCEPT ![k] = Tail(@)]
      /\ UNCHANGED <<session, clock, history, saved, ready, up, link>>
  BY DEF Receive, Known, Typed, WireTyped, ClientTyped, sessionVars, loopVars
<1>2. m \in Message /\ 1 \in DOMAIN q
  BY <1>1
<1>3. SessionShown' /\ TasksTold(ready', history')
  BY <1>1 DEF ContextInv, SessionShown
<1>shift. \A i \in DOMAIN Tail(q) : i + 1 \in DOMAIN q /\ Tail(q)[i] = q[i + 1]
  <2> HIDE DEF k, q
  <2> QED
    BY <1>1
<1>4. WiresTold'
  <2>1. ASSUME NEW j \in Conns, up[j], NEW i \in DOMAIN chan'[j] PROVE Told(chan'[j][i], history)
    <3>1. CASE j = k
      <4>1. chan'[j] = Tail(q)
        BY <1>1, <3>1 DEF Known, Typed, WireTyped
      <4>2. i + 1 \in DOMAIN q /\ chan'[j][i] = q[i + 1]
        <5> HIDE DEF k, q
        <5> QED
          BY <1>shift, <2>1, <4>1
      <4> QED
        BY <2>1, <3>1, <4>2 DEF ContextInv, WiresTold
    <3>2. CASE j # k
      <4>1. chan'[j] = chan[j]
        BY <1>1, <3>2 DEF Known, Typed, WireTyped
      <4> QED
        BY <2>1, <4>1 DEF ContextInv, WiresTold
    <3> QED
      BY <3>1, <3>2
  <2> QED
    BY <1>1, <2>1 DEF WiresTold
<1>5. \/ UNCHANGED <<view, synced, jumped>>
      \/ /\ ~IsGap(d, m) /\ view' = [view EXCEPT ![d] = Applied(@, m)]
         /\ IF m.kind = "snapshot"
            THEN synced' = synced \cup {d} /\ jumped' = jumped \ {d}
            ELSE /\ UNCHANGED synced
                 /\ jumped' = IF Jumps(d, m) THEN jumped \cup {d} ELSE jumped
  BY DEF Receive
<1>6. view[d] \in ViewType /\ view[d].v \in Nat /\ ref[d] \in Nat
  BY DEF Known, Typed, ClientTyped, ViewType
<1> HIDE DEF m
<1>7. ASSUME NEW e \in Devices, e # d, e \in synced', e \notin jumped', up[link[e]],
             NEW f \in Context
      PROVE  view'[e].data[f] = history[view'[e].v][f]
  <2>1. view'[e] = view[e] /\ e \in synced /\ e \notin jumped
    BY <1>5, <1>7 DEF Known, Typed, ClientTyped
  <2> QED
    BY <1>7, <2>1 DEF ContextInv, ContextAtVersion, ContextAt
<1>8. ASSUME d \in synced', d \notin jumped', up[k]
      PROVE  Shows(view'[d].data, view'[d].v, history)
  <2>1. d \in synced /\ d \notin jumped => Shows(view[d].data, view[d].v, history)
    BY <1>8 DEF ContextInv, ContextAtVersion, ContextAt, Shows
  <2>2. CASE UNCHANGED <<view, synced, jumped>>
    BY <1>8, <2>1, <2>2
  <2>3. CASE ~UNCHANGED <<view, synced, jumped>>
    <3>1. /\ ~IsGap(d, m) /\ view' = [view EXCEPT ![d] = Applied(@, m)]
          /\ m.kind # "snapshot" => d \in synced /\ d \notin jumped /\ ~Jumps(d, m)
      BY <1>5, <1>8, <2>3
    <3>2. view'[d] = Applied(view[d], m)
      BY <3>1 DEF Known, Typed, ClientTyped
    <3>3. Told(m, history)
      BY <1>1, <1>2, <1>8 DEF ContextInv, WiresTold, m
    <3>4. m.kind = "rejected" => m.v <= view[d].v
      BY <1>2, <1>6, <3>1, VersionNat DEF Jumps, Versioned
    <3>5. m.kind = "update" => m.v <= view[d].v + 1
      BY <1>2, <1>6, <3>1, VersionNat DEF Jumps, IsGap, Versioned
    <3> QED
      BY <1>2, <1>6, <2>1, <3>1, <3>2, <3>3, <3>4, <3>5, AppliedShows
  <2> QED
    BY <2>2, <2>3
<1>9. ContextAtVersion'
  BY <1>1, <1>7, <1>8 DEF ContextAtVersion, ContextAt, Shows
<1> QED
  BY <1>3, <1>4, <1>9 DEF ContextInv

LEMMA InitContexts == Init => ContextInv
<1> SUFFICES ASSUME Init PROVE ContextInv
  OBVIOUS
<1>1. SessionShown
  BY BoundAssumption DEF Init, SessionShown, Shows, Unset, Fields
<1>2. WiresTold /\ TasksTold(ready, history) /\ ContextAtVersion
  BY DEF Init, WiresTold, TasksTold, ContextAtVersion, ContextAt
<1> QED
  BY <1>1, <1>2 DEF ContextInv

LEMMA StepContexts ==
    ASSUME "rest" \notin Requests
    PROVE  ContextInv /\ VersionInv /\ Known /\ Durable /\ [Next]_vars => ContextInv'
<1> SUFFICES ASSUME ContextInv, VersionInv, Known, Durable, [Next]_vars PROVE ContextInv'
  OBVIOUS
<1>1. ASSUME NEW k \in Conns, HandlerStep(k) PROVE ContextInv'
  BY <1>1, MutationsContexts, ConnectContexts, HandlerContexts DEF HandlerStep
<1>2. ASSUME UNCHANGED <<session, clock, saved, history, chan, up, link, view, synced, jumped, ready>>
      PROVE  ContextInv'
  <2>1. SessionShown' /\ TasksTold(ready', history')
    BY <1>2 DEF ContextInv, SessionShown
  <2> QED
    BY <1>2, <2>1, SilentContexts
<1>3. ASSUME NEW d \in Devices, ClientStep(d) PROVE ContextInv'
  <2>1. CASE Render(d)
    BY <1>2, <2>1 DEF Render, sessionVars, loopVars, connVars
  <2> QED
    BY <1>3, <2>1, MoveContexts, ReceiveContexts, PanelContexts DEF ClientStep
<1>4. CASE UNCHANGED vars
  BY <1>2, <1>4 DEF vars, sessionVars, loopVars, connVars, clientVars
<1> QED
  BY <1>1, <1>3, <1>4, MutationsContexts, SaveContexts, HubContexts, EventContexts DEF Next

(* A client whose version has not passed over an update shows the context  *)
(* of its version, in whatever order broadcasts, snapshots and rejections  *)
(* arrive, whatever is dropped, reloaded or restarted, and though the demo *)
(* seed takes a version without a message; when nobody writes to the       *)
(* session without a version (REST create).                                *)
THEOREM ContextsFollowVersions ==
    ASSUME "rest" \notin Requests
    PROVE  Spec => []ContextAtVersion
<1>1. Init => VersionInv /\ Typed /\ ContextInv
  BY InitVersions, InitTyped, InitContexts
<1>2. Durable => Types
  BY DEF Durable
<1>3. Typed /\ Durable /\ Types /\ Types' /\ [Next]_vars => Typed'
  BY StepTyped
<1>4. VersionInv /\ Typed /\ Types /\ Typed' /\ Types' /\ Durable /\ [Next]_vars => VersionInv'
  BY StepVersions DEF Known
<1>5. ContextInv /\ VersionInv /\ Typed /\ Types /\ Durable /\ [Next]_vars => ContextInv'
  BY StepContexts DEF Known
<1>6. ContextInv => ContextAtVersion
  BY DEF ContextInv
<1> QED
  BY <1>1, <1>2, <1>3, <1>4, <1>5, <1>6, Durability, PTL DEF Spec

=============================================================================
