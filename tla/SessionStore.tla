---------------------------- MODULE SessionStore ----------------------------
(***************************************************************************)
(* The SQLite session store and the resume of repair sessions              *)
(* (src/app/session/sqlite_store.py, resume.py): users, their devices, the *)
(* sessions the devices take part in.  Every statement is committed by     *)
(* itself, so a process that is killed leaves a join half done.            *)
(***************************************************************************)
EXTENDS Naturals, FiniteSets

CONSTANTS
    Users, Devices, Sessions,
    NoSession,  \* "no session", and no device or user
    MaxSaves    \* bound: contexts saved

ASSUME StoreAssumption == MaxSaves \in Nat /\ NoSession \notin Sessions

VARIABLES
    owner,         \* client_devices: the user of each device
    participants,  \* rows <<device, session>>; all are active
    contexts,      \* the context of each session; at = 0 when there is none
    join,          \* the join_session that is running
    saves,         \* contexts saved so far, for last_activity_at
    joined,        \* ghost: the joins that were completed
    cut           \* ghost: the joins that were cut short

storeVars == <<owner, participants, contexts, join, saves, joined, cut>>

NoContext == [at |-> 0, ids |-> {}, last |-> NoSession]
NoJoin == [pc |-> "idle"]

Stored == {s \in Sessions : contexts[s].at > 0}

-----------------------------------------------------------------------------
(* Queries *)

\* Mutant: the sessions of any device.
ActiveAnyone(u) == {s \in Stored : \E d \in Devices : <<d, s>> \in participants}

\* active_contexts_for_user: the sessions with a context in which a device
\* that is the user's now takes part.
Active(u) == {s \in Stored : \E d \in Devices : owner[d] = u /\ <<d, s>> \in participants}

\* recent_contexts, of which resume_for_user looks at five.
Recent == {s \in Stored : Cardinality({t \in Stored : contexts[t].at > contexts[s].at}) < 5}

\* resume_for_user: the one active session; with none, the one there is,
\* whoever took part in it.
Resume(u) ==
    LET choice == IF Active(u) = {} THEN Recent ELSE Active(u)
    IN  IF Cardinality(choice) = 1 THEN CHOOSE s \in choice : TRUE ELSE NoSession

-----------------------------------------------------------------------------
(* Operations *)

\* save_client_device: the row is replaced, its user with it.
SaveDevice(d, u) ==
    /\ owner' = [owner EXCEPT ![d] = u]
    /\ UNCHANGED <<participants, contexts, join, saves, joined, cut>>

\* save_context stamps the context.
Saved(s, context) ==
    /\ saves < MaxSaves
    /\ saves' = saves + 1
    /\ contexts' = [contexts EXCEPT ![s] = [context EXCEPT !.at = saves + 1]]

\* join_session, step by step: add_participant inserts the row ...
AddParticipant(d, s) ==
    /\ join = NoJoin
    /\ participants' = participants \cup {<<d, s>>}
    /\ join' = [pc |-> "list", device |-> d, session |-> s]
    /\ UNCHANGED <<owner, contexts, saves, joined, cut>>

\* ... and lists the participant in the context, if there is one, ...
ListParticipant ==
    LET s == join.session
        c == contexts[s]
    IN  /\ join.pc = "list"
        /\ IF s \in Stored
           THEN Saved(s, [c EXCEPT !.ids = @ \cup {join.device}, !.last = join.device])
           ELSE UNCHANGED <<contexts, saves>>
        /\ join' = [join EXCEPT !.pc = "create"]
        /\ UNCHANGED <<owner, participants, joined, cut>>

\* ... then join_session creates the context that is missing, ...
CreateContext ==
    /\ join.pc = "create"
    /\ IF join.session \in Stored THEN UNCHANGED <<contexts, saves>>
       ELSE Saved(join.session, NoContext)
    /\ join' = [join EXCEPT !.pc = "touch"]
    /\ UNCHANGED <<owner, participants, joined, cut>>

\* ... and names the device as its last one.
Touch ==
    /\ join.pc = "touch"
    /\ Saved(join.session, [contexts[join.session] EXCEPT !.last = join.device])
    /\ join' = NoJoin
    /\ joined' = joined \cup {<<join.device, join.session>>}
    /\ UNCHANGED <<owner, participants, cut>>

\* The process is killed; what was committed is there when it starts again.
KillStore ==
    /\ join # NoJoin
    /\ join' = NoJoin
    /\ cut' = cut \cup {<<join.device, join.session>>}
    /\ UNCHANGED <<owner, participants, contexts, saves, joined>>

StoreInit ==
    /\ owner = [d \in Devices |-> NoSession]
    /\ participants = {} /\ joined = {} /\ cut = {}
    /\ contexts = [s \in Sessions |-> NoContext]
    /\ join = NoJoin
    /\ saves = 0

StoreNext ==
    \/ \E d \in Devices, u \in Users : SaveDevice(d, u)
    \/ \E d \in Devices, s \in Sessions : AddParticipant(d, s)
    \/ ListParticipant \/ CreateContext \/ Touch \/ KillStore

StoreSpec == StoreInit /\ [][StoreNext]_storeVars

-----------------------------------------------------------------------------
(* Properties *)

\* The type of the state.
StoreTypeOK ==
    /\ owner \in [Devices -> Users \cup {NoSession}]
    /\ participants \subseteq Devices \X Sessions
    /\ contexts \in [Sessions -> [at : Nat, ids : SUBSET Devices,
                                  last : Devices \cup {NoSession}]]
    /\ join \in {NoJoin} \cup
                [pc : {"list", "create", "touch"}, device : Devices, session : Sessions]
    /\ saves \in Nat
    /\ joined \subseteq Devices \X Sessions /\ cut \subseteq Devices \X Sessions

\* "One relevant active session -> auto-resume candidate": a user whose devices
\* have joined one session gets that one on every device, though devices change
\* hands and others join other sessions; unless a join of theirs was cut short.
ResumesOwn ==
    join = NoJoin =>
        \A u \in Users : \A s \in Sessions :
            /\ \A d \in Devices : owner[d] = u => \A t \in Sessions : <<d, t>> \notin cut
            /\ {j \in joined : owner[j[1]] = u} # {}
            /\ \A j \in joined : owner[j[1]] = u => j[2] = s
            => Resume(u) = s

=============================================================================
