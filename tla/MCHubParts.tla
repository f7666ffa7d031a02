----------------------------- MODULE MCHubParts -----------------------------
(* Small instances of the parts of the hub that share no state: each initial *)
(* state is of one part, and only that part moves.  Interleaving parts that  *)
(* share nothing would reach no other state of any of them.                  *)
EXTENDS Pairing, DeviceScanner, Diagnostics, LocalHub, SessionStore

CONSTANTS a1

ASSUME AgentAssumption == a1 # None

VARIABLES
    part,  \* the part that moves
    agentState, agentAttempts, agentFailures, agentLink,       \* AgentPresence
    connOwner, connUp, connHandler, connInbox, connGreeted,
    hubRegistry, hubSlot, hubTold

presenceVars == <<agentState, agentAttempts, agentFailures, agentLink,
                  connOwner, connUp, connHandler, connInbox, connGreeted,
                  hubRegistry, hubSlot, hubTold>>

Presence == INSTANCE AgentPresence WITH
    Agents <- {a1}, MaxConns <- 3, MaxAttempts <- 2, None <- None,
    state <- agentState, attempts <- agentAttempts, failures <- agentFailures,
    link <- agentLink, owner <- connOwner, up <- connUp, handler <- connHandler,
    inbox <- connInbox, greeted <- connGreeted,
    registry <- hubRegistry, slot <- hubSlot, told <- hubTold

PartsInit ==
    /\ part \in {"pairing", "scanner", "diagnostics", "hub", "store", "presence"}
    /\ PairingInit /\ DiagnosticsInit /\ HubInit /\ StoreInit /\ Presence!Init
    /\ ScannerInit /\ (part # "scanner" => usb = Nothing)

PartsNext ==
    /\ UNCHANGED part
    /\ \/ /\ part = "pairing" /\ PairingNext
          /\ UNCHANGED <<scannerVars, diagnosticsVars, hubVars, storeVars, presenceVars>>
       \/ /\ part = "scanner" /\ ScannerNext
          /\ UNCHANGED <<pairingVars, diagnosticsVars, hubVars, storeVars, presenceVars>>
       \/ /\ part = "diagnostics" /\ DiagnosticsNext
          /\ UNCHANGED <<pairingVars, scannerVars, hubVars, storeVars, presenceVars>>
       \/ /\ part = "hub" /\ HubNext
          /\ UNCHANGED <<pairingVars, scannerVars, diagnosticsVars, storeVars, presenceVars>>
       \/ /\ part = "store" /\ StoreNext
          /\ UNCHANGED <<pairingVars, scannerVars, diagnosticsVars, hubVars, presenceVars>>
       \/ /\ part = "presence" /\ Presence!Next
          /\ UNCHANGED <<pairingVars, scannerVars, diagnosticsVars, hubVars, storeVars>>

\* In the initial states of other parts no fair step of the scanner or the
\* launcher is enabled; one of the agent is, hence the condition.
PresenceFairness ==
    /\ \A k \in Presence!Conns : WF_presenceVars(part = "presence" /\ Presence!HandlerStep(k))
    /\ WF_presenceVars(part = "presence" /\ Presence!StartConnect(a1))
    /\ WF_presenceVars(part = "presence" /\ Presence!ConnectStep(a1))
    /\ WF_presenceVars(part = "presence" /\ Presence!ReceiveStep(a1))

PartsSpec ==
    /\ PartsInit
    /\ [][PartsNext]_<<part, pairingVars, scannerVars, diagnosticsVars, hubVars, storeVars,
                       presenceVars>>
    /\ ScannerFairness /\ HubFairness /\ PresenceFairness

\* The types of the state of every part.
PartsTypeOK ==
    /\ PairingTypeOK /\ ScannerTypeOK /\ DiagnosticsTypeOK /\ HubTypeOK /\ StoreTypeOK
    /\ Presence!TypeOK

\* A registration whose connection is dead does not stay (AgentPresence).
DeadIsForgotten == Presence!DeadIsForgotten

\* An agent that tries to connect gets online, gives up or is shut down
\* (AgentPresence).
ConnectingSettles == Presence!ConnectingSettles
=============================================================================
