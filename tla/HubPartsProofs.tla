--------------------------- MODULE HubPartsProofs ---------------------------
(***************************************************************************)
(* The composition of the parts that MCHubParts checks lets every part do  *)
(* what its own specification says and no more, so what is proved of the   *)
(* parts holds of it.                                                      *)
(***************************************************************************)
EXTENDS MCHubParts, PairingProofs, PartsProofs

PresenceProofs == INSTANCE AgentPresenceProofs WITH
    Agents <- {a1}, MaxConns <- 3, MaxAttempts <- 2, None <- None,
    state <- agentState, attempts <- agentAttempts, failures <- agentFailures,
    link <- agentLink, owner <- connOwner, up <- connUp, handler <- connHandler,
    inbox <- connInbox, greeted <- connGreeted,
    registry <- hubRegistry, slot <- hubSlot, told <- hubTold

partsVars ==
    <<part, pairingVars, scannerVars, diagnosticsVars, hubVars, storeVars, presenceVars>>

\* A step is one of a part, and none of the others.
LEMMA PartsStep ==
    ASSUME [PartsNext]_partsVars
    PROVE  /\ [PairingNext]_pairingVars /\ [ScannerNext]_scannerVars
           /\ [DiagnosticsNext]_diagnosticsVars /\ [HubNext]_hubVars /\ [StoreNext]_storeVars
           /\ [Presence!Next]_presenceVars
  BY DEF PartsNext, partsVars

\* Every behaviour of the composition is one of the specification of each part:
\* what holds of a part alone holds of it beside the others.
THEOREM PartsAreTheirOwn ==
    PartsSpec => PairingSpec /\ ScannerSpec /\ DiagnosticsSpec /\ HubSpec /\ StoreSpec
  <1>1. PartsInit => PairingInit /\ ScannerInit /\ DiagnosticsInit /\ HubInit /\ StoreInit
    BY DEF PartsInit
  <1>2. [PartsNext]_partsVars =>
            /\ [PairingNext]_pairingVars /\ [ScannerNext]_scannerVars
            /\ [DiagnosticsNext]_diagnosticsVars /\ [HubNext]_hubVars /\ [StoreNext]_storeVars
    BY PartsStep
  <1> QED
    BY <1>1, <1>2, PTL DEF PartsSpec, partsVars, PairingSpec, ScannerSpec, DiagnosticsSpec,
                           HubSpec, StoreSpec

-----------------------------------------------------------------------------
(* The agent: the instance that the composition runs is the one that the   *)
(* proofs are about.                                                       *)

LEMMA PresenceTypes ==
    /\ Presence!Init => PresenceProofs!Init
    /\ PresenceProofs!IInv => Presence!TypeOK
  BY DEF PresenceProofs!IInv, Presence!Init, PresenceProofs!Init, Presence!TypeOK, PresenceProofs!TypeOK,
         Presence!Conns, PresenceProofs!Conns, Presence!NoConn, PresenceProofs!NoConn,
         Presence!Event, PresenceProofs!Event

LEMMA PresenceSteps == Presence!Next => PresenceProofs!Next
  BY DEF Presence!Next, PresenceProofs!Next, Presence!AgentStep, PresenceProofs!AgentStep,
         Presence!ConnectStep, PresenceProofs!ConnectStep, Presence!ReceiveStep,
         PresenceProofs!ReceiveStep, Presence!HandlerStep, PresenceProofs!HandlerStep,
         Presence!StartConnect, PresenceProofs!StartConnect, Presence!Connected,
         PresenceProofs!Connected, Presence!ConnectFails, PresenceProofs!ConnectFails,
         Presence!Backoff, PresenceProofs!Backoff, Presence!Online, PresenceProofs!Online,
         Presence!Misread, PresenceProofs!Misread, Presence!Beat, PresenceProofs!Beat,
         Presence!Lost, PresenceProofs!Lost, Presence!ClosedOk, PresenceProofs!ClosedOk,
         Presence!Shutdown, PresenceProofs!Shutdown, Presence!Break, PresenceProofs!Break,
         Presence!SlotIsConn, PresenceProofs!SlotIsConn, Presence!HubRegister,
         PresenceProofs!HubRegister, Presence!HubReply, PresenceProofs!HubReply,
         Presence!HubHeartbeat, PresenceProofs!HubHeartbeat, Presence!KeepSlot,
         PresenceProofs!KeepSlot, Presence!Event, PresenceProofs!Event,
         Presence!Unregister, PresenceProofs!Unregister, Presence!HubEnd,
         PresenceProofs!HubEnd, Presence!HubRestart, PresenceProofs!HubRestart,
         Presence!Conns, PresenceProofs!Conns, Presence!NoConn, PresenceProofs!NoConn,
         Presence!agentVars, PresenceProofs!agentVars, Presence!connVars,
         PresenceProofs!connVars, Presence!hubVars, PresenceProofs!hubVars

LEMMA PresenceHolds == PartsSpec => []PresenceProofs!IInv
  <1>1. None \notin {a1} /\ 3 \in Nat /\ 2 \in Nat
    BY AgentAssumption
  <1>2. PartsInit => PresenceProofs!IInv
    BY <1>1, PresenceTypes, PresenceProofs!InitIInv DEF PartsInit
  <1>3. PresenceProofs!IInv /\ [PartsNext]_partsVars => PresenceProofs!IInv'
    <2>1. UNCHANGED presenceVars => UNCHANGED PresenceProofs!vars
      BY DEF presenceVars, PresenceProofs!vars, PresenceProofs!agentVars,
             PresenceProofs!connVars, PresenceProofs!hubVars
    <2> QED BY <1>1, <2>1, PartsStep, PresenceSteps, PresenceProofs!StepIInv
  <1> QED BY <1>2, <1>3, PTL DEF PartsSpec, partsVars

-----------------------------------------------------------------------------
\* Every part keeps its types, whichever part moves.
THEOREM PartsTypeCorrect == PartsSpec => []PartsTypeOK
  <1>1. /\ PairingTypeOK /\ ScannerTypeOK /\ DiagnosticsTypeOK /\ HubTypeOK /\ StoreTypeOK
        /\ PresenceProofs!IInv
        => PartsTypeOK
    BY PresenceTypes DEF PartsTypeOK
  <1> QED
    BY <1>1, PartsAreTheirOwn, PresenceHolds, PairingTypeCorrect, ScannerTypeCorrect,
       DiagnosticsTypeCorrect, HubTypeCorrect, StoreTypeCorrect, PTL

\* The promises of the parts hold of the composition: one client per code, no
\* newer token than the saved one, the phones as last seen, no repeated test, no
\* agent without its hub, one hub, everyone's own session, and what a refused
\* client and a completed test may never do.
THEOREM PartsKeepTheirPromises ==
    PartsSpec => /\ [](/\ OneClientPerCode /\ TokenCurrent /\ ListIsLastSeen /\ NoLoop
                       /\ AgentHasItsHub /\ OneHub /\ ResumesOwn)
                 /\ RejectedStaysAway /\ CompletedNotProposed
  BY PartsAreTheirOwn, CodePairsOneClient, SavedTokenIsCurrent, ListStaysLastSeen, NoLoopHolds,
     AgentsEndWithTheirHub, OneHubAtATime, UsersResumeTheirSession, RefusedTriesNoMore,
     CompletedStaysAway, PTL
=============================================================================
