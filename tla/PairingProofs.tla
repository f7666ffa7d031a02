---------------------------- MODULE PairingProofs ----------------------------
(***************************************************************************)
(* Proofs about Pairing: for any number of phones, codes, requests, starts *)
(* and tokens.                                                             *)
(***************************************************************************)
EXTENDS Pairing, FiniteSetTheorems, TLAPS

Pending == [pc : {"posted", "looked", "consumed", "answered", "refused"},
            phone : Phones, code : Codes, token : Nat, here : BOOLEAN, lost : BOOLEAN]

Web == [state : {"none", "opening", "open", "session", "waiting", "unauthorized", "error"},
        token : Nat, attempts : 0..MaxReconnect, closing : BOOLEAN]

-----------------------------------------------------------------------------
(* What the updates make of a request and of a web client. *)

LEMMA PendingIs ==
    ASSUME NEW q \in Pending
    PROVE  /\ q.pc \in {"posted", "looked", "consumed", "answered", "refused"}
           /\ q.phone \in Phones /\ q.code \in Codes /\ q.token \in Nat
           /\ q.here \in BOOLEAN /\ q.lost \in BOOLEAN /\ q.pc # "free"
  BY DEF Pending

LEMMA MovedIs ==
    ASSUME NEW q \in Pending, NEW pc \in {"posted", "looked", "consumed", "answered", "refused"}
    PROVE  LET m == [q EXCEPT !.pc = pc]
           IN  /\ m \in Pending /\ m.pc = pc /\ m.phone = q.phone /\ m.code = q.code
               /\ m.token = q.token /\ m.here = q.here
  BY DEF Pending

LEMMA AnsweredIs ==
    ASSUME NEW q \in Pending, NEW t \in Nat
    PROVE  LET m == [q EXCEPT !.pc = "answered", !.token = t]
           IN  /\ m \in Pending /\ m.pc = "answered" /\ m.phone = q.phone /\ m.code = q.code
               /\ m.token = t /\ m.here = q.here
  BY DEF Pending

LEMMA AwayIs ==
    ASSUME NEW q \in Pending
    PROVE  LET m == [q EXCEPT !.here = FALSE]
           IN  /\ m \in Pending /\ m.pc = q.pc /\ m.phone = q.phone /\ m.code = q.code
               /\ m.token = q.token /\ ~m.here
  BY DEF Pending

LEMMA LostIs ==
    ASSUME NEW q \in Pending
    PROVE  LET m == [q EXCEPT !.lost = TRUE, !.here = FALSE]
           IN  /\ m \in Pending /\ m.pc = q.pc /\ m.phone = q.phone /\ m.code = q.code
               /\ m.token = q.token /\ ~m.here
  BY DEF Pending

LEMMA PostedIs ==
    ASSUME NEW p \in Phones, NEW c \in Codes
    PROVE  LET m == [pc |-> "posted", phone |-> p, code |-> c,
                     token |-> 0, here |-> TRUE, lost |-> FALSE]
           IN  m \in Pending /\ m.pc = "posted" /\ m.phone = p /\ m.code = c
  BY DEF Pending

LEMMA FreeIs == NoRequest.pc = "free" /\ NoRequest \notin Pending
  BY DEF NoRequest, Pending

LEMMA NoWebIs == NoWeb \in Web /\ NoWeb.state = "none"
  BY PairingAssumption DEF NoWeb, Web

LEMMA WebIs ==
    ASSUME NEW w \in Web, NEW t \in Nat
    PROVE  /\ [w EXCEPT !.state = "opening", !.token = t] \in Web
           /\ [w EXCEPT !.state = "open", !.attempts = 0] \in Web
           /\ [w EXCEPT !.state = "session"] \in Web
           /\ [w EXCEPT !.state = "unauthorized", !.closing = TRUE] \in Web
           /\ [w EXCEPT !.state = "opening"] \in Web
           /\ [w EXCEPT !.closing = FALSE] \in Web
           /\ [w EXCEPT !.closing = FALSE].state = w.state
           /\ Rescheduled(w) \in Web
  <1> USE PairingAssumption DEF Web
  <1>1. [w EXCEPT !.state = "opening", !.token = t] \in Web
    OBVIOUS
  <1>2. [w EXCEPT !.state = "open", !.attempts = 0] \in Web
    <2>1. 0 \in 0..MaxReconnect
      OBVIOUS
    <2> QED BY <2>1
  <1>3. [w EXCEPT !.state = "session"] \in Web
    OBVIOUS
  <1>4. [w EXCEPT !.state = "unauthorized", !.closing = TRUE] \in Web
    OBVIOUS
  <1>5. [w EXCEPT !.state = "opening"] \in Web
    OBVIOUS
  <1>6. [w EXCEPT !.closing = FALSE] \in Web /\ [w EXCEPT !.closing = FALSE].state = w.state
    OBVIOUS
  <1>7. Rescheduled(w) \in Web
    <2>1. CASE w.attempts >= MaxReconnect
      BY <2>1 DEF Rescheduled
    <2>2. CASE ~(w.attempts >= MaxReconnect)
      <3>1. w.attempts + 1 \in 0..MaxReconnect
        BY <2>2
      <3> QED BY <2>2, <3>1 DEF Rescheduled
    <2> QED BY <2>1, <2>2
  <1> HIDE DEF Web
  <1> QED BY <1>1, <1>2, <1>3, <1>4, <1>5, <1>6, <1>7

-----------------------------------------------------------------------------
(* Types *)

Typed ==
    /\ challenge \in [Codes -> {"none", "live", "expired", "used"}]
    /\ row \in [Phones -> [token : Nat, revoked : BOOLEAN]]
    /\ req \in [Requests -> {NoRequest} \cup Pending]
    /\ saved \in [Phones -> Nat]
    /\ page \in [Phones -> {"finder", "pairing", "session", "home"}]
    /\ probe \in [Phones -> Nat]
    /\ web \in [Phones -> Web]
    /\ started \in Nat /\ issued \in Nat /\ doubled \in Nat
    /\ torn \subseteq Phones

LEMMA TypedIs == PairingTypeOK <=> Typed
  BY DEF PairingTypeOK, Typed, Pending, Web

LEMMA TypedIsNext == PairingTypeOK' <=> Typed'
  BY DEF PairingTypeOK, Typed, Pending, Web

LEMMA RequestIs ==
    ASSUME Typed, NEW r \in Requests, req[r].pc # "free"
    PROVE  req[r] \in Pending
  BY FreeIs DEF Typed

LEMMA AwayType ==
    ASSUME Typed, NEW p
    PROVE  Away(p) \in [Requests -> {NoRequest} \cup Pending]
  <1>1. ASSUME NEW r \in Requests, r \in InFlight(p)
        PROVE  [req[r] EXCEPT !.here = FALSE] \in Pending
    <2>1. req[r] \in Pending
      BY <1>1, RequestIs DEF InFlight
    <2> QED BY <2>1, AwayIs
  <1> QED BY <1>1 DEF Away, Typed

LEMMA UnreadType ==
    ASSUME Typed, NEW rs, rs \subseteq Requests, \A r \in rs : req[r].pc # "free", Unread(rs)
    PROVE  req' \in [Requests -> {NoRequest} \cup Pending] /\ torn' \subseteq Phones
  <1>1. ASSUME NEW r \in rs PROVE req[r].phone \in Phones /\ [req[r] EXCEPT !.lost = TRUE, !.here = FALSE] \in Pending
    <2>1. req[r] \in Pending
      BY RequestIs
    <2> QED BY <2>1, LostIs, PendingIs
  <1>2. torn' \subseteq Phones
    <2>1. {req[r].phone : r \in {s \in rs : req[s].pc = "answered"}} \subseteq Phones
      BY <1>1, Zenon
    <2> QED BY <2>1 DEF Unread, Typed
  <1>3. req' \in [Requests -> {NoRequest} \cup Pending]
    BY <1>1 DEF Unread, Typed
  <1> QED BY <1>2, <1>3

LEMMA PageType ==
    ASSUME Typed, NEW p \in Phones, NEW shown \in {"session", "home"}, NEW t \in Nat,
           SessionPage(p, shown, t)
    PROVE  /\ page' \in [Phones -> {"finder", "pairing", "session", "home"}]
           /\ web' \in [Phones -> Web]
  <1>1. [NoWeb EXCEPT !.state = "opening", !.token = t] \in Web
    BY NoWebIs, WebIs
  <1> QED BY <1>1 DEF SessionPage, Typed

LEMMA PairingTypeInit == PairingInit => PairingTypeOK
  BY NoWebIs, TypedIs DEF PairingInit, Typed

LEMMA PairingTypeStep == PairingTypeOK /\ [PairingNext]_pairingVars => PairingTypeOK'
  <1> SUFFICES ASSUME Typed, [PairingNext]_pairingVars PROVE Typed'
    BY TypedIs, TypedIsNext
  <1> USE PairingAssumption DEF hub
  <1>1. ASSUME NEW c \in Codes, Start(c) \/ Expire(c) PROVE Typed'
    BY <1>1 DEF Start, Expire, Typed
  <1>2. ASSUME NEW r \in Requests, Lookup(r) PROVE Typed'
    <2>1. req[r] \in Pending
      BY <1>2, RequestIs DEF Lookup
    <2>2. /\ [req[r] EXCEPT !.pc = "looked"] \in Pending
          /\ [req[r] EXCEPT !.pc = "refused"] \in Pending
      BY <2>1, MovedIs
    <2> QED BY <1>2, <2>2 DEF Lookup, Typed
  <1>3. ASSUME NEW r \in Requests, Consume(r) PROVE Typed'
    <2>1. req[r] \in Pending
      BY <1>3, RequestIs DEF Consume
    <2>2. [req[r] EXCEPT !.pc = "consumed"] \in Pending /\ req[r].code \in Codes
      BY <2>1, MovedIs, PendingIs
    <2> QED BY <1>3, <2>2 DEF Consume, Typed
  <1>4. ASSUME NEW r \in Requests, Save(r) PROVE Typed'
    <2>1. req[r] \in Pending
      BY <1>4, RequestIs DEF Save
    <2>0. issued + 1 \in Nat
      BY DEF Typed
    <2>2. /\ [req[r] EXCEPT !.pc = "answered", !.token = issued + 1] \in Pending
          /\ req[r].phone \in Phones
      BY <2>0, <2>1, AnsweredIs, PendingIs
    <2>3. row' \in [Phones -> [token : Nat, revoked : BOOLEAN]]
      BY <1>4, <2>2 DEF Save, Typed
    <2>4. req' \in [Requests -> {NoRequest} \cup Pending]
      BY <1>4, <2>2 DEF Save, Typed
    <2> QED BY <1>4, <2>0, <2>2, <2>3, <2>4 DEF Save, Typed
  <1>5. ASSUME NEW r \in Requests, Paired(r) PROVE Typed'
    <2>1. req[r] \in Pending
      BY <1>5, RequestIs DEF Paired
    <2>2. req[r].phone \in Phones /\ req[r].token \in Nat
      BY <2>1, PendingIs
    <2>3. /\ page' \in [Phones -> {"finder", "pairing", "session", "home"}]
          /\ web' \in [Phones -> Web]
      BY <1>5, <2>2, PageType DEF Paired, Typed
    <2>4. req' \in [Requests -> {NoRequest} \cup Pending]
      BY <1>5, AwayType DEF Paired, Typed
    <2> QED BY <1>5, <2>2, <2>3, <2>4 DEF Paired, Typed
  <1>6. ASSUME NEW r \in Requests, PairRefused(r) PROVE Typed'
    BY <1>6 DEF PairRefused, Typed
  <1>7. ASSUME NEW r \in Requests, Lose(r) PROVE Typed'
    <2>1. req' \in [Requests -> {NoRequest} \cup Pending] /\ torn' \subseteq Phones
      BY <1>7, UnreadType DEF Lose
    <2> QED BY <1>7, <2>1 DEF Lose, Typed
  <1>8. ASSUME NEW p \in Phones, Revoke(p) PROVE Typed'
    <2>1. row' \in [Phones -> [token : Nat, revoked : BOOLEAN]]
      BY <1>8 DEF Revoke, Typed
    <2> QED BY <1>8, <2>1 DEF Revoke, Typed
  <1>9. ASSUME NEW p \in Phones, Login(p) PROVE Typed'
    <2>1. /\ page' \in [Phones -> {"finder", "pairing", "session", "home"}]
          /\ web' \in [Phones -> Web]
      BY <1>9, PageType DEF Login, Typed
    <2>2. req' \in [Requests -> {NoRequest} \cup Pending]
      BY <1>9, AwayType DEF Login
    <2> QED BY <1>9, <2>1, <2>2 DEF Login, Typed
  <1>10. ASSUME NEW p \in Phones, LoginRefused(p) \/ LoginOffline(p)
         PROVE  Typed'
    <2>1. CASE LoginRefused(p)
      BY <2>1 DEF LoginRefused, Typed
    <2>2. CASE LoginOffline(p)
      BY <2>2 DEF LoginOffline, Typed
    <2> QED BY <1>10, <2>1, <2>2
  <1>11. ASSUME NEW p \in Phones, Browse(p) PROVE Typed'
    <2>1. req' \in [Requests -> {NoRequest} \cup Pending]
      BY <1>11, AwayType DEF Browse
    <2> QED BY <1>11, <2>1, NoWebIs DEF Browse, Typed
  <1>12. ASSUME NEW p \in Phones, Restart(p) PROVE Typed'
    <2>1. req' \in [Requests -> {NoRequest} \cup Pending] /\ torn' \subseteq Phones
      BY <1>12, UnreadType DEF Restart, InFlight
    <2> QED BY <1>12, <2>1, NoWebIs DEF Restart, Typed
  <1>13. ASSUME NEW p \in Phones, NEW r \in Requests, NEW c \in Codes, Pair(p, r, c)
         PROVE  Typed'
    <2>1. [pc |-> "posted", phone |-> p, code |-> c,
           token |-> 0, here |-> TRUE, lost |-> FALSE] \in Pending
      BY PostedIs
    <2> QED BY <1>13, <2>1 DEF Pair, Typed
  <1>14. CASE Crash
    <2>1. ASSUME NEW r \in Requests, req[r].pc = "answered" PROVE req[r].phone \in Phones
      BY <2>1, RequestIs, PendingIs
    <2>2. {req[r].phone : r \in {s \in Requests : req[s].pc = "answered"}} \subseteq Phones
      BY <2>1, Zenon
    <2> QED BY <1>14, <2>2 DEF Crash, Typed
  <1>15. ASSUME NEW p \in Phones, WebOpened(p) \/ WebAdmitted(p) \/ WebRejected(p)
                                  \/ WebClosed(p) \/ WebRetries(p)
         PROVE  Typed'
    <2>1. web[p] \in Web
      BY DEF Typed
    <2>2. PICK w, from : w \in Web /\ WebStep(p, from, w)
      BY <1>15, <2>1, WebIs DEF WebOpened, WebAdmitted, WebRejected, WebClosed, WebRetries
    <2> QED BY <2>2 DEF WebStep, Typed
  <1>16. CASE UNCHANGED pairingVars
    BY <1>16 DEF pairingVars, Typed
  <1> QED BY <1>1, <1>2, <1>3, <1>4, <1>5, <1>6, <1>7, <1>8, <1>9, <1>10, <1>11, <1>12,
             <1>13, <1>14, <1>15, <1>16 DEF PairingNext

\* The variables keep their types.
THEOREM PairingTypeCorrect == PairingSpec => []PairingTypeOK
  BY PairingTypeInit, PairingTypeStep, PTL DEF PairingSpec

-----------------------------------------------------------------------------
(* A page that is not a session page has no web client, and a request that  *)
(* can open a session page is of the pairing page that is shown.            *)

HereIsPairing ==
    \A r \in Requests : req[r].pc # "free" /\ req[r].here => page[req[r].phone] = "pairing"

PageHasNoWeb ==
    \A p \in Phones : page[p] \in {"finder", "pairing"} => web[p] = NoWeb

\* After a page is left none of its requests can open a session page.
LEMMA AwayHere ==
    ASSUME Typed, HereIsPairing, NEW p \in Phones, NEW r \in Requests,
           Away(p)[r].pc # "free", Away(p)[r].here
    PROVE  /\ req[r].pc # "free" /\ req[r].here /\ page[req[r].phone] = "pairing"
           /\ Away(p)[r] = req[r] /\ req[r].phone # p
  <1>1. CASE r \in InFlight(p)
    <2>1. req[r] \in Pending
      BY <1>1, RequestIs DEF InFlight
    <2> QED BY <1>1, <2>1, AwayIs DEF Away
  <1>2. CASE r \notin InFlight(p)
    BY <1>2 DEF Away, HereIsPairing, InFlight
  <1> QED BY <1>1, <1>2

\* What a request whose answer is not read becomes.
LEMMA UnreadIs ==
    ASSUME Typed, NEW rs \in SUBSET Requests, \A s \in rs : req[s].pc # "free",
           Unread(rs), NEW r \in Requests, req'[r].pc # "free"
    PROVE  /\ req[r].pc # "free" /\ req'[r].pc = req[r].pc /\ req'[r].phone = req[r].phone
           /\ req'[r].code = req[r].code /\ req'[r].token = req[r].token
           /\ (r \in rs => ~req'[r].here /\ req[r].pc # "answered")
           /\ (r \notin rs => req'[r] = req[r])
  <1>1. CASE r \in rs
    <2>1. req[r] \in Pending
      BY <1>1, RequestIs
    <2>2. req'[r] = [req[r] EXCEPT !.lost = TRUE, !.here = FALSE] /\ req[r].pc # "answered"
      BY <1>1, FreeIs DEF Unread
    <2> QED BY <1>1, <2>1, <2>2, LostIs, PendingIs
  <1>2. CASE r \notin rs
    BY <1>2 DEF Unread
  <1> QED BY <1>1, <1>2

LEMMA HereStep ==
    Typed /\ HereIsPairing /\ PageHasNoWeb /\ [PairingNext]_pairingVars
        => HereIsPairing' /\ PageHasNoWeb'
  <1> SUFFICES ASSUME Typed, HereIsPairing, PageHasNoWeb, [PairingNext]_pairingVars
               PROVE  HereIsPairing' /\ PageHasNoWeb'
    OBVIOUS
  <1> USE DEF hub
  <1>1. ASSUME UNCHANGED <<req, page, web>> PROVE HereIsPairing' /\ PageHasNoWeb'
    BY <1>1 DEF HereIsPairing, PageHasNoWeb
  <1>2. ASSUME NEW c \in Codes, Start(c) \/ Expire(c) PROVE HereIsPairing' /\ PageHasNoWeb'
    BY <1>1, <1>2 DEF Start, Expire
  <1>3. ASSUME NEW r \in Requests, Lookup(r) \/ Consume(r) \/ Save(r) \/ PairRefused(r)
        PROVE  HereIsPairing' /\ PageHasNoWeb'
    <2>1. req[r] \in Pending /\ req[r].pc # "free"
      BY <1>3, RequestIs DEF Lookup, Consume, Save, PairRefused
    <2>2. issued + 1 \in Nat
      BY DEF Typed
    <2>3. ASSUME NEW pc \in {"posted", "looked", "consumed", "answered", "refused"},
                 req'[r] = [req[r] EXCEPT !.pc = pc]
          PROVE  req'[r].phone = req[r].phone /\ req'[r].here = req[r].here
      BY <2>1, <2>3, MovedIs
    <2>4. ASSUME NEW t \in Nat, req'[r] = [req[r] EXCEPT !.pc = "answered", !.token = t]
          PROVE  req'[r].phone = req[r].phone /\ req'[r].here = req[r].here
      BY <2>1, <2>4 DEF Pending
    <2>5. \/ req'[r] = NoRequest
          \/ \E pc \in {"posted", "looked", "consumed", "answered", "refused"} :
                req'[r] = [req[r] EXCEPT !.pc = pc]
          \/ \E t \in Nat : req'[r] = [req[r] EXCEPT !.pc = "answered", !.token = t]
      BY <1>3, <2>2 DEF Lookup, Consume, Save, PairRefused, Typed
    <2>6. req'[r].pc = "free" \/ (req'[r].phone = req[r].phone /\ req'[r].here = req[r].here)
      <3>1. CASE req'[r] = NoRequest
        BY <3>1, FreeIs
      <3>2. CASE \E pc \in {"posted", "looked", "consumed", "answered", "refused"} :
                   req'[r] = [req[r] EXCEPT !.pc = pc]
        BY <2>3, <3>2
      <3>3. CASE \E t \in Nat : req'[r] = [req[r] EXCEPT !.pc = "answered", !.token = t]
        BY <2>4, <3>3
      <3> QED BY <2>5, <3>1, <3>2, <3>3
    <2>7. /\ \A s \in Requests \ {r} : req'[s] = req[s]
          /\ UNCHANGED <<page, web>>
      BY <1>3 DEF Lookup, Consume, Save, PairRefused, Typed
    <2> QED BY <2>1, <2>6, <2>7 DEF HereIsPairing, PageHasNoWeb
  <1>4. ASSUME NEW r \in Requests, Paired(r) PROVE HereIsPairing' /\ PageHasNoWeb'
    <2>1. req[r] \in Pending
      BY <1>4, RequestIs DEF Paired
    <2>2. req[r].phone \in Phones
      BY <2>1, PendingIs
    <2>3. CASE req[r].here
      <3>1. PageHasNoWeb'
        BY <1>4, <2>2, <2>3 DEF Paired, SessionPage, PageHasNoWeb, Typed
      <3>2. ASSUME NEW s \in Requests, req'[s].pc # "free", req'[s].here
            PROVE  page'[req'[s].phone] = "pairing"
        <4>1. s # r /\ req'[s] = Away(req[r].phone)[s]
          BY <1>4, <2>3, <3>2, FreeIs DEF Paired, Away
        <4>2. /\ page[req[s].phone] = "pairing" /\ req'[s] = req[s]
              /\ req[s].phone # req[r].phone
          BY <2>2, <3>2, <4>1, AwayHere
        <4>3. page' = [page EXCEPT ![req[r].phone] = "session"]
          BY <1>4, <2>3 DEF Paired, SessionPage
        <4>4. req[s].phone \in Phones
          BY <3>2, <4>2, RequestIs, PendingIs
        <4> QED BY <4>2, <4>3, <4>4 DEF Typed
      <3> QED BY <3>1, <3>2 DEF HereIsPairing
    <2>4. CASE ~req[r].here
      BY <1>4, <2>4, FreeIs DEF Paired, HereIsPairing, PageHasNoWeb, Typed
    <2> QED BY <2>3, <2>4
  <1>5. ASSUME NEW r \in Requests, Lose(r) PROVE HereIsPairing' /\ PageHasNoWeb'
    <2>1. \A s \in Requests : req'[s].pc # "free" /\ req'[s].here => req'[s] = req[s]
      BY <1>5, UnreadIs DEF Lose
    <2> QED BY <1>5, <2>1 DEF Lose, HereIsPairing, PageHasNoWeb
  <1>6. ASSUME NEW p \in Phones, Revoke(p) PROVE HereIsPairing' /\ PageHasNoWeb'
    BY <1>1, <1>6 DEF Revoke
  <1>7. ASSUME NEW p \in Phones, LoginRefused(p) \/ LoginOffline(p)
        PROVE  HereIsPairing' /\ PageHasNoWeb'
    BY <1>1, <1>7 DEF LoginRefused, LoginOffline
  <1>14. ASSUME NEW p \in Phones, Login(p) PROVE HereIsPairing' /\ PageHasNoWeb'
    <2>0. /\ page'[p] \in {"home", "session"} /\ req' = Away(p)
          /\ \A q \in Phones \ {p} : page'[q] = page[q] /\ web'[q] = web[q]
      BY <1>14 DEF Login, SessionPage, Typed
    <2>1. PageHasNoWeb'
      BY <2>0 DEF PageHasNoWeb
    <2>2. ASSUME NEW s \in Requests, req'[s].pc # "free", req'[s].here
          PROVE  page'[req'[s].phone] = "pairing"
      <3>1. /\ page[req[s].phone] = "pairing" /\ req'[s] = req[s]
            /\ req[s].phone # p /\ req[s].pc # "free"
        BY <2>0, <2>2, AwayHere
      <3>2. req[s].phone \in Phones
        BY <3>1, RequestIs, PendingIs
      <3> QED BY <2>0, <3>1, <3>2
    <2> QED BY <2>1, <2>2 DEF HereIsPairing
  <1>8. ASSUME NEW p \in Phones, Browse(p) PROVE HereIsPairing' /\ PageHasNoWeb'
    <2>1. PageHasNoWeb'
      BY <1>8 DEF Browse, PageHasNoWeb, Typed
    <2>2. ASSUME NEW s \in Requests, req'[s].pc # "free", req'[s].here
          PROVE  page'[req'[s].phone] = "pairing"
      <3>1. /\ page[req[s].phone] = "pairing" /\ req'[s] = req[s]
            /\ req[s].phone # p /\ req[s].pc # "free"
        BY <1>8, <2>2, AwayHere DEF Browse
      <3>2. req[s].phone \in Phones
        BY <3>1, RequestIs, PendingIs
      <3> QED BY <1>8, <3>1, <3>2 DEF Browse, Typed
    <2> QED BY <2>1, <2>2 DEF HereIsPairing
  <1>9. ASSUME NEW p \in Phones, Restart(p) PROVE HereIsPairing' /\ PageHasNoWeb'
    <2>1. PageHasNoWeb'
      BY <1>9 DEF Restart, PageHasNoWeb, Typed
    <2>2. ASSUME NEW s \in Requests, req'[s].pc # "free", req'[s].here
          PROVE  page'[req'[s].phone] = "pairing"
      <3>1. /\ InFlight(p) \in SUBSET Requests /\ \A r \in InFlight(p) : req[r].pc # "free"
            /\ Unread(InFlight(p))
        BY <1>9 DEF InFlight, Restart
      <3>2. s \notin InFlight(p) /\ req'[s] = req[s] /\ req[s].pc # "free"
        BY <2>2, <3>1, UnreadIs
      <3>3. req[s].phone \in Phones /\ req[s].phone # p /\ page[req[s].phone] = "pairing"
        BY <2>2, <3>2, RequestIs, PendingIs DEF InFlight, HereIsPairing
      <3> QED BY <1>9, <3>2, <3>3 DEF Restart, Typed
    <2> QED BY <2>1, <2>2 DEF HereIsPairing
  <1>10. ASSUME NEW p \in Phones, NEW r \in Requests, NEW c \in Codes, Pair(p, r, c)
         PROVE  HereIsPairing' /\ PageHasNoWeb'
    <2>1. req'[r].phone = p /\ page[p] = "pairing"
      BY <1>10 DEF Pair, Typed
    <2>2. \A s \in Requests \ {r} : req'[s] = req[s]
      BY <1>10 DEF Pair, Typed
    <2> QED BY <1>10, <2>1, <2>2 DEF Pair, HereIsPairing, PageHasNoWeb
  <1>11. CASE Crash
    BY <1>11, FreeIs DEF Crash, HereIsPairing, PageHasNoWeb
  <1>12. ASSUME NEW p \in Phones, WebOpened(p) \/ WebAdmitted(p) \/ WebRejected(p)
                                  \/ WebClosed(p) \/ WebRetries(p)
         PROVE  HereIsPairing' /\ PageHasNoWeb'
    <2>1. PICK w, from : WebStep(p, from, w) /\ "none" \notin from
      BY <1>12 DEF WebOpened, WebAdmitted, WebRejected, WebClosed, WebRetries
    <2>2. web[p] # NoWeb
      BY <2>1, NoWebIs DEF WebStep
    <2> QED BY <2>1, <2>2 DEF WebStep, HereIsPairing, PageHasNoWeb, Typed
  <1>13. CASE UNCHANGED pairingVars
    BY <1>1, <1>13 DEF pairingVars
  <1> QED BY <1>2, <1>3, <1>4, <1>5, <1>6, <1>7, <1>8, <1>9, <1>10, <1>11, <1>12, <1>13,
             <1>14
          DEF PairingNext

-----------------------------------------------------------------------------
(* The token a login tries is older than the one of the session page that   *)
(* is shown meanwhile, so the hub does not admit it any more.               *)

Issued ==
    \A p \in Phones : /\ row[p].token <= issued /\ saved[p] <= issued
                      /\ probe[p] <= issued

AnswersIssued ==
    \A r \in Requests : req[r].pc # "free" => req[r].token <= issued

Newer(p) == probe[p] # 0 => probe[p] < row[p].token

ProbeIsOlder ==
    /\ \A p \in Phones : /\ page[p] = "session" => Newer(p)
                         /\ page[p] = "home" => probe[p] = 0
    /\ \A r \in Requests : req[r].pc = "answered" /\ req[r].here => Newer(req[r].phone)

ProbeInv == Issued /\ AnswersIssued /\ ProbeIsOlder

\* No token is made or read, and a page that is shown anew is no session page,
\* or there is no login, or it has just begun.
LEMMA ProbeKept ==
    ASSUME Typed, ProbeInv, issued' = issued,
           \A p \in Phones :
              /\ row'[p].token = row[p].token /\ saved'[p] \in {saved[p], 0}
              /\ \/ /\ probe'[p] \in {probe[p], 0}
                    /\ page'[p] \in {page[p], "finder", "pairing"} \/ probe'[p] = 0
                 \/ /\ probe'[p] = saved[p] /\ page'[p] = "finder"
                    /\ \A r \in Requests : req'[r].pc = "answered" /\ req'[r].here => req'[r].phone # p,
           \A r \in Requests :
              /\ req'[r].pc # "free" => \/ req'[r].token = 0
                                        \/ req[r].pc # "free" /\ req'[r].token = req[r].token
              /\ req'[r].pc = "answered" /\ req'[r].here =>
                     req[r].pc = "answered" /\ req[r].here /\ req'[r].phone = req[r].phone
    PROVE  ProbeInv'
  <1>1. \A x \in Nat : 0 <= x
    OBVIOUS
  <1>2. Issued'
    BY <1>1 DEF ProbeInv, Issued, Typed
  <1>3. AnswersIssued'
    BY <1>1 DEF ProbeInv, AnswersIssued, Typed
  <1>4. ASSUME NEW p \in Phones
        PROVE  /\ page'[p] = "session" => Newer(p)'
               /\ page'[p] = "home" => probe'[p] = 0
    BY DEF ProbeInv, ProbeIsOlder, Newer
  <1>5. ASSUME NEW r \in Requests, req'[r].pc = "answered", req'[r].here
        PROVE  probe'[req'[r].phone] # 0 => probe'[req'[r].phone] < row'[req'[r].phone].token
    <2>1. /\ req[r].pc = "answered" /\ req[r].here /\ req'[r].phone = req[r].phone
          /\ req[r].phone \in Phones
      BY <1>5, RequestIs, PendingIs
    <2>2. Newer(req[r].phone)
      BY <2>1 DEF ProbeInv, ProbeIsOlder
    <2>3. probe'[req[r].phone] \in {probe[req[r].phone], 0}
      BY <1>5, <2>1
    <2> QED BY <2>1, <2>2, <2>3 DEF Newer
  <1> QED BY <1>2, <1>3, <1>4, <1>5 DEF ProbeInv, ProbeIsOlder, Newer

LEMMA ProbeSave ==
    ASSUME Typed, ProbeInv, NEW r \in Requests, Save(r)
    PROVE  ProbeInv'
  <1> DEFINE p == req[r].phone
  <1>1. req[r] \in Pending /\ p \in Phones /\ issued \in Nat
    BY RequestIs, PendingIs DEF Save, Typed
  <1>2. /\ issued' = issued + 1 /\ row'[p].token = issued + 1
        /\ \A q \in Phones \ {p} : row'[q] = row[q]
        /\ \A s \in Requests \ {r} : req'[s] = req[s]
        /\ UNCHANGED <<saved, probe, page>>
    BY <1>1 DEF Save, Typed
  <1>3. \/ req'[r].pc = "free"
        \/ req'[r].token = issued + 1 /\ req'[r].phone = p
    <2>1. \/ req'[r] = NoRequest
          \/ req'[r] = [req[r] EXCEPT !.pc = "answered", !.token = issued + 1]
      BY DEF Save, Typed
    <2> QED BY <1>1, <2>1, FreeIs DEF Pending
  <1>4. /\ \A q \in Phones : /\ row[q].token \in Nat /\ saved[q] \in Nat /\ probe[q] \in Nat
                              /\ row[q].token <= issued /\ saved[q] <= issued /\ probe[q] <= issued
        /\ \A s \in Requests : req[s].pc # "free" =>
                 req[s].phone \in Phones /\ req[s].token \in Nat /\ req[s].token <= issued
    BY RequestIs, PendingIs DEF Typed, ProbeInv, Issued, AnswersIssued
  <1> HIDE DEF p
  <1>5. \A x \in Nat : x <= issued => x <= issued + 1 /\ x < issued + 1
    BY <1>1
  <1>6. issued + 1 <= issued + 1
    BY <1>1
  <1>7. Issued'
    BY <1>1, <1>2, <1>4, <1>5, <1>6 DEF Issued
  <1>8. AnswersIssued'
    BY <1>2, <1>3, <1>4, <1>5, <1>6 DEF AnswersIssued
  <1>9. ASSUME NEW q \in Phones, q = p \/ Newer(q) PROVE Newer(q)'
    BY <1>1, <1>2, <1>4, <1>5, <1>9 DEF Newer
  <1>10. ASSUME NEW q \in Phones
         PROVE  /\ page'[q] = "session" => Newer(q)'
                /\ page'[q] = "home" => probe'[q] = 0
    BY <1>2, <1>9 DEF ProbeInv, ProbeIsOlder
  <1>11. ASSUME NEW s \in Requests, req'[s].pc = "answered", req'[s].here
         PROVE  probe'[req'[s].phone] # 0 => probe'[req'[s].phone] < row'[req'[s].phone].token
    <2>1. CASE s = r
      <3>1. ASSUME NEW q \in Phones, q = p
            PROVE  probe'[q] # 0 => probe'[q] < row'[q].token
        BY <1>9, <3>1 DEF Newer
      <3>2. req'[s].phone = p
        BY <1>3, <1>11, <2>1
      <3> QED BY <1>1, <3>1, <3>2
    <2>2. CASE s # r
      <3>1. req'[s] = req[s] /\ req[s].phone \in Phones /\ Newer(req[s].phone)
        BY <1>2, <1>4, <1>11, <2>2 DEF ProbeInv, ProbeIsOlder
      <3>2. ASSUME NEW q \in Phones, Newer(q)
            PROVE  probe'[q] # 0 => probe'[q] < row'[q].token
        BY <1>9, <3>2 DEF Newer
      <3> QED BY <3>1, <3>2
    <2> QED BY <2>1, <2>2
  <1> QED BY <1>7, <1>8, <1>10, <1>11 DEF ProbeInv, ProbeIsOlder, Newer

LEMMA ProbePaired ==
    ASSUME Typed, ProbeInv, NEW r \in Requests, Paired(r)
    PROVE  ProbeInv'
  <1> DEFINE p == req[r].phone
  <1>1. req[r] \in Pending /\ p \in Phones /\ req[r].token <= issued
    BY RequestIs, PendingIs DEF Paired, ProbeInv, AnswersIssued
  <1>2. /\ saved'[p] = req[r].token /\ \A q \in Phones \ {p} : saved'[q] = saved[q]
        /\ UNCHANGED <<row, issued, probe>>
    BY <1>1 DEF Paired, Typed, hub
  <1>3. ASSUME NEW q \in Phones
        PROVE  page'[q] = page[q] \/ (page'[q] = "session" /\ Newer(q))
    BY <1>1 DEF Paired, SessionPage, Typed, ProbeInv, ProbeIsOlder
  <1>4. ASSUME NEW s \in Requests, req'[s].pc # "free"
        PROVE  /\ req[s].pc # "free" /\ req'[s].token = req[s].token
               /\ req'[s].pc = req[s].pc /\ req'[s].phone = req[s].phone
               /\ (req'[s].here => req[s].here)
    <2>1. s # r
      <3>1. req'[r] = NoRequest
        <4>1. Away(req[r].phone) \in [Requests -> {NoRequest} \cup Pending]
          BY AwayType
        <4> QED BY <4>1 DEF Paired, Typed
      <3> QED BY <1>4, <3>1, FreeIs
    <2>2. req'[s] = req[s] \/ (req'[s] = [req[s] EXCEPT !.here = FALSE] /\ req[s].pc # "free")
      <3>1. req'[s] = req[s] \/ req'[s] = Away(req[r].phone)[s]
        <4>1. Away(req[r].phone) \in [Requests -> {NoRequest} \cup Pending]
          BY AwayType
        <4> QED BY <2>1, <4>1 DEF Paired, Typed
      <3> QED BY <3>1 DEF Away, InFlight
    <2>3. CASE req'[s] = [req[s] EXCEPT !.here = FALSE] /\ req[s].pc # "free"
      <3>1. req[s] \in Pending
        BY <2>3, RequestIs
      <3> HIDE DEF p
      <3> QED BY <2>3, <3>1, AwayIs
    <2> QED BY <1>4, <2>2, <2>3
  <1> HIDE DEF p
  <1>5. Issued'
    BY <1>1, <1>2 DEF ProbeInv, Issued
  <1>6. AnswersIssued'
    BY <1>2, <1>4 DEF ProbeInv, AnswersIssued
  <1>7. \A q : Newer(q)' <=> Newer(q)
    BY <1>2 DEF Newer
  <1> QED BY <1>2, <1>3, <1>4, <1>5, <1>6, <1>7 DEF ProbeInv, ProbeIsOlder

LEMMA ProbeStep == Typed /\ ProbeInv /\ [PairingNext]_pairingVars => ProbeInv'
  <1> SUFFICES ASSUME Typed, ProbeInv, [PairingNext]_pairingVars PROVE ProbeInv'
    OBVIOUS
  <1> USE DEF hub
  <1>0. ASSUME UNCHANGED <<req, row, saved, probe, page, issued>> PROVE ProbeInv'
    BY <1>0, ProbeKept
  <1>1. ASSUME NEW c \in Codes, Start(c) \/ Expire(c) PROVE ProbeInv'
    BY <1>0, <1>1 DEF Start, Expire
  <1>2. ASSUME NEW r \in Requests, Lookup(r) \/ Consume(r) \/ PairRefused(r) PROVE ProbeInv'
    <2>1. req[r] \in Pending
      BY <1>2, RequestIs DEF Lookup, Consume, PairRefused
    <2>2. \/ req'[r] = NoRequest
          \/ \E pc \in {"looked", "refused", "consumed"} : req'[r] = [req[r] EXCEPT !.pc = pc]
      BY <1>2 DEF Lookup, Consume, PairRefused, Typed
    <2>3. ASSUME NEW pc \in {"looked", "refused", "consumed"}, req'[r] = [req[r] EXCEPT !.pc = pc]
          PROVE  req'[r].pc # "answered" /\ req'[r].token = req[r].token
      BY <2>1, <2>3, MovedIs
    <2>4. req'[r].pc = "free" \/ (req'[r].pc # "answered" /\ req'[r].token = req[r].token)
      BY <2>2, <2>3, FreeIs
    <2>5. /\ \A s \in Requests \ {r} : req'[s] = req[s]
          /\ UNCHANGED <<row, saved, probe, page, issued>>
      BY <1>2 DEF Lookup, Consume, PairRefused, Typed
    <2> QED BY <2>1, <2>4, <2>5, ProbeKept, PendingIs
  <1>3. ASSUME NEW r \in Requests, Save(r) PROVE ProbeInv'
    BY <1>3, ProbeSave
  <1>4. ASSUME NEW r \in Requests, Paired(r) PROVE ProbeInv'
    BY <1>4, ProbePaired
  <1>5. ASSUME NEW rs \in SUBSET Requests, \A s \in rs : req[s].pc # "free", Unread(rs),
               NEW s \in Requests
        PROVE  /\ req'[s].pc # "free" => req[s].pc # "free" /\ req'[s].token = req[s].token
               /\ req'[s].pc = "answered" /\ req'[s].here => req'[s] = req[s] /\ s \notin rs
    BY <1>5, UnreadIs
  <1>6. ASSUME NEW r \in Requests, Lose(r) PROVE ProbeInv'
    <2>1. {r} \in SUBSET Requests /\ (\A s \in {r} : req[s].pc # "free") /\ Unread({r})
          /\ UNCHANGED <<row, saved, probe, page, issued>>
      BY <1>6 DEF Lose
    <2> QED BY <1>5, <2>1, ProbeKept
  <1>7. ASSUME NEW p \in Phones, Restart(p) PROVE ProbeInv'
    <2>1. /\ InFlight(p) \in SUBSET Requests /\ \A s \in InFlight(p) : req[s].pc # "free"
          /\ Unread(InFlight(p)) /\ UNCHANGED <<row, saved, issued>>
          /\ probe'[p] = saved[p] /\ page'[p] = "finder"
          /\ \A q \in Phones \ {p} : probe'[q] = probe[q] /\ page'[q] = page[q]
      BY <1>7 DEF InFlight, Restart, Typed
    <2>2. \A s \in Requests : req'[s].pc = "answered" /\ req'[s].here => req'[s].phone # p
      BY <1>5, <2>1 DEF InFlight
    <2> QED BY <1>5, <2>1, <2>2, ProbeKept
  <1>8. ASSUME NEW p \in Phones, Revoke(p) PROVE ProbeInv'
    <2>1. row[p] \in [token : Nat, revoked : BOOLEAN]
      BY DEF Typed
    <2>2. [row[p] EXCEPT !.revoked = TRUE].token = row[p].token
      BY <2>1
    <2>3. row' = [row EXCEPT ![p] = [row[p] EXCEPT !.revoked = TRUE]]
      BY <1>8 DEF Revoke
    <2>4. \A q \in Phones : row'[q].token = row[q].token
      BY <2>2, <2>3 DEF Typed
    <2>5. UNCHANGED <<req, saved, probe, page, issued>>
      BY <1>8 DEF Revoke
    <2> QED BY <2>4, <2>5, ProbeKept
  <1>9. ASSUME NEW p \in Phones, LoginRefused(p) \/ LoginOffline(p) PROVE ProbeInv'
    <2>1. /\ UNCHANGED <<req, row, page, issued>>
          /\ \A q \in Phones : saved'[q] \in {saved[q], 0} /\ probe'[q] \in {probe[q], 0}
      BY <1>9 DEF LoginRefused, LoginOffline, Typed
    <2> QED BY <2>1, ProbeKept
  <1>10. ASSUME NEW p \in Phones, NEW s \in Requests, req' = Away(p)
         PROVE  /\ req'[s].pc = req[s].pc
                /\ req[s].pc # "free" => /\ req'[s].phone = req[s].phone
                                         /\ req'[s].token = req[s].token
                                         /\ (req'[s].here => req[s].here)
    <2>1. req'[s] = req[s] \/ (req'[s] = [req[s] EXCEPT !.here = FALSE] /\ req[s].pc # "free")
      BY <1>10 DEF Away, InFlight
    <2> QED BY <2>1, RequestIs, AwayIs
  <1>11. ASSUME NEW p \in Phones, Login(p) PROVE ProbeInv'
    <2>1. /\ UNCHANGED <<row, saved, issued>> /\ req' = Away(p) /\ probe'[p] = 0
          /\ \A q \in Phones \ {p} : probe'[q] = probe[q] /\ page'[q] = page[q]
      BY <1>11 DEF Login, SessionPage, Typed
    <2> QED BY <1>10, <2>1, ProbeKept
  <1>12. ASSUME NEW p \in Phones, Browse(p) PROVE ProbeInv'
    <2>1. /\ UNCHANGED <<row, saved, probe, issued>> /\ req' = Away(p)
          /\ \A q \in Phones : page'[q] \in {page[q], "finder", "pairing"}
      BY <1>12 DEF Browse, Typed
    <2> QED BY <1>10, <2>1, ProbeKept
  <1>13. ASSUME NEW p \in Phones, NEW r \in Requests, NEW c \in Codes, Pair(p, r, c)
         PROVE  ProbeInv'
    <2>1. /\ req'[r].pc = "posted" /\ req'[r].token = 0
          /\ \A s \in Requests \ {r} : req'[s] = req[s]
          /\ UNCHANGED <<row, saved, probe, page, issued>>
      BY <1>13 DEF Pair, Typed
    <2> QED BY <2>1, ProbeKept
  <1>14. CASE Crash
    <2>1. (\A r \in Requests : req'[r].pc = "free") /\ UNCHANGED <<row, saved, probe, page, issued>>
      BY <1>14, FreeIs DEF Crash
    <2> QED BY <2>1, ProbeKept
  <1>15. ASSUME NEW p \in Phones, WebOpened(p) \/ WebAdmitted(p) \/ WebRejected(p)
                                  \/ WebClosed(p) \/ WebRetries(p)
         PROVE  ProbeInv'
    BY <1>0, <1>15 DEF WebStep, WebOpened, WebAdmitted, WebRejected, WebClosed, WebRetries
  <1>16. CASE UNCHANGED pairingVars
    BY <1>0, <1>16 DEF pairingVars
  <1> QED BY <1>1, <1>2, <1>3, <1>4, <1>6, <1>7, <1>8, <1>9, <1>11, <1>12, <1>13, <1>14,
             <1>15, <1>16 DEF PairingNext

-----------------------------------------------------------------------------
(* Refusals *)

LEMMA RejectedStep ==
    ASSUME Typed, HereIsPairing, PageHasNoWeb, ProbeInv, [PairingNext]_pairingVars,
           NEW p \in Phones, web[p].state = "unauthorized"
    PROVE  web'[p].state \in {"unauthorized", "none"}
  <1> USE DEF hub
  <1>0. web[p] \in Web /\ web[p] # NoWeb /\ page[p] \notin {"finder", "pairing"}
    BY NoWebIs DEF Typed, PageHasNoWeb
  <1>1. CASE web'[p] = web[p]
    BY <1>1
  <1>2. ASSUME NEW q \in Phones, Login(q) PROVE web'[p] = web[p]
    <2>1. probe[q] # 0 /\ row[q].token = probe[q] /\ probe[q] \in Nat
      BY <1>2 DEF Login, Authorized, Typed
    <2>2. \A x \in Nat : ~(x < x)
      OBVIOUS
    <2>3. q # p
      BY <1>0, <2>1, <2>2 DEF ProbeInv, ProbeIsOlder, Newer, Typed
    <2> QED BY <1>2, <2>3 DEF Login, SessionPage, Typed
  <1>3. ASSUME NEW r \in Requests, Paired(r) PROVE web'[p] = web[p]
    <2>1. req[r].here => req[r].phone # p
      BY <1>0, <1>3 DEF Paired, HereIsPairing
    <2> QED BY <1>3, <2>1 DEF Paired, SessionPage, Typed
  <1>4. ASSUME NEW q \in Phones, Browse(q) \/ Restart(q)
        PROVE  web'[p] = web[p] \/ web'[p].state = "none"
    BY <1>4, NoWebIs DEF Browse, Restart, Typed
  <1>5. ASSUME NEW q \in Phones, WebOpened(q) \/ WebAdmitted(q) \/ WebRejected(q)
                                  \/ WebClosed(q) \/ WebRetries(q)
        PROVE  web'[p].state = "unauthorized"
    <2>1. CASE q # p
      BY <1>5, <2>1 DEF WebStep, WebOpened, WebAdmitted, WebRejected, WebClosed, WebRetries, Typed
    <2>2. CASE q = p
      <3>1. web' = [web EXCEPT ![p] = [web[p] EXCEPT !.closing = FALSE]]
        BY <1>5, <2>2 DEF WebStep, WebOpened, WebAdmitted, WebRejected, WebClosed, WebRetries
      <3>2. [web[p] EXCEPT !.closing = FALSE].state = "unauthorized"
        BY <1>0, WebIs
      <3> QED BY <3>1, <3>2 DEF Typed
    <2> QED BY <2>1, <2>2
  <1>6. CASE \/ \E c \in Codes : Start(c) \/ Expire(c)
             \/ \E r \in Requests : \/ Lookup(r) \/ Consume(r) \/ Save(r)
                                    \/ PairRefused(r) \/ Lose(r)
    BY <1>1, <1>6 DEF Start, Expire, Lookup, Consume, Save, PairRefused, Lose
  <1>7. CASE \/ \E q \in Phones : \/ Revoke(q) \/ LoginRefused(q)
                                  \/ LoginOffline(q) \/ \E r \in Requests, c \in Codes : Pair(q, r, c)
             \/ Crash
             \/ UNCHANGED pairingVars
    BY <1>1, <1>7 DEF Revoke, LoginRefused, LoginOffline, Pair, Crash, pairingVars
  <1> QED BY <1>1, <1>2, <1>3, <1>4, <1>5, <1>6, <1>7 DEF PairingNext

LEMMA HereInit == PairingInit => HereIsPairing /\ PageHasNoWeb /\ ProbeInv
  BY FreeIs DEF PairingInit, HereIsPairing, PageHasNoWeb, ProbeInv, Issued, AnswersIssued,
                ProbeIsOlder

LEMMA PairingHereHolds ==
    PairingSpec => [](PairingTypeOK /\ HereIsPairing /\ PageHasNoWeb /\ ProbeInv)
  <1>1. PairingTypeOK /\ HereIsPairing /\ PageHasNoWeb /\ ProbeInv /\ [PairingNext]_pairingVars
        => PairingTypeOK' /\ HereIsPairing' /\ PageHasNoWeb' /\ ProbeInv'
    BY PairingTypeStep, HereStep, ProbeStep, TypedIs
  <1> QED BY <1>1, PairingTypeInit, HereInit, PTL DEF PairingSpec

\* A refused session page does not try again, whatever closes, answers and
\* logins come in between.
THEOREM RefusedTriesNoMore == PairingSpec => RejectedStaysAway
  <1> DEFINE Stays == \A p \in Phones : web[p].state = "unauthorized" =>
                          web'[p].state \in {"unauthorized", "none"}
  <1>1. PairingTypeOK /\ HereIsPairing /\ PageHasNoWeb /\ ProbeInv /\ [PairingNext]_pairingVars
            => [Stays]_pairingVars
    <2> SUFFICES ASSUME PairingTypeOK, HereIsPairing, PageHasNoWeb, ProbeInv,
                        [PairingNext]_pairingVars,
                        NEW p \in Phones, web[p].state = "unauthorized"
                 PROVE  web'[p].state \in {"unauthorized", "none"}
      OBVIOUS
    <2> QED BY RejectedStep, TypedIs
  <1> QED BY <1>1, PairingHereHolds, PTL DEF PairingSpec, RejectedStaysAway

-----------------------------------------------------------------------------
(* The answer a phone waits for, when none was lost and no other is under   *)
(* way, carries the token of its row.                                       *)

AnsweredIsRow ==
    \A r \in Requests : req[r].pc = "answered" /\ req[r].phone \notin torn =>
        req[r].token = row[req[r].phone].token

TokenInv == TokenCurrent /\ AnsweredIsRow

\* Requests, answers, rows and saved tokens stay as they are.
LEMMA TokenKept ==
    ASSUME Typed, TokenInv, UNCHANGED <<saved, torn>>,
           \A p \in Phones : row'[p].token = row[p].token,
           \A r \in Requests :
              /\ req'[r].pc = "answered" <=> req[r].pc = "answered"
              /\ req[r].pc = "answered" =>
                     req'[r].phone = req[r].phone /\ req'[r].token = req[r].token
    PROVE  TokenInv'
  <1>1. \A r \in Requests : req[r].pc = "answered" => req[r].phone \in Phones
    BY RequestIs, PendingIs
  <1>2. AnsweredIsRow'
    BY <1>1 DEF TokenInv, AnsweredIsRow
  <1>3. TokenCurrent'
    BY DEF TokenInv, TokenCurrent, InFlight
  <1> QED BY <1>2, <1>3 DEF TokenInv

\* The answers among these requests are not read.
LEMMA TokenUnread ==
    ASSUME Typed, TokenInv, UNCHANGED <<saved, row>>,
           NEW rs \in SUBSET Requests, \A s \in rs : req[s].pc # "free", Unread(rs)
    PROVE  TokenInv'
  <1>1. \A r \in Requests : req[r].pc = "answered" => req[r].phone \in Phones
    BY RequestIs, PendingIs
  <1>2. \A r \in Requests : req'[r].pc = "answered" => req'[r] = req[r]
    BY UnreadIs
  <1>3. \A r \in Requests : req[r].pc = "answered" => req'[r] = req[r] \/ req[r].phone \in torn'
    <2>1. \A r \in Requests \ rs : req'[r] = req[r]
      BY DEF Unread
    <2>2. \A r \in rs : req[r].pc = "answered" => req[r].phone \in torn'
      BY DEF Unread
    <2> QED BY <2>1, <2>2
  <1>4. torn \subseteq torn'
    BY DEF Unread
  <1>5. AnsweredIsRow'
    BY <1>2, <1>4 DEF TokenInv, AnsweredIsRow
  <1>6. TokenCurrent'
    BY <1>3, <1>4 DEF TokenInv, TokenCurrent, InFlight
  <1> QED BY <1>5, <1>6 DEF TokenInv

LEMMA TokenStep ==
    Typed /\ TokenInv /\ [PairingNext]_pairingVars => TokenInv'
  <1> SUFFICES ASSUME Typed, TokenInv, [PairingNext]_pairingVars PROVE TokenInv'
    OBVIOUS
  <1> USE DEF hub
  <1>0. ASSUME UNCHANGED <<saved, torn, row, req>> PROVE TokenInv'
    BY <1>0, TokenKept
  <1>1. ASSUME NEW c \in Codes, Start(c) \/ Expire(c) PROVE TokenInv'
    BY <1>0, <1>1 DEF Start, Expire
  <1>2. ASSUME NEW r \in Requests, Lookup(r) \/ Consume(r) \/ PairRefused(r) PROVE TokenInv'
    <2>1. req[r] \in Pending /\ req[r].pc # "answered"
      BY <1>2, RequestIs DEF Lookup, Consume, PairRefused
    <2>2. \/ req'[r] = NoRequest
          \/ \E pc \in {"looked", "refused", "consumed"} : req'[r] = [req[r] EXCEPT !.pc = pc]
      BY <1>2 DEF Lookup, Consume, PairRefused, Typed
    <2>3. ASSUME NEW pc \in {"looked", "refused", "consumed"}, req'[r] = [req[r] EXCEPT !.pc = pc]
          PROVE  req'[r].pc # "answered"
      BY <2>1, <2>3, MovedIs
    <2>4. req'[r].pc # "answered"
      BY <2>2, <2>3, FreeIs
    <2>5. \A s \in Requests \ {r} : req'[s] = req[s]
      BY <1>2 DEF Lookup, Consume, PairRefused, Typed
    <2>6. UNCHANGED <<saved, torn, row>>
      BY <1>2 DEF Lookup, Consume, PairRefused
    <2> QED BY <2>1, <2>4, <2>5, <2>6, TokenKept
  <1>3. ASSUME NEW r \in Requests, Save(r) PROVE TokenInv'
    <2> DEFINE p == req[r].phone
    <2>1. req[r] \in Pending /\ p \in Phones /\ issued + 1 \in Nat /\ req[r].pc = "consumed"
      BY <1>3, RequestIs, PendingIs DEF Save, Typed
    <2>2. /\ \A s \in Requests \ {r} : req'[s] = req[s]
          /\ saved' = saved /\ torn \subseteq torn'
          /\ \A q \in Phones \ {p} : row'[q] = row[q]
          /\ row'[p].token = issued + 1
      BY <1>3, <2>1 DEF Save, Typed
    <2>3. /\ (req[r].lost => p \in torn' /\ req'[r].pc = "free")
          /\ (\A s \in Requests : req[s].pc = "answered" /\ req[s].phone = p => p \in torn')
      BY <1>3, FreeIs DEF Save, InFlight, Typed
    <2>4. ~req[r].lost =>
             req'[r].pc = "answered" /\ req'[r].phone = p /\ req'[r].token = issued + 1
      <3>1. ~req[r].lost => req'[r] = [req[r] EXCEPT !.pc = "answered", !.token = issued + 1]
        BY <1>3 DEF Save, Typed
      <3> QED BY <2>1, <3>1 DEF Pending
    <2> HIDE DEF p
    <2>5. AnsweredIsRow'
      <3> SUFFICES ASSUME NEW s \in Requests, req'[s].pc = "answered", req'[s].phone \notin torn'
                   PROVE  req'[s].token = row'[req'[s].phone].token
        BY DEF AnsweredIsRow
      <3>1. CASE s = r
        BY <2>2, <2>3, <2>4, <3>1
      <3>2. CASE s # r
        <4>1. req'[s] = req[s] /\ req[s].phone # p /\ req[s].phone \in Phones
          BY <2>2, <2>3, <3>2, RequestIs, PendingIs
        <4> QED BY <2>2, <4>1 DEF TokenInv, AnsweredIsRow
      <3> QED BY <3>1, <3>2
    <2>6. TokenCurrent'
      <3> SUFFICES ASSUME NEW q \in Phones
                   PROVE  \/ saved'[q] \in {0, row'[q].token}
                          \/ q \in torn'
                          \/ \E s \in InFlight(q)' : req'[s].pc = "answered"
        BY DEF TokenCurrent
      <3>1. CASE q = p
        BY <2>3, <2>4, <3>1 DEF InFlight
      <3>2. CASE q # p
        <4>1. row'[q] = row[q] /\ \A s \in InFlight(q) : s # r /\ req'[s] = req[s]
          BY <2>2, <3>2 DEF InFlight, p
        <4> QED BY <2>2, <4>1 DEF TokenInv, TokenCurrent, InFlight
      <3> QED BY <3>1, <3>2
    <2> QED BY <2>5, <2>6 DEF TokenInv
  <1>4. ASSUME NEW r \in Requests, Paired(r) PROVE TokenInv'
    <2> DEFINE p == req[r].phone
    <2>1. req[r] \in Pending /\ p \in Phones /\ req[r].token \in Nat
      BY <1>4, RequestIs, PendingIs DEF Paired
    <2>2. /\ saved'[p] = req[r].token /\ req'[r].pc = "free" /\ row' = row
          /\ \A q \in Phones \ {p} : saved'[q] = saved[q] /\ (q \in torn' <=> q \in torn)
          /\ (p \in torn' => p \in torn)
      BY <1>4, <2>1, FreeIs DEF Paired, Away, Typed
    <2>3. \/ p \in torn /\ p \notin torn' /\ row[p].token = req[r].token /\ InFlight(p) = {r}
          \/ torn' = torn
      BY <1>4 DEF Paired
    <2>4. ASSUME NEW s \in Requests, s # r
          PROVE  /\ req'[s].pc = req[s].pc
                 /\ (req[s].pc # "free" => req'[s].phone = req[s].phone /\ req'[s].token = req[s].token)
      <3>1. req'[s] = req[s] \/ (req'[s] = [req[s] EXCEPT !.here = FALSE] /\ req[s].pc # "free")
        <4>1. req'[s] = req[s] \/ req'[s] = Away(req[r].phone)[s]
          <5>1. Away(req[r].phone) \in [Requests -> {NoRequest} \cup Pending]
            BY AwayType
          <5> QED BY <1>4, <2>4, <5>1 DEF Paired, Typed
        <4> QED BY <4>1 DEF Away, InFlight
      <3> QED BY <3>1, RequestIs, AwayIs
    <2> HIDE DEF p
    <2>5. AnsweredIsRow'
      <3> SUFFICES ASSUME NEW s \in Requests, req'[s].pc = "answered", req'[s].phone \notin torn'
                   PROVE  req'[s].token = row'[req'[s].phone].token
        BY DEF AnsweredIsRow
      <3>1. s # r /\ req[s].pc = "answered" /\ req'[s].phone = req[s].phone
            /\ req'[s].token = req[s].token /\ req[s].phone \in Phones
        BY <2>2, <2>4, RequestIs, PendingIs
      <3>2. req[s].phone \notin torn
        BY <2>2, <2>3, <3>1 DEF InFlight
      <3> QED BY <2>2, <3>1, <3>2 DEF TokenInv, AnsweredIsRow
    <2>6. TokenCurrent'
      <3> SUFFICES ASSUME NEW q \in Phones
                   PROVE  \/ saved'[q] \in {0, row'[q].token}
                          \/ q \in torn'
                          \/ \E s \in InFlight(q)' : req'[s].pc = "answered"
        BY DEF TokenCurrent
      <3>1. CASE q = p
        <4>1. p \in torn' \/ req[r].token = row[p].token
          BY <1>4, <2>3 DEF Paired, TokenInv, AnsweredIsRow, p
        <4> QED BY <2>2, <3>1, <4>1
      <3>2. CASE q # p
        <4>1. \A s \in InFlight(q) : s # r
          BY <3>2 DEF InFlight, p
        <4>2. \A s \in InFlight(q) : req[s].pc = "answered" =>
                  s \in InFlight(q)' /\ req'[s].pc = "answered"
          BY <2>4, <4>1 DEF InFlight
        <4> QED BY <2>2, <3>2, <4>2 DEF TokenInv, TokenCurrent
      <3> QED BY <3>1, <3>2
    <2> QED BY <2>5, <2>6 DEF TokenInv
  <1>5. ASSUME NEW r \in Requests, Lose(r) PROVE TokenInv'
    <2>1. {r} \in SUBSET Requests /\ (\A s \in {r} : req[s].pc # "free") /\ Unread({r})
      BY <1>5 DEF Lose
    <2> QED BY <1>5, <2>1, TokenUnread DEF Lose
  <1>6. ASSUME NEW p \in Phones, Revoke(p) PROVE TokenInv'
    <2>1. row[p] \in [token : Nat, revoked : BOOLEAN]
      BY DEF Typed
    <2>2. [row[p] EXCEPT !.revoked = TRUE].token = row[p].token
      BY <2>1
    <2>3. row' = [row EXCEPT ![p] = [row[p] EXCEPT !.revoked = TRUE]]
      BY <1>6 DEF Revoke
    <2>4. \A q \in Phones : row'[q].token = row[q].token
      BY <2>2, <2>3 DEF Typed
    <2> QED BY <1>6, <2>4, TokenKept DEF Revoke
  <1>7. ASSUME NEW p \in Phones, LoginOffline(p) PROVE TokenInv'
    BY <1>0, <1>7 DEF LoginOffline
  <1>8. ASSUME NEW p \in Phones, LoginRefused(p) PROVE TokenInv'
    <2>1. /\ saved'[p] = 0 /\ \A q \in Phones \ {p} : saved'[q] = saved[q]
          /\ UNCHANGED <<req, row, torn>>
      BY <1>8 DEF LoginRefused, Typed
    <2> QED BY <2>1 DEF TokenInv, TokenCurrent, AnsweredIsRow, InFlight
  <1>9. ASSUME NEW p \in Phones, Browse(p) \/ Login(p) PROVE TokenInv'
    <2>1. ASSUME NEW s \in Requests
          PROVE  /\ req'[s].pc = req[s].pc
                 /\ (req[s].pc # "free" => req'[s].phone = req[s].phone /\ req'[s].token = req[s].token)
      <3>1. req'[s] = req[s] \/ (req'[s] = [req[s] EXCEPT !.here = FALSE] /\ req[s].pc # "free")
        BY <1>9 DEF Browse, Login, Away, InFlight
      <3> QED BY <3>1, RequestIs, AwayIs
    <2>2. UNCHANGED <<saved, torn, row>>
      BY <1>9 DEF Browse, Login
    <2> QED BY <2>1, <2>2, TokenKept
  <1>10. ASSUME NEW p \in Phones, Restart(p) PROVE TokenInv'
    <2>1. /\ InFlight(p) \in SUBSET Requests /\ \A s \in InFlight(p) : req[s].pc # "free"
          /\ Unread(InFlight(p))
      BY <1>10 DEF InFlight, Restart
    <2> QED BY <1>10, <2>1, TokenUnread DEF Restart
  <1>11. ASSUME NEW p \in Phones, NEW r \in Requests, NEW c \in Codes, Pair(p, r, c)
         PROVE  TokenInv'
    <2>1. /\ req'[r].pc = "posted" /\ req[r].pc = "free"
          /\ \A s \in Requests \ {r} : req'[s] = req[s]
          /\ UNCHANGED <<saved, torn, row>>
      BY <1>11 DEF Pair, Typed
    <2> QED BY <2>1, TokenKept
  <1>12. CASE Crash
    <2>1. /\ \A r \in Requests : req'[r].pc = "free"
          /\ torn \subseteq torn' /\ UNCHANGED <<saved, row>>
      BY <1>12, FreeIs DEF Crash
    <2>2. \A r \in Requests : req[r].pc = "answered" => req[r].phone \in torn'
      BY <1>12 DEF Crash
    <2>3. AnsweredIsRow'
      BY <2>1 DEF AnsweredIsRow
    <2>4. TokenCurrent'
      BY <2>1, <2>2 DEF TokenInv, TokenCurrent, InFlight
    <2> QED BY <2>3, <2>4 DEF TokenInv
  <1>13. ASSUME NEW p \in Phones, WebOpened(p) \/ WebAdmitted(p) \/ WebRejected(p)
                                  \/ WebClosed(p) \/ WebRetries(p)
         PROVE  TokenInv'
    BY <1>0, <1>13 DEF WebStep, WebOpened, WebAdmitted, WebRejected, WebClosed, WebRetries
  <1>14. CASE UNCHANGED pairingVars
    BY <1>0, <1>14 DEF pairingVars
  <1> QED BY <1>1, <1>2, <1>3, <1>4, <1>5, <1>6, <1>7, <1>8, <1>9, <1>10, <1>11, <1>12,
             <1>13, <1>14 DEF PairingNext

\* The token a phone keeps is the one of its row, whatever is lost, restarted
\* and revoked, unless the phone lost an answer or has one under way.
THEOREM SavedTokenIsCurrent == PairingSpec => []TokenCurrent
  <1>1. PairingInit => TokenInv
    BY FreeIs DEF PairingInit, TokenInv, TokenCurrent, AnsweredIsRow
  <1>2. PairingTypeOK /\ TokenInv /\ [PairingNext]_pairingVars => TokenInv'
    BY TokenStep, TypedIs
  <1>3. TokenInv => TokenCurrent
    BY DEF TokenInv
  <1> QED BY <1>1, <1>2, <1>3, PairingTypeInit, PairingTypeStep, PTL DEF PairingSpec

-----------------------------------------------------------------------------
(* Codes: each token made, each code consumed but not used and each code that *)
(* can still be consumed was paid for by a start, or by a second consumption. *)

CodeKnown ==
    \A r \in Requests : req[r].pc \in {"looked", "consumed", "answered"} =>
        challenge[req[r].code] # "none"

Consumed == {r \in Requests : req[r].pc = "consumed"}

Open == {c \in Codes : challenge[c] \in {"live", "expired"}}

CodeInv ==
    /\ CodeKnown
    /\ issued + Cardinality(Consumed) + Cardinality(Open) <= started + doubled

LEMMA OneMore ==
    ASSUME NEW S, IsFiniteSet(S), NEW x
    PROVE  Cardinality(S \cup {x}) <= Cardinality(S) + 1
  <1>1. Cardinality(S) \in Nat
    BY FS_CardinalityType
  <1>2. CASE x \in S
    <2>1. S \cup {x} = S
      BY <1>2
    <2> QED BY <1>1, <2>1
  <1>3. CASE x \notin S
    <2>1. Cardinality(S \cup {x}) = Cardinality(S) + 1
      BY <1>3, FS_AddElement, Zenon
    <2> QED BY <1>1, <2>1
  <1> QED BY <1>2, <1>3

LEMMA Finite ==
    /\ IsFiniteSet(Consumed) /\ IsFiniteSet(Consumed') /\ IsFiniteSet(Open) /\ IsFiniteSet(Open')
    /\ Cardinality(Consumed) \in Nat /\ Cardinality(Consumed') \in Nat
    /\ Cardinality(Open) \in Nat /\ Cardinality(Open') \in Nat
  <1>1. /\ IsFiniteSet(Consumed) /\ IsFiniteSet(Consumed')
        /\ IsFiniteSet(Open) /\ IsFiniteSet(Open')
    <2>1. /\ Consumed \subseteq Requests /\ Consumed' \subseteq Requests
          /\ Open \subseteq Codes /\ Open' \subseteq Codes
      BY DEF Consumed, Open
    <2> QED BY <2>1, PairingAssumption, FS_Subset
  <1> QED BY <1>1, FS_CardinalityType

\* A step that consumes no code and makes no token.
LEMMA CodeKept ==
    ASSUME Typed, CodeInv, UNCHANGED <<started, doubled, issued>>,
           \A c \in Codes : challenge'[c] = challenge[c],
           \A r \in Requests :
              /\ req'[r].pc = "consumed" => req[r].pc = "consumed"
              /\ req'[r].pc \in {"looked", "consumed", "answered"} =>
                    /\ req[r].pc \in {"looked", "consumed", "answered"}
                    /\ req'[r].code = req[r].code
    PROVE  CodeInv'
  <1>1. Open' = Open /\ Consumed' \subseteq Consumed
    BY DEF Open, Consumed
  <1>2. Cardinality(Consumed') <= Cardinality(Consumed)
    BY <1>1, Finite, FS_Subset
  <1>3. \A r \in Requests : req[r].pc # "free" => req[r].code \in Codes
    BY RequestIs, PendingIs
  <1>4. CodeKnown'
    BY <1>3 DEF CodeInv, CodeKnown
  <1> QED BY <1>1, <1>2, <1>4, Finite DEF CodeInv, Typed

LEMMA CodeStart ==
    ASSUME Typed, CodeInv, NEW c \in Codes, Start(c)
    PROVE  CodeInv'
  <1>1. /\ Open' = Open \cup {c} /\ Consumed' = Consumed
        /\ started' = started + 1 /\ UNCHANGED <<issued, doubled, req>>
    BY DEF Start, Open, Consumed, Typed
  <1>2. Cardinality(Open \cup {c}) <= Cardinality(Open) + 1
    BY Finite, OneMore
  <1>3. \A r \in Requests : req[r].pc # "free" => req[r].code \in Codes
    BY RequestIs, PendingIs
  <1>4. CodeKnown'
    BY <1>1, <1>3 DEF Start, CodeInv, CodeKnown, Typed
  <1> QED BY <1>1, <1>2, <1>4, Finite DEF CodeInv, Typed

LEMMA CodeConsume ==
    ASSUME Typed, CodeInv, NEW r \in Requests, Consume(r)
    PROVE  CodeInv'
  <1> DEFINE c == req[r].code
  <1>1. req[r] \in Pending /\ c \in Codes /\ challenge[c] # "none"
    BY RequestIs, PendingIs DEF Consume, CodeInv, CodeKnown
  <1>2. /\ challenge' = [challenge EXCEPT ![c] = "used"]
        /\ req' = [req EXCEPT ![r] = [req[r] EXCEPT !.pc = "consumed"]]
        /\ doubled' = IF challenge[c] = "used" THEN doubled + 1 ELSE doubled
        /\ UNCHANGED <<issued, started>>
    BY DEF Consume
  <1>3. [req[r] EXCEPT !.pc = "consumed"].pc = "consumed" /\ [req[r] EXCEPT !.pc = "consumed"].code = c
    BY <1>1, MovedIs
  <1> HIDE DEF c
  <1>4. Consumed' = Consumed \cup {r} /\ Open' = Open \ {c}
    BY <1>1, <1>2, <1>3 DEF Consumed, Open, Typed
  <1>5. Cardinality(Consumed') <= Cardinality(Consumed) + 1
    BY <1>4, Finite, OneMore
  <1>6. \/ /\ Cardinality(Open') = Cardinality(Open)
           /\ doubled' = doubled + 1
        \/ /\ Cardinality(Open') = Cardinality(Open) - 1
           /\ doubled' = doubled
    <2>1. CASE challenge[c] = "used"
      <3>1. c \notin Open
        BY <2>1 DEF Open
      <3>2. Open' = Open
        BY <1>4, <3>1
      <3> QED BY <1>2, <2>1, <3>2
    <2>2. CASE challenge[c] # "used"
      <3>1. c \in Open
        BY <1>1, <2>2 DEF Open, Typed
      <3>2. Cardinality(Open \ {c}) = Cardinality(Open) - 1
        BY <3>1, Finite, FS_RemoveElement
      <3> QED BY <1>2, <1>4, <2>2, <3>2
    <2> QED BY <2>1, <2>2
  <1>7. CodeKnown'
    <2>1. \A s \in Requests : req[s].pc # "free" => req[s].code \in Codes
      BY RequestIs, PendingIs
    <2>2. /\ \A s \in Requests \ {r} : req'[s] = req[s]
          /\ req'[r].code = c
          /\ \A d \in Codes : challenge[d] # "none" => challenge'[d] # "none"
      BY <1>1, <1>2, <1>3 DEF Typed
    <2> QED BY <1>1, <2>1, <2>2 DEF CodeInv, CodeKnown
  <1> QED BY <1>2, <1>5, <1>6, <1>7, Finite DEF CodeInv, Typed

LEMMA CodeSave ==
    ASSUME Typed, CodeInv, NEW r \in Requests, Save(r)
    PROVE  CodeInv'
  <1>1. /\ req[r] \in Pending /\ req[r].pc = "consumed" /\ issued' = issued + 1
        /\ UNCHANGED <<challenge, started, doubled>>
        /\ \A s \in Requests \ {r} : req'[s] = req[s]
    BY RequestIs DEF Save, Typed
  <1>2. req'[r].pc = "free" \/ (req'[r].pc = "answered" /\ req'[r].code = req[r].code)
    <2>0. \/ req'[r] = NoRequest
          \/ req'[r] = [req[r] EXCEPT !.pc = "answered", !.token = issued + 1]
      BY DEF Save, Typed
    <2>1. issued + 1 \in Nat
      BY DEF Typed
    <2>2. CASE req'[r] = NoRequest
      BY <2>2, FreeIs
    <2>3. CASE req'[r] = [req[r] EXCEPT !.pc = "answered", !.token = issued + 1]
      BY <1>1, <2>1, <2>3 DEF Pending
    <2> QED BY <2>0, <2>2, <2>3
  <1>3. Consumed' = Consumed \ {r} /\ r \in Consumed /\ Open' = Open
    BY <1>1, <1>2 DEF Consumed, Open
  <1>4. Cardinality(Consumed') = Cardinality(Consumed) - 1
    BY <1>3, Finite, FS_RemoveElement
  <1>5. CodeKnown'
    BY <1>1, <1>2 DEF CodeInv, CodeKnown
  <1> QED BY <1>1, <1>3, <1>4, <1>5, Finite DEF CodeInv, Typed

LEMMA CodeStep ==
    Typed /\ CodeInv /\ [PairingNext]_pairingVars => CodeInv'
  <1> SUFFICES ASSUME Typed, CodeInv, [PairingNext]_pairingVars PROVE CodeInv'
    OBVIOUS
  <1> USE DEF hub
  <1>0. ASSUME UNCHANGED <<req, challenge, started, doubled, issued>> PROVE CodeInv'
    BY <1>0, CodeKept
  <1>1. ASSUME NEW c \in Codes, Start(c) PROVE CodeInv'
    BY <1>1, CodeStart
  <1>2. ASSUME NEW c \in Codes, Expire(c) PROVE CodeInv'
    <2>1. Open' = Open /\ Consumed' = Consumed /\ UNCHANGED <<req, started, doubled, issued>>
      BY <1>2 DEF Expire, Open, Consumed, Typed
    <2>2. \A r \in Requests : req[r].pc # "free" => req[r].code \in Codes
      BY RequestIs, PendingIs
    <2>3. CodeKnown'
      BY <1>2, <2>1, <2>2 DEF Expire, CodeInv, CodeKnown, Typed
    <2> QED BY <2>1, <2>3 DEF CodeInv
  <1>3. ASSUME NEW r \in Requests, Lookup(r) PROVE CodeInv'
    <2>1. /\ req[r] \in Pending /\ req[r].pc = "posted" /\ UNCHANGED <<challenge, started, doubled, issued>>
          /\ \A s \in Requests \ {r} : req'[s] = req[s]
      BY <1>3, RequestIs DEF Lookup, Typed
    <2>2. /\ req'[r].pc \notin {"consumed", "answered"} /\ req'[r].code = req[r].code
          /\ (req'[r].pc = "looked" => challenge[req[r].code] = "live")
      <3>1. req'[r] = [req[r] EXCEPT !.pc = IF challenge[req[r].code] = "live" THEN "looked" ELSE "refused"]
        BY <1>3 DEF Lookup, Typed
      <3> QED BY <2>1, <3>1, MovedIs
    <2>3. Open' = Open /\ Consumed' = Consumed
      BY <2>1, <2>2 DEF Open, Consumed
    <2>4. CodeKnown'
      BY <2>1, <2>2 DEF CodeInv, CodeKnown
    <2> QED BY <2>1, <2>3, <2>4 DEF CodeInv
  <1>4. ASSUME NEW r \in Requests, Consume(r) PROVE CodeInv'
    BY <1>4, CodeConsume
  <1>5. ASSUME NEW r \in Requests, Save(r) PROVE CodeInv'
    BY <1>5, CodeSave
  <1>6. ASSUME NEW r \in Requests, Paired(r) \/ PairRefused(r) PROVE CodeInv'
    <2>1. ASSUME NEW s \in Requests
          PROVE  req'[s].pc = "free" \/ (req'[s].pc = req[s].pc /\ req'[s].code = req[s].code)
      <3>1. \/ req'[s] = NoRequest \/ req'[s] = req[s]
            \/ req'[s] = [req[s] EXCEPT !.here = FALSE] /\ req[s].pc # "free"
        <4>1. \/ req'[s] = NoRequest \/ req'[s] = req[s]
              \/ req'[s] = Away(req[r].phone)[s]
          <5>1. Away(req[r].phone) \in [Requests -> {NoRequest} \cup Pending]
            BY AwayType
          <5> QED BY <1>6, <5>1 DEF Paired, PairRefused, Typed
        <4> QED BY <4>1 DEF Away, InFlight
      <3> QED BY <3>1, RequestIs, AwayIs, FreeIs
    <2>2. UNCHANGED <<challenge, started, doubled, issued>>
      BY <1>6 DEF Paired, PairRefused
    <2> QED BY <2>1, <2>2, CodeKept
  <1>7. ASSUME NEW rs \in SUBSET Requests, \A s \in rs : req[s].pc # "free", Unread(rs),
               UNCHANGED <<challenge, started, doubled, issued>>
        PROVE  CodeInv'
    <2>1. \A s \in Requests : req'[s].pc # "free" => req'[s].pc = req[s].pc /\ req'[s].code = req[s].code
      BY <1>7, UnreadIs
    <2> QED BY <1>7, <2>1, CodeKept
  <1>8. ASSUME NEW r \in Requests, Lose(r) PROVE CodeInv'
    <2>1. {r} \in SUBSET Requests /\ (\A s \in {r} : req[s].pc # "free") /\ Unread({r})
      BY <1>8 DEF Lose
    <2> QED BY <1>7, <1>8, <2>1 DEF Lose
  <1>9. ASSUME NEW p \in Phones, Restart(p) PROVE CodeInv'
    <2>1. /\ InFlight(p) \in SUBSET Requests /\ \A s \in InFlight(p) : req[s].pc # "free"
          /\ Unread(InFlight(p))
      BY <1>9 DEF InFlight, Restart
    <2> QED BY <1>7, <1>9, <2>1 DEF Restart
  <1>10. ASSUME NEW p \in Phones, Revoke(p) \/ LoginRefused(p)
                                  \/ LoginOffline(p)
         PROVE  CodeInv'
    BY <1>0, <1>10 DEF Revoke, LoginRefused, LoginOffline
  <1>11. ASSUME NEW p \in Phones, Browse(p) \/ Login(p) PROVE CodeInv'
    <2>1. ASSUME NEW s \in Requests
          PROVE  req'[s].pc = "free" \/ (req'[s].pc = req[s].pc /\ req'[s].code = req[s].code)
      <3>1. req'[s] = req[s] \/ (req'[s] = [req[s] EXCEPT !.here = FALSE] /\ req[s].pc # "free")
        BY <1>11 DEF Browse, Login, Away, InFlight
      <3> QED BY <3>1, RequestIs, AwayIs
    <2>2. UNCHANGED <<challenge, started, doubled, issued>>
      BY <1>11 DEF Browse, Login
    <2> QED BY <2>1, <2>2, CodeKept
  <1>12. ASSUME NEW p \in Phones, NEW r \in Requests, NEW c \in Codes, Pair(p, r, c)
         PROVE  CodeInv'
    <2>1. /\ req'[r].pc = "posted" /\ UNCHANGED <<challenge, started, doubled, issued>>
          /\ \A s \in Requests \ {r} : req'[s] = req[s]
      BY <1>12 DEF Pair, Typed
    <2> QED BY <2>1, CodeKept
  <1>13. CASE Crash
    <2>1. (\A r \in Requests : req'[r].pc = "free") /\ UNCHANGED <<challenge, started, doubled, issued>>
      BY <1>13, FreeIs DEF Crash
    <2> QED BY <2>1, CodeKept
  <1>14. ASSUME NEW p \in Phones, WebOpened(p) \/ WebAdmitted(p) \/ WebRejected(p)
                                  \/ WebClosed(p) \/ WebRetries(p)
         PROVE  CodeInv'
    BY <1>0, <1>14 DEF WebStep, WebOpened, WebAdmitted, WebRejected, WebClosed, WebRetries
  <1>15. CASE UNCHANGED pairingVars
    BY <1>0, <1>15 DEF pairingVars
  <1> QED BY <1>1, <1>2, <1>3, <1>4, <1>5, <1>6, <1>8, <1>9, <1>10, <1>11, <1>12, <1>13,
             <1>14, <1>15 DEF PairingNext

\* A code pairs one client, however many requests name it and in whatever order
\* their statements run, but for requests that looked it up together.
THEOREM CodePairsOneClient == PairingSpec => []OneClientPerCode
  <1>1. PairingInit => CodeInv
    <2> SUFFICES ASSUME PairingInit PROVE CodeInv
      OBVIOUS
    <2>1. Consumed = {} /\ Open = {} /\ CodeKnown
      BY FreeIs DEF PairingInit, Consumed, Open, CodeKnown
    <2> QED BY <2>1, FS_EmptySet DEF PairingInit, CodeInv
  <1>2. PairingTypeOK /\ CodeInv /\ [PairingNext]_pairingVars => CodeInv'
    BY CodeStep, TypedIs
  <1>3. PairingTypeOK /\ CodeInv => OneClientPerCode
    BY Finite, TypedIs DEF CodeInv, OneClientPerCode, Typed
  <1> QED BY <1>1, <1>2, <1>3, PairingTypeInit, PairingTypeStep, PTL DEF PairingSpec
=============================================================================
