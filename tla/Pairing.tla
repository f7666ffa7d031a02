------------------------------ MODULE Pairing ------------------------------
(***************************************************************************)
(* Pairing a phone with the hub and what the phone does with its token     *)
(* (src/app/pairing/service.py, src/app/security/client_auth.py,           *)
(* src/clients/alpilab_mobile/lib/main.dart).                              *)
(*                                                                         *)
(* The hub's endpoints are plain functions: requests run on a pool of      *)
(* threads and share one SQLite connection, so one action is one statement *)
(* with its commit.  A token is the number of the pairing that made it.    *)
(***************************************************************************)
EXTENDS Naturals, FiniteSets

CONSTANTS
    Phones,        \* the phones, each with its stable client id
    Codes,         \* the codes that may be drawn, and typed
    Requests,      \* bound: requests to complete a pairing under way at a time
    MaxStarts,     \* bound: times the PC shows a code
    MaxTokens,     \* bound: pairings completed
    MaxReconnect   \* MAX_RECONNECT_ATTEMPTS of the web client

ASSUME PairingAssumption ==
    /\ IsFiniteSet(Codes) /\ IsFiniteSet(Requests)
    /\ {MaxStarts, MaxTokens, MaxReconnect} \subseteq Nat

VARIABLES
    challenge,  \* pairing_challenges: the state of each code
    row,        \* paired_clients: the row of each phone, token 0 when there is none
    req,        \* the requests under way and their answers
    saved,      \* the token in each phone's preferences, 0 when there is none
    page,       \* the page each phone shows
    probe,      \* the token the login of each phone tries, 0 when none is under way
    web,        \* the web client in the session page of each phone
    started,    \* codes shown
    issued,     \* tokens made
    doubled,    \* ghost: codes consumed by a request that found them consumed
    torn        \* ghost: phones that lost an answer or had two under way

pairingVars == <<challenge, row, req, saved, page, probe, web, started, issued, doubled, torn>>

hub == <<challenge, row, started, issued, doubled>>

-----------------------------------------------------------------------------
(* The hub *)

NoRequest == [pc |-> "free"]

InFlight(p) == {r \in Requests : req[r].pc # "free" /\ req[r].phone = p}

\* The pairing dialog of the PC shows a code.  A drawn code that is in the
\* table already is replaced: it is live again, whatever it was.
Start(c) ==
    /\ started < MaxStarts
    /\ started' = started + 1
    /\ challenge' = [challenge EXCEPT ![c] = "live"]
    /\ UNCHANGED <<row, req, saved, page, probe, web, issued, doubled, torn>>

\* Five minutes pass.
Expire(c) ==
    /\ challenge[c] = "live"
    /\ challenge' = [challenge EXCEPT ![c] = "expired"]
    /\ UNCHANGED <<row, req, saved, page, probe, web, started, issued, doubled, torn>>

\* consume_pairing_challenge: its SELECT ...
Lookup(r) ==
    /\ req[r].pc = "posted"
    /\ req' = [req EXCEPT ![r].pc =
                  IF challenge[req[r].code] = "live" THEN "looked" ELSE "refused"]
    /\ UNCHANGED <<hub, saved, page, probe, web, torn>>

\* Mutant: the code is not marked as consumed.
ConsumeUnmarked(r) ==
    /\ req[r].pc = "looked"
    /\ req' = [req EXCEPT ![r].pc = "consumed"]
    /\ UNCHANGED <<hub, saved, page, probe, web, torn>>

\* ... and its UPDATE, which does not look at the row again.
Consume(r) ==
    LET c == req[r].code
    IN  /\ req[r].pc = "looked"
        /\ challenge' = [challenge EXCEPT ![c] = "used"]
        /\ doubled' = IF challenge[c] = "used" THEN doubled + 1 ELSE doubled
        /\ req' = [req EXCEPT ![r].pc = "consumed"]
        /\ UNCHANGED <<row, saved, page, probe, web, started, issued, torn>>

\* save_paired_client: the row is replaced, its token and a revocation with it.
Save(r) ==
    LET p == req[r].phone
    IN  /\ req[r].pc = "consumed" /\ issued < MaxTokens
        /\ issued' = issued + 1
        /\ row' = [row EXCEPT ![p] = [token |-> issued + 1, revoked |-> FALSE]]
        /\ req' = [req EXCEPT ![r] = IF @.lost THEN NoRequest
                                     ELSE [@ EXCEPT !.pc = "answered", !.token = issued + 1]]
        /\ torn' = IF req[r].lost \/ \E s \in InFlight(p) : req[s].pc = "answered"
                   THEN torn \cup {p} ELSE torn
        /\ UNCHANGED <<challenge, saved, page, probe, web, started, doubled>>

Revoke(p) ==
    /\ row[p].token # 0
    /\ row' = [row EXCEPT ![p].revoked = TRUE]
    /\ UNCHANGED <<challenge, req, saved, page, probe, web, started, issued, doubled, torn>>

\* is_authorized, asked when a socket opens and never again.
Authorized(p, token) == token # 0 /\ row[p] = [token |-> token, revoked |-> FALSE]

-----------------------------------------------------------------------------
(* The phone *)

NoWeb == [state |-> "none", token |-> 0, attempts |-> 0, closing |-> FALSE]

\* The session page replaces the one that is shown.
SessionPage(p, shown, token) ==
    /\ page' = [page EXCEPT ![p] = shown]
    /\ web' = [web EXCEPT ![p] = [NoWeb EXCEPT !.state = "opening", !.token = token]]

\* The pairing page that posted these requests is gone.
Away(p) == [r \in Requests |-> IF r \in InFlight(p) THEN [req[r] EXCEPT !.here = FALSE]
                               ELSE req[r]]

\* _attemptAutoLogin searches the hubs and tries the token that was saved at
\* the start, while the finder lists what it finds and may be left: the hub
\* admits the phone, and whatever page is shown by then is replaced, ...
Login(p) ==
    /\ probe[p] # 0 /\ Authorized(p, probe[p])
    /\ probe' = [probe EXCEPT ![p] = 0]
    /\ SessionPage(p, IF page[p] = "finder" THEN "home" ELSE "session", probe[p])
    /\ req' = Away(p)
    /\ UNCHANGED <<hub, saved, torn>>

\* ... or it refuses the token, or another hub that was found first does not
\* know it: the token saved by then is forgotten, ...
LoginRefused(p) ==
    /\ probe[p] # 0
    /\ probe' = [probe EXCEPT ![p] = 0]
    /\ saved' = [saved EXCEPT ![p] = 0]
    /\ UNCHANGED <<hub, req, page, web, torn>>

\* ... or no hub can be reached.
LoginOffline(p) ==
    /\ probe[p] # 0
    /\ probe' = [probe EXCEPT ![p] = 0]
    /\ UNCHANGED <<hub, req, saved, page, web, torn>>

\* From the hub finder to the pairing page, and back to it; a session page
\* that replaced the finder has nothing to go back to.
Browse(p) ==
    /\ \/ page[p] = "finder" /\ page' = [page EXCEPT ![p] = "pairing"]
       \/ page[p] \in {"pairing", "session"} /\ page' = [page EXCEPT ![p] = "finder"]
    /\ web' = [web EXCEPT ![p] = NoWeb]
    /\ req' = Away(p)
    /\ UNCHANGED <<hub, saved, probe, torn>>

\* _pair posts the code; the button stays enabled meanwhile.
Pair(p, r, c) ==
    /\ page[p] = "pairing" /\ req[r].pc = "free"
    /\ req' = [req EXCEPT ![r] = [pc |-> "posted", phone |-> p, code |-> c,
                                  token |-> 0, here |-> TRUE, lost |-> FALSE]]
    /\ UNCHANGED <<hub, saved, page, probe, web, torn>>

\* Mutant: an answer is kept only by a page that is still shown.
PairedIfShown(r) ==
    LET p == req[r].phone
    IN  /\ req[r].pc = "answered"
        /\ IF req[r].here
           THEN /\ SessionPage(p, "session", req[r].token)
                /\ saved' = [saved EXCEPT ![p] = req[r].token]
                /\ req' = [Away(p) EXCEPT ![r] = NoRequest]
           ELSE UNCHANGED <<page, web, saved>> /\ req' = [req EXCEPT ![r] = NoRequest]
        /\ UNCHANGED <<hub, probe, torn>>

\* The answer with the token is saved, even by a page that is gone; the
\* session page opens if the pairing page is still there.
Paired(r) ==
    LET p == req[r].phone
    IN  /\ req[r].pc = "answered"
        /\ saved' = [saved EXCEPT ![p] = req[r].token]
        /\ IF req[r].here
           THEN SessionPage(p, "session", req[r].token) /\ req' = [Away(p) EXCEPT ![r] = NoRequest]
           ELSE UNCHANGED <<page, web>> /\ req' = [req EXCEPT ![r] = NoRequest]
        /\ torn' = IF InFlight(p) = {r} /\ row[p].token = req[r].token
                   THEN torn \ {p} ELSE torn
        /\ UNCHANGED <<hub, probe>>

\* INVALID_PAIRING_CODE: the page shows it.
PairRefused(r) ==
    /\ req[r].pc = "refused"
    /\ req' = [req EXCEPT ![r] = NoRequest]
    /\ UNCHANGED <<hub, saved, page, probe, web, torn>>

\* The answers of these requests will not be read.
Unread(rs) ==
    /\ req' = [r \in Requests |->
                  IF r \notin rs THEN req[r]
                  ELSE IF req[r].pc \in {"refused", "answered"} THEN NoRequest
                  ELSE [req[r] EXCEPT !.lost = TRUE, !.here = FALSE]]
    /\ torn' = torn \cup {req[r].phone : r \in {s \in rs : req[s].pc = "answered"}}

\* The Wi-Fi drops a request's answer.
Lose(r) ==
    /\ req[r].pc # "free"
    /\ Unread({r})
    /\ UNCHANGED <<hub, saved, page, probe, web>>

\* The hub is killed: its threads and the answers they wrote go with it.
Crash ==
    /\ req' = [r \in Requests |-> NoRequest]
    /\ torn' = torn \cup {req[r].phone : r \in {s \in Requests : req[s].pc = "answered"}}
    /\ UNCHANGED <<hub, saved, page, probe, web>>

\* The app is closed and started again, with a login if a token is saved.
Restart(p) ==
    /\ Unread(InFlight(p))
    /\ page' = [page EXCEPT ![p] = "finder"]
    /\ probe' = [probe EXCEPT ![p] = saved[p]]
    /\ web' = [web EXCEPT ![p] = NoWeb]
    /\ UNCHANGED <<hub, saved>>

-----------------------------------------------------------------------------
(* The web client of the session page (RealtimeClient) *)

WebStep(p, from, w) ==
    /\ web[p].state \in from
    /\ web' = [web EXCEPT ![p] = w]
    /\ UNCHANGED <<hub, req, saved, page, probe, torn>>

\* scheduleReconnect: attempts are counted up to a limit.
Rescheduled(w) ==
    IF w.attempts >= MaxReconnect THEN [w EXCEPT !.state = "error", !.closing = FALSE]
    ELSE [w EXCEPT !.state = "waiting", !.attempts = @ + 1, !.closing = FALSE]

\* onopen: the hub accepts every socket before it looks at the token.
WebOpened(p) == WebStep(p, {"opening"}, [web[p] EXCEPT !.state = "open", !.attempts = 0])

WebAdmitted(p) ==
    /\ Authorized(p, web[p].token)
    /\ WebStep(p, {"open"}, [web[p] EXCEPT !.state = "session"])

\* The error message UNAUTHORIZED or PAIRING_REQUIRED: no reconnection.
WebRejected(p) ==
    /\ ~Authorized(p, web[p].token)
    /\ WebStep(p, {"open"}, [web[p] EXCEPT !.state = "unauthorized", !.closing = TRUE])

\* Mutant: onclose does not tell a close that was asked for.
WebClosedAgain(p) == WebStep(p, {"opening", "open", "session", "unauthorized"}, Rescheduled(web[p]))

\* onclose: after a rejection there is nothing to do.
WebClosed(p) ==
    \/ WebStep(p, {"opening", "open", "session"}, Rescheduled(web[p]))
    \/ web[p].closing /\ WebStep(p, {"unauthorized"}, [web[p] EXCEPT !.closing = FALSE])

WebRetries(p) == WebStep(p, {"waiting"}, [web[p] EXCEPT !.state = "opening"])

-----------------------------------------------------------------------------
PairingInit ==
    /\ challenge = [c \in Codes |-> "none"]
    /\ row = [p \in Phones |-> [token |-> 0, revoked |-> FALSE]]
    /\ req = [r \in Requests |-> NoRequest]
    /\ saved = [p \in Phones |-> 0]
    /\ page = [p \in Phones |-> "finder"]
    /\ probe = [p \in Phones |-> 0]
    /\ web = [p \in Phones |-> NoWeb]
    /\ started = 0 /\ issued = 0 /\ doubled = 0
    /\ torn = {}

PairingNext ==
    \/ \E c \in Codes : Start(c) \/ Expire(c)
    \/ \E r \in Requests : Lookup(r) \/ Consume(r) \/ Save(r) \/ Paired(r)
                           \/ PairRefused(r) \/ Lose(r)
    \/ \E p \in Phones : \/ Revoke(p) \/ Login(p) \/ LoginRefused(p) \/ LoginOffline(p)
                         \/ Browse(p) \/ Restart(p)
                         \/ \E r \in Requests, c \in Codes : Pair(p, r, c)
    \/ Crash
    \/ \E p \in Phones : WebOpened(p) \/ WebAdmitted(p) \/ WebRejected(p)
                         \/ WebClosed(p) \/ WebRetries(p)

PairingSpec == PairingInit /\ [][PairingNext]_pairingVars

-----------------------------------------------------------------------------
(* Properties *)

\* The type of the state.
PairingTypeOK ==
    /\ challenge \in [Codes -> {"none", "live", "expired", "used"}]
    /\ row \in [Phones -> [token : Nat, revoked : BOOLEAN]]
    /\ req \in [Requests ->
                  {NoRequest} \cup
                  [pc : {"posted", "looked", "consumed", "answered", "refused"},
                   phone : Phones, code : Codes, token : Nat, here : BOOLEAN, lost : BOOLEAN]]
    /\ saved \in [Phones -> Nat]
    /\ page \in [Phones -> {"finder", "pairing", "session", "home"}]
    /\ probe \in [Phones -> Nat]
    /\ web \in [Phones -> [state : {"none", "opening", "open", "session", "waiting",
                                    "unauthorized", "error"},
                           token : Nat, attempts : 0..MaxReconnect, closing : BOOLEAN]]
    /\ started \in Nat /\ issued \in Nat /\ doubled \in Nat
    /\ torn \subseteq Phones

\* A code shown on the PC pairs one client.  Only requests that looked it up
\* at the same time, on two threads, can both have it.
OneClientPerCode == issued <= started + doubled

\* The token a phone keeps is the one the hub has for it, so the phone logs in
\* at every start of the app; unless the answer with a newer token is still
\* under way, was lost, or came while another answer was under way.
TokenCurrent ==
    \A p \in Phones :
        \/ saved[p] \in {0, row[p].token}
        \/ p \in torn
        \/ \E r \in InFlight(p) : req[r].pc = "answered"

\* A session page whose client was refused tries no more, whatever closes come
\* late: the phone is back only with a new login or a new pairing.
RejectedStaysAway ==
    [][\A p \in Phones : web[p].state = "unauthorized" =>
          web'[p].state \in {"unauthorized", "none"}]_pairingVars

=============================================================================
