--------------------------- MODULE DeviceScanner ---------------------------
(***************************************************************************)
(* From the phones on the PC's USB ports to the hub's list of detected     *)
(* devices (src/pc_agent/device_scanner.py, the agent's connection in      *)
(* src/pc_agent/client.py, update_detected_devices of the hub).            *)
(*                                                                         *)
(* Every connection of the agent has a scanner of its own and a handler in *)
(* the hub; the handler of an earlier connection may still have reports to *)
(* read when the next one is up.                                           *)
(***************************************************************************)
EXTENDS Naturals, Sequences, FiniteSets

CONSTANTS
    Serials,    \* the phones
    MaxReport,  \* how many devices fit in the 8192 characters of a message
    MaxChanges, \* bound: phones plugged, unplugged or authorized
    MaxFails,   \* bound: adb calls that fail
    MaxConns    \* bound: connections of the agent

ASSUME ScannerAssumption == {MaxReport, MaxChanges, MaxFails, MaxConns} \subseteq Nat

VARIABLES
    usb,        \* the state of each phone as adb would list it
    socket,     \* the agent's connection
    conn,       \* the number of the last connection
    scanner,    \* the scanner of this connection; ghost: whether it has reported
    wire,       \* for each connection, the reports its handler has not read
    busy,       \* the handlers that have set the list and not yet saved it
    detected,   \* the session's detected_devices
    stored,     \* the list in the saved snapshot
    changes, fails,
    overtaken   \* ghost: the list was set last by the handler of an earlier connection

scannerVars == <<usb, socket, conn, scanner, wire, busy, detected, stored, changes, fails, overtaken>>

Conns == 1..MaxConns

Nothing == [s \in Serials |-> "absent"]

\* What a device listing says, the names asked from the phone aside.
States(list) == [s \in Serials |-> IF list[s] = "nameless" THEN "device" ELSE list[s]]

\* to_detected_dict of the devices that are reported.
Detected(list) == {s \in Serials : States(list)[s] = "device"}

-----------------------------------------------------------------------------
(* The phones and the agent's connection *)

Plug(s, state) ==
    /\ changes < MaxChanges /\ usb[s] # state
    /\ usb' = [usb EXCEPT ![s] = state]
    /\ changes' = changes + 1
    /\ UNCHANGED <<socket, conn, scanner, wire, busy, detected, stored, fails, overtaken>>

\* Mutant: the agent keeps its scanner over connections.
ConnectKeeping ==
    /\ socket = "down" /\ conn < MaxConns
    /\ socket' = "up" /\ conn' = conn + 1
    /\ scanner' = [scanner EXCEPT !.pc = "idle"]
    /\ UNCHANGED <<usb, wire, busy, detected, stored, changes, fails, overtaken>>

\* _connect_once after the registration: a new scanner that has seen nothing.
Connect ==
    /\ socket = "down" /\ conn < MaxConns
    /\ socket' = "up" /\ conn' = conn + 1
    /\ scanner' = [pc |-> "idle", seen |-> Nothing, previous |-> Nothing,
                  reported |-> FALSE]
    /\ UNCHANGED <<usb, wire, busy, detected, stored, changes, fails, overtaken>>

\* The transport dies: reports that were not read may be lost, the last first.
Break ==
    /\ socket = "up"
    /\ socket' = "broken"
    /\ \E n \in 0..Len(wire[conn]) : wire' = [wire EXCEPT ![conn] = SubSeq(@, 1, n)]
    /\ UNCHANGED <<usb, conn, scanner, busy, detected, stored, changes, fails, overtaken>>

\* The agent notices: the finally block stops the scanner.
Disconnect ==
    /\ socket = "broken"
    /\ socket' = "down"
    /\ scanner' = [scanner EXCEPT !.pc = "stopped"]
    /\ UNCHANGED <<usb, conn, wire, busy, detected, stored, changes, fails, overtaken>>

-----------------------------------------------------------------------------
(* The scanner *)

\* scan_devices: "adb devices", whose failure looks like no devices.
List ==
    /\ scanner.pc = "idle"
    /\ \/ scanner' = [scanner EXCEPT !.pc = "listed", !.seen = usb] /\ UNCHANGED fails
       \/ /\ fails < MaxFails
          /\ fails' = fails + 1
          /\ scanner' = [scanner EXCEPT !.pc = "listed", !.seen = Nothing]
    /\ UNCHANGED <<usb, socket, conn, wire, busy, detected, stored, changes, overtaken>>

\* The names a listed phone is asked for; one that is gone has none.
Enriched == [s \in Serials |-> IF scanner.seen[s] = "device" /\ usb[s] # "device"
                               THEN "nameless" ELSE scanner.seen[s]]

\* Mutant: only the serial numbers are compared.
CompareSerials ==
    /\ scanner.pc = "listed"
    /\ scanner' = IF {s \in Serials : Enriched[s] = "absent"}
                         = {s \in Serials : scanner.previous[s] = "absent"}
                  THEN [scanner EXCEPT !.pc = "idle"]
                  ELSE [scanner EXCEPT !.pc = "report", !.previous = Enriched]
    /\ UNCHANGED <<usb, socket, conn, wire, busy, detected, stored, changes, fails, overtaken>>

\* _poll compares serials and states, not names; it records the new list
\* before it reports it.
Compare ==
    /\ scanner.pc = "listed"
    /\ scanner' = IF States(Enriched) = States(scanner.previous)
                  THEN [scanner EXCEPT !.pc = "idle"]
                  ELSE [scanner EXCEPT !.pc = "report", !.previous = Enriched]
    /\ UNCHANGED <<usb, socket, conn, wire, busy, detected, stored, changes, fails, overtaken>>

\* _send_detected_devices; on a dead socket the failure is swallowed.
Report ==
    /\ scanner.pc = "report"
    /\ scanner' = [scanner EXCEPT !.pc = "idle", !.reported = TRUE]
    /\ wire' = IF socket = "up" THEN [wire EXCEPT ![conn] = Append(@, Detected(scanner.previous))]
               ELSE wire
    /\ UNCHANGED <<usb, socket, conn, busy, detected, stored, changes, fails, overtaken>>

-----------------------------------------------------------------------------
(* The hub *)

\* The handler of connection c reads a report: one that is too large is
\* answered with an error, any other replaces the list.
HubReceive(c) ==
    LET report == Head(wire[c])
    IN  /\ wire[c] # <<>> /\ c \notin busy
        /\ wire' = [wire EXCEPT ![c] = Tail(@)]
        /\ IF Cardinality(report) > MaxReport THEN UNCHANGED <<detected, busy, overtaken>>
           ELSE /\ detected' = report
                /\ busy' = busy \cup {c}
                /\ overtaken' = (c # conn)
        /\ UNCHANGED <<usb, socket, conn, scanner, stored, changes, fails>>

\* The broadcast is done: the session is saved.
HubSave(c) ==
    /\ c \in busy
    /\ busy' = busy \ {c}
    /\ stored' = detected
    /\ UNCHANGED <<usb, socket, conn, scanner, wire, detected, changes, fails, overtaken>>

\* The hub is killed and restores the saved session.
HubRestart ==
    /\ socket' = IF socket = "down" THEN "down" ELSE "broken"
    /\ wire' = [c \in Conns |-> <<>>]
    /\ busy' = {}
    /\ detected' = stored
    /\ UNCHANGED <<usb, conn, scanner, stored, changes, fails, overtaken>>

-----------------------------------------------------------------------------
ScannerInit ==
    /\ usb \in [Serials -> {"absent", "device"}]
    /\ socket = "down" /\ conn = 0
    /\ scanner = [pc |-> "stopped", seen |-> Nothing, previous |-> Nothing,
                  reported |-> FALSE]
    /\ wire = [c \in Conns |-> <<>>]
    /\ busy = {} /\ detected = {} /\ stored = {}
    /\ changes = 0 /\ fails = 0
    /\ overtaken = FALSE

Scan == List \/ Compare \/ Report

ScannerNext ==
    \/ \E s \in Serials, state \in {"absent", "unauthorized", "device"} : Plug(s, state)
    \/ Connect \/ Break \/ Disconnect \/ Scan \/ HubRestart
    \/ \E c \in Conns : HubReceive(c) \/ HubSave(c)

\* The scanner's loop goes on by its timer, handlers read what has arrived and
\* finish, and a dead connection is noticed. Nobody has to connect again.
ScannerFairness ==
    /\ WF_scannerVars(Scan) /\ WF_scannerVars(Disconnect)
    /\ \A c \in Conns : WF_scannerVars(HubReceive(c)) /\ WF_scannerVars(HubSave(c))

ScannerSpec == ScannerInit /\ [][ScannerNext]_scannerVars /\ ScannerFairness

-----------------------------------------------------------------------------
(* Properties *)

\* The type of the state.
ScannerTypeOK ==
    /\ usb \in [Serials -> {"absent", "unauthorized", "device"}]
    /\ socket \in {"down", "up", "broken"}
    /\ conn \in 0..MaxConns /\ (socket # "down" => conn \in Conns)
    /\ scanner \in [pc : {"stopped", "idle", "listed", "report"},
                    seen : [Serials -> {"absent", "unauthorized", "device"}],
                    previous : [Serials -> {"absent", "unauthorized", "device", "nameless"}],
                    reported : BOOLEAN]
    /\ scanner.pc = "stopped" <=> socket = "down"
    /\ wire \in [Conns -> Seq(SUBSET Serials)]
    /\ busy \subseteq Conns
    /\ detected \subseteq Serials /\ stored \subseteq Serials
    /\ changes \in Nat /\ fails \in Nat /\ overtaken \in BOOLEAN

\* Once the scanner of a connection has reported, the hub's list is what it saw
\* last, or that report is on its way; unless the report was too large, or the
\* handler of an earlier connection read an older one after it.
ListIsLastSeen ==
    socket = "up" /\ scanner.pc # "report" /\ wire[conn] = <<>> =>
        \/ detected = Detected(scanner.previous)
        \/ ~scanner.reported
        \/ overtaken
        \/ Cardinality(Detected(scanner.previous)) > MaxReport

\* When phones, adb and connections come to rest, the hub's list comes to be
\* the phones that are plugged in; except that a scanner that has seen none
\* since it was made has nothing to report, and an old list stays.
ListSettles ==
    <>[](socket = "up" =>
            \/ detected = Detected(usb)
            \/ usb = Nothing /\ ~scanner.reported
            \/ overtaken
            \/ Cardinality(Detected(usb)) > MaxReport)

=============================================================================
