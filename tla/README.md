# Formal models of Alpilab AI

TLA+ specifications of the part of Alpilab AI that is hard to test: a hub (FastAPI, one asyncio event
loop) that keeps repair sessions in memory, several client devices that follow a session over
WebSockets and talk to an assistant in it, PC agents that run tools for it and watch the USB ports,
phones that pair with it, and the desktop program that starts and stops all of this. The
specifications are checked with TLC on small instances; the theorems in the `*Proofs` modules are
checked with TLAPS for all values of the constants.

    tlc -workers 2 -config MCToolExecution.cfg MCToolExecution.tla
    tlc -workers 2 -config MCHubParts.cfg MCHubParts.tla
    tlapm ToolExecutionProofs.tla

`PROJECT.json` lists components, runs, the mutations each property is known to catch, the source
lines of every definition, findings, hazards and theorems.

## 1. Inventory

### Parts, state and operations

| Part | State | Operations |
|---|---|---|
| Realtime session manager (`app/realtime/*`, `app/api/ws.py`, `routes/realtime.py`) | per session: repair context, messages, diagnostics, assistant status, association, detected devices, `state_version`; `_ws_connections`; SQLite snapshot | connect, disconnect, each mutation of `handle_client_message`, snapshot, rejection, REST create, restore |
| Web client (`frontend/src/realtime/*`, `useRepairSession.ts`) | reducer state with its version, `stateVersionRef`, socket, reconnect counter | receive, gap check, request snapshot, render, reconnect, reload |
| Agent gateway and registry (`app/agent/registry.py`, `gateway.py`, `ws.py`) | agent id -> connection; the session's `pc_agent` slot | register, heartbeat, unregister, send command, handle result |
| Tool execution (`tool_executor.py`, `execution_store.py`) | pending futures and completed results by `request_id` | execute, complete, time out, fail |
| PC agent (`pc_agent/client.py`, `tools/dispatcher.py`) | connection state, attempts; cache of completed requests | connect, register, beat, dispatch, back off, shut down |
| Device scanner (`pc_agent/device_scanner.py`) | last list of devices, one scanner per connection | poll, compare, report |
| Natural language commands (`app/conversation/*`, `app/commands/*`) | search context and selected product of the session; drives `assistant_status` | handle message, resolve follow-up, dispatch tool |
| Diagnostics (`app/diagnostics/*`) | tests, recommendation history | register, start, complete, recommend |
| Pairing (`app/pairing`, `app/security/client_auth.py`) | codes with expiry, paired clients | start, complete (look up, consume, save), revoke, authorize |
| Mobile client (`clients/alpilab_mobile/lib/main.dart`) | saved token, page shown | log in, find a hub, pair, open the session |
| Session store, resume (`app/session/*`) | devices and their users, participants, contexts, snapshots | save, join, resume |
| Local hub process (`local_hub/*`, `app/hub/discovery.py`) | lock port, hub port, mDNS name, agent process | launch, acquire, configure, advertise, serve, wait until ready, start the agent, stop |
| Others | tool tables, Windows applications, AI router, photos, UI | see "Not modelled" |

### How they interact

* A client's handler awaits `broadcast_ws`, which makes one coroutine per registered device and
  gathers them. The handler is suspended, the coroutines run later, and other handlers run in
  between. `_send_ws` and `send_json` called directly write at once. Everything that is wrong or
  subtle about ordering follows from that.
* A tool call (REST or chat) registers a future, awaits the audit broadcast, sends a command to the
  agent's connection and awaits the future with a timeout. The agent's handler resolves it and
  broadcasts the result after another await.
* Both kinds of connection are torn down in a `finally` clause that removes a registration *by
  name* (device id, agent id), at the time the hub notices the end, which may be long after the peer
  has reconnected.
* REST endpoints declared with `def` run on other threads than the event loop; the pairing endpoints
  are among them and share one SQLite connection, with a commit after each statement.
* Each client's handler takes its chat messages one by one and awaits the tool call in between, so
  the messages of two devices interleave at every await over one `assistant_status`, one chat and one
  product search context.
* The agent's scanner reports over the connection it was made for; the hub's handler of an earlier
  connection may still have reports to read.
* A phone's token is checked when its socket opens. A refusal is a message on a socket that is
  already open; the close comes after it.
* The launcher starts the server on a thread and the agent as a process of its own; an agent outlives
  a hub that is killed.
* The hub persists a session's snapshot after the broadcast of each versioned mutation, and loads it
  at start.

### What is hard, and what correctness means

| Part | Hard behaviour | Correct when |
|---|---|---|
| Tool execution | shared futures, timeout against late answer, duplicate delivery, answers on two connections, agent restart | one answer per request for all callers; broadcast once; no lost wake-up; every call ends; no run after a success |
| Agent presence | old handler ends after the new registration; one slot for many agents; attempt counter over many connections | the slot names a registered agent; dead registrations go away; an event about an agent is true when it is sent; the loop settles |
| Session sync | snapshot and rejection overtake updates; gaps; stale render; save order; crash | a client's context is that of its version; versions do not fall; at rest clients agree with the hub; acknowledged writes survive |
| Natural language | messages of several devices interleave, selection read before an await, exceptions nobody catches | "the second one" is counted on the list last shown; an answer names the product it describes; the status is the stage of the message that wrote it last, and ends at IDLE or ERROR with it |
| Device scanner | a scanner per connection, reports lost or late, a list recorded before it is reported | the hub's list is what the scanner saw last, and converges to what is plugged in |
| Diagnostics | window kept lazily, records with the same name | at most `max_repeats` recommendations in a window; a completed test is not proposed |
| Pairing, mobile client | a code consumed by concurrent requests, answers lost or read late, a close after a refusal | a code pairs one client; the token a phone keeps is the hub's; who was refused does not retry |
| Session store | a join killed between two statements, devices that change hands | a user whose devices joined one session resumes that one |
| Local hub process | two launches at a time, a start that fails half way, kills | one hub at a time; the name is announced only while something serves; no agent without its hub |

`hazards` in `PROJECT.json` has each hazard at its line with the properties that cover it.

## 2. Plan

Ordered by how much of the product depends on it.

| # | Modules | Status |
|---|---|---|
| 1 | `ToolService` (abstract), `ToolExecution`, `ToolExecutionProofs` | done: refinement and all invariants proved |
| 2 | `AgentPresence`, `AgentPresenceProofs` | done: all invariants proved |
| 3 | `SessionSync`, `SessionSyncProofs`, `SessionQuietProofs` | done: all invariants and the action property proved |
| 4 | `NaturalLanguage`, `NaturalLanguageProofs`: concurrent messages over `assistant_status` and the search context | done: all invariants proved |
| 5 | `Diagnostics`, `PartsProofs`: tests, window, repeats | done: all proved |
| 6 | `DeviceScanner`, `PartsProofs`: scanner, connections, hub list | done: invariants proved |
| 7 | `Pairing`, `PairingProofs`: codes, threads, tokens, phones, what a refusal stops | done: all proved |
| 8 | `SessionStore`, `PartsProofs`: join statement by statement, resume | done: invariants proved |
| 9 | `LocalHub`, `PartsProofs`: launches, lock, port, name, agent processes | done: invariants proved |
| 10 | `HubPartsProofs`: what is proved of the parts holds of the composition that is checked | done |

## 3. Modules

### ToolService, ToolExecution

`ToolService` is what a caller may rely on: a request has at most one answer, it never changes, a
call that is answered gets the answer of its request, and the session is told at most once. It knows
no agent and no connection.

`ToolExecution` is the code. A call goes idle -> auditing (`Register`: everything up to the awaited
`TOOL_EXECUTION_STARTED`) -> waiting (`Send`, or `SendLost`/`SendRaises` on the connection captured
before the await) -> an end (`Return`, `Cancelled`, `Timeout`, `TimeoutLate`, or at the start
`ReturnCached`, `Refuse`). Futures are named by the call that created them, because
`register_pending` gives later callers of a `request_id` the future that is there; a timeout of one
caller cancels it for all. Connections are numbered: the hub's handler (`HubRegister`, `HubAck`,
`HubReceive`, `HubPublish`, `HubUnregister`) and the agent's end (`AgentOnline`, `AgentMisread`,
`AgentHandle`) see a death (`Drop`) independently. `AgentHandle` is the receive loop with
`LocalToolDispatcher.dispatch`; the process may restart (`AgentCrash`). Outcomes stand for payloads.
`AgentMisread` is a command that reaches the agent before the `registered` reply.

### AgentPresence

The same connections seen from the registry: who is registered, what the session's one slot shows, and
whom the hub's last `AGENT_*` event names (`told`, a history variable). Slot and registry are two things:
when one of two registered agents disconnects the slot is empty and the event says offline, while the
other one is registered (a finding); what holds is that the slot never names an agent that is not
registered. How events and snapshots reach the clients is part of `SessionSync`. The agent's
loop is `StartConnect`, `Connected`/`ConnectFails`, `Online`, `Beat`, then `Lost`, `ClosedOk`,
`Misread` or `Shutdown`; `Backoff` is the exception branch of `run`. The hub's handler is
`HubRegister`, `HubReply`, `HubHeartbeat`, `HubEnd`. `failures` is a history variable: what the
attempt counter would be if it were reset when the agent is online.

### SessionSync

One session that exists, its clients, and the event loop itself: `ready` is the loop's queue of send
tasks and handlers to resume, and `running` a handler that goes on without yielding because its
broadcast had no target. Each handler has a `pc` at the await it is suspended in:

| Action | Code |
|---|---|
| `HubConnect`, `HubGreet` | `connect_device` up to its broadcast; the rest, `register_ws`, the first snapshot |
| `HubUpdate` | `update_repair_context`, `set_diagnosis_paused`, `set_assistant_status`, `update_diagnostic_measurement` |
| `HubChat`, `HubAssociate`, `HubDetected` | the mutations announced by an event without the version |
| `HubSave`, `HubEchoed` | after the broadcast: `_persist_session`, the legacy event, the acknowledgement |
| `HubReject`, `HubSnapshot` | written directly |
| `HubEnd`, `HubUnregister` | `disconnect_device` up to its broadcast; `unregister_ws` |
| `AgentEvent` | `register_agent`, `heartbeat`, `unregister_agent`: the session's slot and the `AGENT_*` event about it |
| `ToolEvent` | `TOOL_EXECUTION_STARTED` and a failed `TOOL_EXECUTION_COMPLETED`: the clients set the status they show, the session does not |
| `RestCreate` | `POST /api/v1/sessions` for this session, each assignment on its own (another thread) |
| `HubRestart` | crash at any point and `restore_persisted_sessions` |
| `RunSend` | one `_send_ws` task: the registration is looked up when the task runs |
| `Open`, `Dropped`, `Reload`, `Receive`, `Render`, `Break` | the client and the network |
| `ToolPanel` | a client opens or closes a tool panel, which sets the status it shows |

A written value is the number of its write, so that a field tells which write it is from. The session
is eight fields; the tests of the diagnostics are one field, and so are detected devices, the
association and the agent's slot, which a saved snapshot does not keep (`Persistable`; clients show no
agent and an offline one alike). A `repair_context_update` of several fields is one write with one
version and one event, and so the same as an update of one. `label` and `diagnosis_label` change with
`device`, `issue` or `status` and are left out. `history` has the context (device, issue, status) at
each version, `jumped` the clients whose version has passed over an update (the finding of
`session_masked`), `acked` what was acknowledged. `silent` has, for each device, the fields it cannot
be expected to show: those whose last write no message announced, until a snapshot or a later
announcement, and at a snapshot those of which an *older* announcement is still to be delivered
(`Outdated`, the finding at `mapEvents.ts:51`). A tool event or a tool panel makes the assistant
status such a field, for every device or for one: the clients then show a status the session does not
have (the finding at `mapEvents.ts:144`). What `QuietAgreement` says is therefore exactly as much as
the code keeps; the exceptions are findings.

### NaturalLanguage

The chat of one session. A device's handler is idle, or in one of its messages: `Understand` (the
text is parsed; a command sets THINKING; any other text is tried as a follow-up on the last product
list and selects its item at once) -> `think`/`ai`, suspended in the broadcast of THINKING -> `Think`
dispatches the tool (`working`), or `Converse` has the router's reply -> `Succeed`, `Fail` or `Raise`
-> `Speak` -> `Settle`. `Dispatch` is `_dispatch_tool_intent` with the agent's capabilities as they
are then; the follow-up's index is resolved before the call and used after it (`Label`), on a context
that `Succeed` of another device may have replaced. `Raise` is an exception that is no
`ToolExecutionError`: nobody resets the status and the device connects again. The status has two more
writers: a client may set it by a message of its own (`SetStatus`), and a restarted hub brings back
the status it had saved, with no handler left to end it, and forgets the search context
(`HubRestart`). A text is the set of
patterns of the parser it matches, in their order (`Parse`), and the features the follow-up rules ask
for (a number, an ordinal, the products its words fit, ...), so that recognition is free and what is
done with it is exact. `writer` is the device whose message wrote the status last, and nobody after
another writer of it; `moved` in an answer that the list changed while its product was fetched.

### Pairing

One action is one SQL statement with its commit, because the endpoints run on a pool of threads:
`Lookup`, `Consume`, `Save` of a request, `Start` and `Expire` of a code, `Revoke`. A token is the
number of the pairing that made it. A phone is on a page (`finder`, `pairing`, `session`, `home`),
with the token in its preferences. `_attemptAutoLogin` runs beside the page, with the token it has
read when the app was started (`probe`): `Login`, `LoginRefused` and `LoginOffline` are its ends, and
a refusal removes the token that is saved by then, also a newer one (a finding). `Pair` posts a code
(the button stays enabled), `Paired` saves the token of an answer even when its page is gone. Answers
are lost (`Lose`), the hub is killed (`Crash`), the app restarted (`Restart`). The session page's web
client (`RealtimeClient`) opens, is admitted or rejected, is closed and retries up to its limit.
`doubled` counts codes consumed by a request that found them consumed, `torn` has the phones that lost
an answer or had two under way.

### DeviceScanner

The phones on the USB ports as adb lists them, the agent's connections, the scanner of the current
connection (`List`, `Compare`, `Report`), the reports each hub handler has not read and the hub's list
(`HubReceive`, `HubSave`, `HubRestart`). A failing adb looks like no devices; a dying connection loses
a suffix of the unread reports (`Break`). A list longer than the hub accepts is answered with an error
(`MaxReport` stands for its 8192 characters). `reported` says that this scanner has sent something,
`overtaken` that an earlier connection's handler set the list last.

### Diagnostics

`Register`, `StartTest`, `CompleteTest`, `Recommend`, and `Tick` for the clock. `history` is what
`RepeatedRecommendationDetector` keeps, `proposed` (a history variable) all recommendations. Nothing in
the code changes `retry_count`, so nothing in the model does.

### SessionStore

The tables of users' devices, participants and contexts. `join_session` is `AddParticipant`,
`ListParticipant`, `CreateContext`, `Touch`, each committed by itself; `KillStore` may come between any
two. `Resume` is `resume_for_user`: the one active session, or with none the one recent session there
is. `joined` and `cut` remember which joins were completed and which were cut short.

### LocalHub

`launcher.main` of several processes on one PC, step by step, with everything they compete for: the
lock port, the hub's port, the mDNS name. Other programs may have the port or the name (`OtherPort`,
`OtherName`). `Kill` ends a process anywhere after the lock; the operating system takes back its
sockets and its name, the agent process lives on. `Terminate` only signals the agent (`dismissed`) and
the launcher goes on; `AgentExits` is its end, whenever that comes. `misled` has the processes whose
health check was answered by another program.

### MCHubParts

The instance of the last five models and of `AgentPresence` in one run. They share no variable, so
interleaving them would reach no new state of any: the initial state says which `part` moves and the
others stay in theirs. The harness adds no step of its own.

## 4. Runs

| Run | Instance | Shows |
|---|---|---|
| `tool_execution` | 3 calls of one request, 2 connections, 1 restart | types, `WaiterIsReachable`, `CallersAgree`, `PublishedOnce`, `NoRunAfterSuccess`, `ResultHasRun` |
| `tool_service` | 2 calls, 2 connections | `ToolExecution` implements `ToolService`; every call ends; stored results are broadcast |
| `tool_idempotency` | 2 calls, 1 connection | **violation**: a failed handler runs again for the same `request_id` |
| `agent_presence` | 2 agents, 3 connections, 1 attempt | types, `SlotIsRegistered`, `RegisteredIsServed` |
| `agent_offline` | 1 agent, 2 connections | **violation**: clients are told an online agent is offline |
| `agent_gives_up` | 1 agent, 2 connections | **violation**: ERROR without exhausted attempts |
| `session_sync` | 2 devices, 2 connections, 2 writes (status, association, detected devices, agent), 1 refusal | types, `ContextAtVersion`, `QuietAgreement`, `VersionNeverFalls` |
| `session_recovery` | 1 seeding device, 2 connections, 2 writes of every kind with tool events and panels, 1 restart | `AckedIsDurable`, `QuietAgreement`, `UpdateArrives` |
| `session_masked` | 2 devices, 1 write, 1 refusal | **violation**: a rejection hides an update from a client |
| `session_unanswered` | 1 device, 2 connections | **violation**: a snapshot request handled on a live connection is not answered |
| `natural_language` | 2 devices with 3 messages, 2 products, 7 texts, 4 search results, 2 statuses sent by clients, 1 restart | types, `ContextIsLastShown`, `SelectionCoherent`, `AnswerNamesProduct`, `FollowUpWasShown`, `StatusIsStage`, `StatusSettles` |
| `hub_parts`: pairing | 1 phone, 1 code shown twice, 2 requests at a time, 2 tokens, 1 retry | `OneClientPerCode`, `TokenCurrent`, `RejectedStaysAway` |
| `hub_parts`: scanner | 2 phones, 1 that fits in a report, 1 change, 1 adb failure, 2 connections | `ListIsLastSeen`, `ListSettles` |
| `hub_parts`: diagnostics | 1 name, 2 records, window 1, 2 repeats, clock to 4 | `NoLoop`, `CompletedNotProposed` |
| `hub_parts`: launcher | 2 launches with another program on the port and the name | `AgentHasItsHub`, `AnnouncedIsServed` |
| `hub_parts`: store | 2 users, 2 devices, 2 sessions, 4 saves | `ResumesOwn` |
| `hub_parts`: presence | 1 agent, 3 connections, 2 attempts | `DeadIsForgotten`, `ConnectingSettles` |

`hub_parts` is one run, and checks the types of all its parts as `PartsTypeOK`.

The violations are disagreements of the code with its documentation; `findings` quotes both sides.
Eleven findings have no run, because no action can show them or because the property is stated with
the exception they make: the REST write without a version (`routes/realtime.py:45`), an old
`ASSISTANT_STATUS` written behind the snapshot of a new registration (`mapEvents.ts:51`), the status clients
show after a tool event (`mapEvents.ts:144`), the one slot of several agents (`gateway.py:82`), a login
refused late that removes a newer token (`main.dart:160`), the label "null"
(`applyStateChanges.ts:24`), a silenced test that stays silent after the window
(`anti_loop.py:28`), retries nobody counts (`anti_loop.py:49`), a code consumed twice by two threads
(`sqlite_store.py:254`), the fixed session of the discovery record (`hub/routes.py:34`) and patterns
that "apri" never reaches (`natural_language_parser.py:49`).

Why the bounds are enough for what they are used for. *Tool execution*: three calls are the first
number at which a caller can join a future, another time out and a third retry; two connections give
"old and new"; a third adds only repetitions of the same pair. *Presence*: the stale-handler races
need two connections of one agent, the slot races a second agent, hence three. *Session sync*: one
update can be overtaken with one write; a gap, or a reordering of two saves, needs two. With two
connections either both devices are connected, or one has an old and a new connection. The demo seed
and the REST write are in `session_recovery` only; the REST write changes the context without a
version, so `ContextAtVersion` is not claimed with it (`routes/realtime.py:45`), while that it holds
with seeding devices is proved for all of them (`ContextsFollowVersions`). *Natural language*: two
devices are the first number at which one's search can come between another's resolution and answer;
three messages are a search, a follow-up on it and what the other device does in between: a search, a
command or a status of its own. The texts are one of each branch: search, command by id, text of two
patterns, ordinal, detail of an ordinal, bare detail, detail by name; the lists are none, one hit and
two orders of two. *Pairing*: two requests are needed for a code consumed twice and for an answer read
after a newer one; a code shown again after its use needs two starts. *Scanner*: a report read late
needs two connections, a report that is too large a limit of one with two phones. *Diagnostics*: the
clock runs past a window of 1 after two repeats, so that old times are dropped and counted again.
*Launcher*: the second launch is the one that finds the lock taken, the agent of a killed hub alive,
or the port still served. *Store*: two users, devices and sessions are needed to confuse one with
another's. `CHECK_DEADLOCK FALSE` everywhere: connections, calls, messages and writes are bounded, so
every instance comes to rest.

### Fairness

* Hub: weak fairness on each handler's continuation and on `RunSend`: an asyncio loop runs what is
  ready. In `ToolExecution`, also on the timer of `wait_for` (part of `Await`). Nothing is assumed
  of agents or the network there, so `EveryCallEnds` holds with an agent that never answers.
* Agent (`AgentPresence`): its own loop runs, a connection attempt succeeds or fails (`open_timeout`
  of the library). No fairness on `Break`, `Shutdown`, `ClosedOk`, `Beat`.
* Clients: they read what has arrived and React renders; a handler reads the end of a dead
  connection (`~up /\ HubEnd`), as the ping timeout of the server guarantees. Nothing makes a client
  reconnect.
* Chat: a handler's next step is taken (`Proceed(d)`): the event loop resumes it, `wait_for` ends the
  tool call, the router answers or falls back. Nobody has to write, and which way a call ends is free.
* Scanner: its timer fires (`Scan`), the agent's `finally` runs (`Disconnect`), the hub's handlers read
  and save. No fairness on plugging, on connections or on the hub's restart: `ListSettles` says what
  holds while the agent is connected for good.
* Launcher: the steps of `main` that wait for nothing, or for a bounded time (`Proceed(p)`). No
  fairness on launching, closing, kills, or other programs.
* In `hub_parts` the same conditions; those of `AgentPresence` are for its own part only, because its
  agent would start to connect in the initial states of the others.

## 5. Proofs

| Module | Theorems | Argument |
|---|---|---|
| `ToolExecutionProofs` | `Invariance`, `TypeCorrect`, `NoLostWakeup`, `OneAnswer`, `OneBroadcast`, `SuccessIsLast`, `StoredHasRun`, `Refinement` | see below |
| `AgentPresenceProofs` | `TypeCorrect`, `SlotFollowsRegistry`, `NoDanglingRegistration` | the three invariants with the fact that connections in use have owners and links are connections |
| `SessionSyncProofs` | `Durability`, `AckedSurvives`, `SyncTypeCorrect`, `VersionsRise`, `ContextsFollowVersions` | see below |
| `SessionQuietProofs` | `QuietClientsAgree` | see below |
| `NaturalLanguageProofs` | `NLTypeCorrect`, `FollowUpsCountOnWhatIsShown`, `SelectionStaysCoherent`, `AnswersNameTheirProduct`, `FollowUpsFetchWhatWasShown`, `StatusFollowsStage` | see below |
| `PairingProofs` | `PairingTypeCorrect`, `CodePairsOneClient`, `SavedTokenIsCurrent`, `RefusedTriesNoMore` | see below |
| `PartsProofs` | diagnostics: `DiagnosticsTypeCorrect`, `NoLoopHolds`, `CompletedStaysAway` | see below |
| | launcher: `HubTypeCorrect`, `OneHubAtATime`, `AgentsEndWithTheirHub` | mutual exclusion: who is past the lock holds it |
| | scanner and store: `ScannerTypeCorrect`, `ListStaysLastSeen`, `StoreTypeCorrect`, `UsersResumeTheirSession` | see below |
| `HubPartsProofs` | `PartsAreTheirOwn`, `PartsTypeCorrect`, `PartsKeepTheirPromises` | a step of the composition is a step of one part and a stutter of the others |

Assumptions are the named `ASSUME`s of the modules: `None` is no call, result, agent, device or
launch, the bounds are numbers, the devices of a session are finitely many (the hub broadcasts to each
of them), seeders are devices, requests are of the kinds the code has, texts and search results are of
their type, codes and requests are finite sets (they are counted), a test may be recommended at least
once. The theorems hold for any number of calls, requests, agents, devices, connections, writes,
messages, phones, tests, launches and restarts.

*Tool execution.* `WaiterIsReachable` is not inductive: that a pending entry leads to an open future
needs that a future is registered under one request only and that everybody who has it asked for
that request (`StoreInv`); what a caller returns is the stored result because a resolved future has
the stored value and a stored result never changes. A broadcast is at most one because a handler
holds a result to publish only when it was the first of its request (`PublishInv`). `ResultsHaveRuns`
and `RunsAreOrdered` say the same for results still in channels or in the dispatcher's cache. The
refinement maps each action to a step of `ToolService` or a stutter.

*Presence.* A handler that holds a registration is between `HubRegister` and its `finally`, because
`agent_websocket` records whom it registered in the same step that ends `announcing`.

*Session durability.* `AckedIsDurable` alone is not inductive. Handlers come back from their
broadcasts in an order of their own and each saves the session *as it then is*. `Durable` adds: the
memory is at least as new as the disk, field by field; what a handler has still to save is in
memory; what it has saved and not yet acknowledged is on disk; stamps do not exceed the clock. A save
then covers every write before it, whoever made it.

*Session versions and contexts.* `VersionNeverFalls` needs to know what can overtake what
(`VersionInv`): on every connection a snapshot is no older than the versioned messages before it,
nothing on a live connection is newer than the session, a task that waits on the event loop is no
newer than it either and sends no snapshot, and the snapshots a client has still to read are no
older than what it shows. `ContextAtVersion` needs every message to be true of the history
(`ContextInv`): a snapshot shows the context of its version, an update carries what distinguishes
its version from the one before, and an event without a version touches no field of the context; a
client that takes a version from a rejection, or passes over an update, has `jumped` and is
excepted. The demo seed is no exception: it takes a version, and the history has it. The one
hypothesis of the theorem is that no REST write overwrites the context (`"rest" \notin Requests`).

*Agreement at rest.* `QuietAgreement` speaks of the moment when nothing is on its way; its invariant
must speak of every other. For a registered device the messages for it are a line: those on its
connection, then the sends that wait in the event loop, in the order in which it will read them. A
message is *wrong* about a field if it would leave the client with another value than the session's,
*right* if it would leave it with that one; an update that the client will drop for its version is no
longer wrong (`Passed`), which is what makes a snapshot that overtakes updates harmless. `FieldInv`
says of each field not `silent` that there is a right message behind every wrong one of the line and
that the client shows the value or a right message comes (`Arrives`), or that a handler has still to
echo the field (`Echo`): the legacy events carry an old status past a newer update, and the echo of
the newest status comes last. `ChatInv` is the same for chat messages, where only a snapshot without
the message is wrong. To keep these, three facts about the loop are needed. `TurnInv`: a suspended
handler is in the queue exactly once or has the turn, and one that goes on from its broadcast without
waiting had nobody to send to. `OwnInv`: connections, handlers and registrations belong to one
another, and a registered client that has no snapshot finds one at the head of its line. `LaneInv`:
the updates of a line are in the order of their versions, no unversioned event touches the context,
and what an update says is in every snapshot, and in every client, that is past its version. That
`silent` must be a set per device, and must keep the fields of which an older announcement is still to
be delivered behind a new snapshot, came out of this proof: with one set for all devices the invariant
is not inductive, and TLC then found the behaviour of the finding at `mapEvents.ts:51` on an instance
with one device, four connections and two writes. All parts of the invariant were checked with TLC
before they were proved.

*Natural language.* That the context is the list shown last holds because a search writes both in one
step (`Shown`). That an answer names its product needs a fact about the call that is still out
(`Fetching`): the product it fetches is the item it resolved, of a list that some message showed; the
answer looks that item up in the context of now, and `moved` says whether it is another list. The
status follows the message that wrote it last (`writer`): every step that writes the status also takes
the writer to the stage it stands for, and a writer's step to another stage writes it again. A status
that has no writer (a client's own, a restored one, one that an exception left) is claimed to be
nothing, and `StatusSettles` says no more of it either.

*Pairing.* For the codes one counts (`CodeInv`): tokens made, requests that consumed a code and have
yet to save, and codes that can still be consumed are together at most the codes shown plus those
consumed twice. For the tokens (`AnsweredIsRow`): the one answer under way to a phone that lost none
carries the token of its row. For refusals: a request can open a session page only if the pairing page
that posted it is shown (`HereIsPairing`), and then there is no web client to be refused. The login may
open one too, at a time when a pairing has: its token is older than that of the page's row
(`ProbeIsOlder`), so the hub would not have accepted it.

*Diagnostics.* `NoLoop` speaks of all recommendations and the code keeps only some. `KeptAreLast` says
which: the history is the end of the list, in order, and what was dropped before it is further back
than the window. A recommendation that is recorded finds fewer than `MaxRepeats` kept, so the one
`MaxRepeats` before it was dropped.

*The composition.* `MCHubParts` moves one part at a time. Every behaviour of it is therefore one of
each part's specification (`PartsAreTheirOwn`), and the theorems of the parts hold of it with no new
invariant, for any values of the constants; only the agent's part is an instance with bounds of its
own, and its invariant is carried over step by step.

*Device scanner and store.* `LastIsSeen`: the last report on the wire of the current connection, or the
hub's list when there is none, is what the scanner reported last, unless it was too large or
overtaken. `JoinsKept`: each participant's join was completed, was cut short or is under way, and a
completed one has a context, so the active sessions of a user are those that were joined.

Every invariant and action property of a passing run is stated by a theorem. Only model-checked:
liveness (`EveryCallEnds`, `StoredIsPublished`, `DeadIsForgotten`, `ConnectingSettles`,
`UpdateArrives`, `StatusSettles`, `ListSettles`, `AnnouncedIsServed`), which rests on fairness and is
outside the prover.

## 6. Not modelled

Of the modelled parts: the participants list and heartbeat events of clients, `AGENT_TEST` (no state),
the event log and its subscribers, more than one session (sessions share only the maps they are keyed
in), delays of reconnections, the exemption of the PC's own window from pairing, evidence items of
tests (appended and never read), the table of users (written and never read by the resume). Of the
launcher: the choice of the LAN address, autostart entries, static files. Of the text recognition: the
characters of the patterns and the wording of answers, for which a text is the set of patterns it
matches; the second parser and the conversation engine, which only tests use.

Out of reach or without state of their own: the AI router (text generation), photo files, the calls
of the Windows launcher and of the Alpilab Check HTTP bridge (a tool handler is a run that succeeds or
fails), the web user interface's components and the widgets of the mobile app.
