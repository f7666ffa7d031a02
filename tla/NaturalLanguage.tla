--------------------------- MODULE NaturalLanguage ---------------------------
(***************************************************************************)
(* The chat commands of one repair session                                 *)
(* (src/app/conversation/natural_language_service.py and what it calls).   *)
(*                                                                         *)
(* Every client device has a handler that takes its messages one by one;   *)
(* the handlers of different devices interleave at each await, and share   *)
(* the assistant status, the chat and the product search context of the    *)
(* session.  One action is the code between two awaits.  A client may also *)
(* set the status itself, and the hub may crash and start again.           *)
(*                                                                         *)
(* A text is what the regular expressions recognise in it.  The outcome of *)
(* a tool call is chosen freely: ToolExecution models the call itself.     *)
(***************************************************************************)
EXTENDS Naturals, Sequences, FiniteSets

CONSTANTS
    Devices,     \* the client devices of the session
    Products,    \* the products of the catalogue
    NoProduct,   \* "no product id"
    Texts,       \* what users may write
    Lists,       \* what a product search may find: sequences of products
    Abilities,   \* what the agent may be able to do: sets of capabilities
    Sent,        \* the statuses that clients send by themselves
    NoOne,       \* no device
    MaxMessages, \* bound: messages sent in a behaviour
    MaxRestarts  \* bound: restarts of the hub

\* The patterns of the command parser, in the order it tries them.
Patterns == <<"forbidden", "close", "open_ambiguous", "open_unsupported", "open_3utools",
              "open_unknown", "search_products", "get_product", "search_invoices",
              "get_invoice">>

Text == [says : SUBSET {Patterns[i] : i \in DOMAIN Patterns},
         wanted : Products \cup {NoProduct},  \* the id after "prodotto"
         general : BOOLEAN,                   \* a topic that is never a follow-up
         number : Nat, ordinal : Nat,         \* "2", "il secondo"; 0 when absent
         phrase : BOOLEAN,                    \* "del ...", "per ..."
         names : SUBSET Products,             \* the products the words fit
         detail : BOOLEAN,                    \* asks for a price, a part, a service
         cue : BOOLEAN,                       \* "e ...", "la ...", "quello trovato"
         hint : BOOLEAN, short : BOOLEAN]     \* "intendo ..."; 40 characters or less

AssistantStatus == {"IDLE", "LISTENING", "THINKING", "WORKING", "SPEAKING", "ERROR"}

ASSUME NLAssumption ==
    /\ Texts \subseteq Text
    /\ Lists \subseteq Seq(Products)
    /\ NoProduct \notin Products
    /\ Abilities \subseteq SUBSET {"windows_apps", "alpilab_check"}
    /\ Sent \subseteq AssistantStatus
    /\ NoOne \notin Devices
    /\ MaxMessages \in Nat /\ MaxRestarts \in Nat

VARIABLES
    status,   \* the session's assistant_status
    ctx,      \* the session's product_search_context
    chat,     \* the assistant's messages, oldest first
    h,        \* the handler of each device
    agent,    \* the capabilities of the online agent; {} also when none is online
    asked,    \* how many messages the devices sent
    restarts, \* how often the hub was restarted
    writer    \* ghost: the device whose chat message wrote the status last; NoOne
              \* when a client's own message did, a restart brought the status back
              \* or an exception ended the message that wrote it

vars == <<status, ctx, chat, h, agent, asked, restarts, writer>>

-----------------------------------------------------------------------------
(* Parsing and authorization *)

\* The first pattern that matches; text with none is conversation.
Parse(t) ==
    LET hits == {i \in DOMAIN Patterns : Patterns[i] \in t.says}
    IN  IF hits = {} THEN "conversation"
        ELSE Patterns[CHOOSE i \in hits : \A j \in hits : i <= j]

Tools == {"open_3utools", "search_products", "get_product", "search_invoices", "get_invoice"}

Requires(tool) == {IF tool = "open_3utools" THEN "windows_apps" ELSE "alpilab_check"}

Risk(tool) == IF tool = "open_3utools" THEN "CONFIRM_REQUIRED" ELSE "READ_ONLY"

\* READ_ONLY tools run by themselves; so do, until the UI can confirm, the
\* tools that open a Windows application.
AutoExecutable(tool) ==
    \/ Risk(tool) \in {"READ_ONLY", "SAFE"}
    \/ tool = "open_3utools" /\ Risk(tool) = "CONFIRM_REQUIRED"

Authorized(tool) == AutoExecutable(tool) /\ Requires(tool) \subseteq agent

-----------------------------------------------------------------------------
(* The product search context and the follow-ups on it *)

NoContext == [items |-> <<>>, awaiting |-> FALSE, selected |-> 0, id |-> NoProduct]

\* Mutant: a search without results keeps the context of the one before.
ContextKept(list) ==
    IF list = <<>> THEN ctx
    ELSE [items |-> list, awaiting |-> Len(list) > 1,
          selected |-> IF Len(list) > 1 THEN 0 ELSE 1,
          id |-> IF Len(list) > 1 THEN NoProduct ELSE list[1]]

Context(list) ==
    IF list = <<>> THEN NoContext
    ELSE IF Len(list) > 1
    THEN [items |-> list, awaiting |-> TRUE, selected |-> 0, id |-> NoProduct]
    ELSE [items |-> list, awaiting |-> FALSE, selected |-> 1, id |-> list[1]]

\* Mutants: an index off by one, and a selection that forgets the product id.
MarkOffByOne(c, i) == [c EXCEPT !.selected = i + 1, !.id = c.items[i], !.awaiting = FALSE]
MarkIndexOnly(c, i) == [c EXCEPT !.selected = i, !.awaiting = FALSE]

MarkSelected(c, i) == [c EXCEPT !.selected = i, !.id = c.items[i], !.awaiting = FALSE]

LooksLikeFollowup(t, c) ==
    \/ t.number > 0 \/ t.ordinal > 0 \/ t.cue \/ t.detail
    \/ c.awaiting /\ (t.hint \/ t.short)
    \/ c.selected > 0 /\ t.short

\* A sentence that asks for a detail is not tried as a name when the item
\* it is about is already known.
Matches(t, c) ==
    IF ~t.phrase /\ t.detail /\ (t.ordinal > 0 \/ t.number > 0 \/ c.selected > 0)
    THEN {} ELSE {i \in DOMAIN c.items : c.items[i] \in t.names}

\* The item a follow-up is about; 0 when the user has to be asked.
ItemMeant(t, c) ==
    LET m == Matches(t, c)
    IN  CASE t.number > 0 -> t.number
          [] t.number = 0 /\ t.ordinal > 0 -> t.ordinal
          [] t.number = 0 /\ t.ordinal = 0 ->
               IF Cardinality(m) = 1 THEN CHOOSE i \in m : TRUE
               ELSE IF m # {} \/ ((t.phrase \/ c.awaiting) /\ ~t.detail) THEN 0
               ELSE IF c.selected > 0 THEN c.selected
               ELSE IF Len(c.items) = 1 THEN 1 ELSE 0

\* What resolve_product_followup makes of a text.
Resolve(t, c) ==
    LET i == ItemMeant(t, c)
    IN  IF c.items = <<>> \/ t.general \/ ~LooksLikeFollowup(t, c)
        THEN [outcome |-> "no_match", item |-> 0]
        ELSE IF i \notin DOMAIN c.items THEN [outcome |-> "clarification", item |-> 0]
        ELSE [outcome |-> IF t.detail THEN "action" ELSE "selection", item |-> i]

-----------------------------------------------------------------------------
(* The handler of a device *)

Idle == [pc |-> "idle", tool |-> "none", product |-> NoProduct, item |-> 0, list |-> <<>>]

Message(kind) == [kind |-> kind, items |-> <<>>, product |-> NoProduct,
                  label |-> NoProduct, moved |-> FALSE]

Say(m) == chat' = Append(chat, m)

Goto(d, pc) == h' = [h EXCEPT ![d].pc = pc]

\* _dispatch_tool_intent up to its first await: the tool, the agent and the
\* authorization, then WORKING or the answer that refuses.
Dispatch(d, tool, product, item) ==
    \/ /\ Authorized(tool)
       /\ status' = "WORKING" /\ writer' = d
       /\ h' = [h EXCEPT ![d] = [pc |-> "working", tool |-> tool, product |-> product,
                                 item |-> item, list |-> ctx.items]]
       /\ UNCHANGED chat
    \/ /\ ~Authorized(tool)
       /\ Say(Message("error"))
       /\ Goto(d, "fail")
       /\ UNCHANGED <<status, writer>>

\* A text that is no command may be a follow-up on the products found before;
\* the item it selects is marked at once, before anything is awaited.
FollowUp(d, t) ==
    LET r == Resolve(t, ctx)
    IN  /\ ctx' = IF r.item = 0 THEN ctx ELSE MarkSelected(ctx, r.item)
        /\ CASE r.outcome = "action" ->
                  Dispatch(d, "get_product", ctx.items[r.item], r.item)
             [] r.outcome \in {"selection", "clarification"} ->
                  Say(Message(r.outcome)) /\ Goto(d, "finish") /\ UNCHANGED <<status, writer>>
             [] r.outcome = "no_match" ->
                  status' = "THINKING" /\ writer' = d /\ Goto(d, "ai") /\ UNCHANGED chat

\* The user's message is in the chat: what handle_user_message makes of it.
Understand(d, t) ==
    LET p == Parse(t)
    IN  /\ h[d].pc = "idle" /\ asked < MaxMessages
        /\ asked' = asked + 1
        /\ IF p = "conversation" THEN FollowUp(d, t)
           ELSE /\ status' = "THINKING" /\ writer' = d
                /\ h' = [h EXCEPT ![d] = [Idle EXCEPT !.pc = "think", !.tool = p,
                            !.product = IF p = "get_product" THEN t.wanted ELSE NoProduct]]
                /\ UNCHANGED <<ctx, chat>>
        /\ UNCHANGED <<agent, restarts>>

\* handle_client_message with an assistant_status message: the session's
\* status is what the client says, whatever is being handled.
SetStatus(d, s) ==
    /\ h[d].pc = "idle" /\ asked < MaxMessages
    /\ asked' = asked + 1
    /\ status' = s
    /\ writer' = NoOne
    /\ UNCHANGED <<ctx, chat, h, agent, restarts>>

\* After THINKING: the command is dispatched, or the text is rejected.
Think(d) ==
    /\ h[d].pc = "think"
    /\ IF h[d].tool \in Tools THEN Dispatch(d, h[d].tool, h[d].product, 0)
       ELSE Say(Message("rejected")) /\ Goto(d, "finish") /\ UNCHANGED <<status, writer>>
    /\ UNCHANGED <<ctx, agent, asked, restarts>>

\* After THINKING: the reply of the AI router.
Converse(d) ==
    /\ h[d].pc = "ai"
    /\ Say(Message("ai"))
    /\ Goto(d, "speak")
    /\ UNCHANGED <<status, ctx, agent, asked, restarts, writer>>

\* Mutant: the product selected now, which another device may have changed.
LabelOfSelected(d) == IF h[d].item = 0 THEN NoProduct ELSE ctx.id

\* The product named in the answer to a follow-up: the item at the index
\* that was resolved before the call, of the context there is after it.
Label(d) == IF h[d].item \in DOMAIN ctx.items THEN ctx.items[h[d].item] ELSE NoProduct

\* Mutant: a single hit is asked about without being shown.
AnswerUnlisted(d, list) ==
    IF h[d].tool = "search_products"
    THEN [Message("list") EXCEPT !.items = IF Len(list) > 1 THEN list ELSE <<>>]
    ELSE [Message(h[d].tool) EXCEPT !.product = h[d].product]

\* The answer of a successful tool: what a search found, or what was asked
\* about, with the label of the product.
Answer(d, list) ==
    IF h[d].tool = "search_products" THEN [Message("list") EXCEPT !.items = list]
    ELSE [Message(h[d].tool) EXCEPT !.product = h[d].product, !.label = Label(d),
                                    !.moved = ctx.items # h[d].list]

\* The tool succeeded: a search replaces the context; then the answer.
Succeed(d, list) ==
    /\ h[d].pc = "working"
    /\ ctx' = IF h[d].tool = "search_products" THEN Context(list) ELSE ctx
    /\ Say(Answer(d, list))
    /\ Goto(d, "speak")
    /\ UNCHANGED <<status, agent, asked, restarts, writer>>

\* The tool failed, or the call raised a ToolExecutionError.
Fail(d) ==
    /\ h[d].pc = "working"
    /\ Say(Message("error"))
    /\ Goto(d, "fail")
    /\ UNCHANGED <<status, ctx, agent, asked, restarts, writer>>

\* The send to the agent raised anything else (gateway.py:175): nobody catches
\* it, the device's handler ends and the device connects again.
Raise(d) ==
    /\ h[d].pc = "working"
    /\ h' = [h EXCEPT ![d] = Idle]
    /\ writer' = IF writer = d THEN NoOne ELSE writer
    /\ UNCHANGED <<status, ctx, chat, agent, asked, restarts>>

\* After the answer: SPEAKING.
Speak(d) ==
    /\ h[d].pc = "speak"
    /\ status' = "SPEAKING" /\ writer' = d
    /\ Goto(d, "finish")
    /\ UNCHANGED <<ctx, chat, agent, asked, restarts>>

\* Mutants: the end of a message leaves the status as it is, or never comes.
SettleSilently(d) ==
    /\ h[d].pc \in {"finish", "fail"}
    /\ h' = [h EXCEPT ![d] = Idle]
    /\ UNCHANGED <<status, ctx, chat, agent, asked, restarts, writer>>
SettleFailures(d) ==
    /\ h[d].pc = "fail"
    /\ status' = "ERROR" /\ writer' = d
    /\ h' = [h EXCEPT ![d] = Idle]
    /\ UNCHANGED <<ctx, chat, agent, asked, restarts>>

\* The last step of a message: IDLE, or ERROR when it could not be done.
Settle(d) ==
    /\ h[d].pc \in {"finish", "fail"}
    /\ status' = IF h[d].pc = "fail" THEN "ERROR" ELSE "IDLE"
    /\ writer' = d
    /\ h' = [h EXCEPT ![d] = Idle]
    /\ UNCHANGED <<ctx, chat, agent, asked, restarts>>

\* The agent goes, comes, or comes back with other capabilities.
AgentChanges ==
    /\ agent' \in Abilities
    /\ UNCHANGED <<status, ctx, chat, h, asked, restarts, writer>>

\* The hub crashes and starts again: the handlers and the product search
\* context are gone; the chat and the status are those saved last, which
\* SessionSync models: here any earlier chat and any status.
HubRestart ==
    /\ restarts < MaxRestarts
    /\ restarts' = restarts + 1
    /\ \E n \in 0..Len(chat) : chat' = SubSeq(chat, 1, n)
    /\ status' \in AssistantStatus
    /\ ctx' = NoContext
    /\ h' = [d \in Devices |-> Idle]
    /\ writer' = NoOne
    /\ UNCHANGED <<agent, asked>>

Init ==
    /\ status = "IDLE"
    /\ ctx = NoContext
    /\ chat = <<>>
    /\ h = [d \in Devices |-> Idle]
    /\ agent \in Abilities
    /\ asked = 0
    /\ restarts = 0
    /\ writer = NoOne

\* Steps the event loop, the tool's timeout and the router always complete.
Proceed(d) ==
    \/ Think(d) \/ Converse(d) \/ Fail(d) \/ Raise(d) \/ Speak(d) \/ Settle(d)
    \/ \E list \in Lists : Succeed(d, list)

Next ==
    \/ \E d \in Devices : \/ Proceed(d)
                          \/ \E t \in Texts : Understand(d, t)
                          \/ \E s \in Sent : SetStatus(d, s)
    \/ AgentChanges \/ HubRestart

Spec == Init /\ [][Next]_vars /\ \A d \in Devices : WF_vars(Proceed(d))

-----------------------------------------------------------------------------
(* Properties *)

\* The type of the state.
TypeOK ==
    /\ status \in AssistantStatus
    /\ ctx \in [items : Seq(Products), awaiting : BOOLEAN, selected : Nat,
                id : Products \cup {NoProduct}]
    /\ ctx.selected \in {0} \cup DOMAIN ctx.items
    /\ chat \in Seq([kind : {"error", "selection", "clarification", "rejected", "ai", "list"}
                            \cup Tools,
                     items : Seq(Products), product : Products \cup {NoProduct},
                     label : Products \cup {NoProduct}, moved : BOOLEAN])
    /\ h \in [Devices ->
                [pc : {"idle", "think", "ai", "working", "speak", "finish", "fail"},
                 tool : {"none"} \cup {Patterns[i] : i \in DOMAIN Patterns},
                 product : Products \cup {NoProduct}, item : Nat, list : Seq(Products)]]
    /\ agent \in Abilities
    /\ asked \in Nat /\ restarts \in Nat
    /\ writer \in Devices \cup {NoOne}

\* The context of follow-ups is the list the chat showed last, however the
\* searches and follow-ups of the devices interleave: "the second one" is
\* counted on the list a user can see.  A restart of the hub brings the chat
\* back without the context, and then there is none until the next search.
ContextIsLastShown ==
    /\ \A i \in DOMAIN chat :
          /\ chat[i].kind = "list"
          /\ \A j \in DOMAIN chat : j > i => chat[j].kind # "list"
          => ctx.items = chat[i].items \/ (ctx.items = <<>> /\ restarts > 0)
    /\ ctx.items # <<>> => \E i \in DOMAIN chat : chat[i].kind = "list"

\* The context never holds the id of one product with the index of another,
\* and waits for a selection exactly while there is a choice to make.
SelectionCoherent ==
    /\ ctx.id = IF ctx.selected = 0 THEN NoProduct ELSE ctx.items[ctx.selected]
    /\ ctx.awaiting <=> ctx.items # <<>> /\ ctx.selected = 0

\* The answer about a product names the product it describes, unless another
\* device's search replaced the list while the product was being fetched.
AnswerNamesProduct ==
    \A i \in DOMAIN chat :
        ~chat[i].moved => chat[i].label \in {NoProduct, chat[i].product}

\* A follow-up never fetches a product that no search has shown in the chat
\* ("do not invent an id"), though the search that showed it may be an older one.
FollowUpWasShown ==
    \A d \in Devices :
        h[d].pc = "working" /\ h[d].item > 0 =>
            \E i \in DOMAIN chat : \E k \in DOMAIN chat[i].items :
                chat[i].items[k] = h[d].product

\* A status that a chat message wrote last is the stage of that message:
\* THINKING before its command or the AI router is run, WORKING during the
\* tool call, IDLE or ERROR when it is over.  What is left open is a status
\* that another message, a client's own message or a restart wrote since,
\* and one whose message an exception ended.
StatusIsStage ==
    \A d \in Devices : writer = d =>
        /\ h[d].pc \in {"think", "ai"} => status = "THINKING"
        /\ h[d].pc = "working" => status = "WORKING"
        /\ h[d].pc = "idle" => status \in {"IDLE", "ERROR"}

\* The handlers end, so a status that a chat message wrote last comes to rest
\* at IDLE or ERROR.  One that a client sent, a restart brought back or an
\* exception left need not: it stays until the next message.
StatusSettles == <>[](writer # NoOne => status \in {"IDLE", "ERROR"})

=============================================================================
