------------------------ MODULE NaturalLanguageProofs ------------------------
(***************************************************************************)
(* Proofs about NaturalLanguage: for any devices, products, texts, search  *)
(* results and number of messages.                                         *)
(***************************************************************************)
EXTENDS NaturalLanguage, SequenceTheorems, TLAPS

PatternNames == {Patterns[i] : i \in DOMAIN Patterns}

Ctx == [items : Seq(Products), awaiting : BOOLEAN, selected : Nat,
        id : Products \cup {NoProduct}]

Msg == [kind : {"error", "selection", "clarification", "rejected", "ai", "list"} \cup Tools,
        items : Seq(Products), product : Products \cup {NoProduct},
        label : Products \cup {NoProduct}, moved : BOOLEAN]

Handler == [pc : {"idle", "think", "ai", "working", "speak", "finish", "fail"},
            tool : {"none"} \cup PatternNames,
            product : Products \cup {NoProduct}, item : Nat, list : Seq(Products)]

Typed ==
    /\ status \in AssistantStatus
    /\ ctx \in Ctx /\ ctx.selected \in {0} \cup DOMAIN ctx.items
    /\ chat \in Seq(Msg)
    /\ h \in [Devices -> Handler]
    /\ agent \in Abilities
    /\ asked \in Nat /\ restarts \in Nat
    /\ writer \in Devices \cup {NoOne}

LEMMA TypedIs == TypeOK <=> Typed
  BY DEF TypeOK, Typed, Ctx, Msg, Handler, PatternNames

LEMMA TypedIsNext == TypeOK' <=> Typed'
  BY DEF TypeOK, Typed, Ctx, Msg, Handler, PatternNames

-----------------------------------------------------------------------------
(* What the operators make of their arguments *)

LEMMA ToolsArePatterns == Tools \subseteq PatternNames /\ "list" \notin PatternNames
  <1>1. DOMAIN Patterns = 1..10
    BY DEF Patterns
  <1>2. \A i \in 1..10 : Patterns[i] # "list"
    BY DEF Patterns
  <1>3. /\ Patterns[5] = "open_3utools" /\ Patterns[7] = "search_products"
        /\ Patterns[8] = "get_product" /\ Patterns[9] = "search_invoices"
        /\ Patterns[10] = "get_invoice"
    BY DEF Patterns
  <1>4. /\ "open_3utools" \in PatternNames /\ "search_products" \in PatternNames
        /\ "get_product" \in PatternNames /\ "search_invoices" \in PatternNames
        /\ "get_invoice" \in PatternNames
    BY <1>1, <1>3 DEF PatternNames
  <1> QED BY <1>1, <1>2, <1>4 DEF Tools, PatternNames

\* Of the patterns that fit a text there is a first.
LEMMA LeastPattern ==
    ASSUME NEW hits \in SUBSET DOMAIN Patterns, hits # {}
    PROVE  \E i \in hits : \A j \in hits : i <= j
  <1>1. DOMAIN Patterns = 1..10
    BY DEF Patterns
  <1> QED BY <1>1

LEMMA ContextIs ==
    ASSUME NEW list \in Seq(Products)
    PROVE  LET c == Context(list)
           IN  /\ c \in Ctx /\ c.items = list
               /\ c.selected \in {0} \cup DOMAIN list
               /\ c.id = IF c.selected = 0 THEN NoProduct ELSE list[c.selected]
               /\ c.awaiting <=> list # <<>> /\ c.selected = 0
  <1>1. CASE list = <<>>
    BY <1>1 DEF Context, NoContext, Ctx
  <1>2. CASE list # <<>> /\ Len(list) > 1
    BY <1>2 DEF Context, Ctx
  <1>3. CASE list # <<>> /\ ~(Len(list) > 1)
    <2>1. 1 \in DOMAIN list /\ list[1] \in Products
      BY <1>3
    <2> QED BY <1>3, <2>1 DEF Context, Ctx
  <1> QED BY <1>1, <1>2, <1>3

LEMMA MarkIs ==
    ASSUME NEW c \in Ctx, NEW i \in DOMAIN c.items
    PROVE  LET m == MarkSelected(c, i)
           IN  /\ m \in Ctx /\ m.items = c.items /\ m.selected = i
               /\ m.id = c.items[i] /\ ~m.awaiting
  <1>1. i \in Nat /\ c.items[i] \in Products
    BY DEF Ctx
  <1> QED BY <1>1 DEF MarkSelected, Ctx

LEMMA ResolveIs ==
    ASSUME NEW t, NEW c
    PROVE  LET r == Resolve(t, c)
           IN  /\ r.outcome \in {"no_match", "clarification", "action", "selection"}
               /\ r.item = 0 \/ r.item \in DOMAIN c.items
               /\ r.outcome \in {"no_match", "clarification"} => r.item = 0
               /\ r.outcome \in {"action", "selection"} => r.item \in DOMAIN c.items
  BY DEF Resolve

LEMMA MessageIs ==
    ASSUME NEW kind \in {"error", "selection", "clarification", "rejected", "ai", "list"} \cup Tools
    PROVE  /\ Message(kind) \in Msg /\ Message(kind).kind = kind /\ Message(kind).items = <<>>
           /\ Message(kind).label = NoProduct
  BY DEF Message, Msg

LEMMA IdleIs == Idle \in Handler /\ Idle.pc = "idle"
  BY DEF Idle, Handler

LEMMA GoneIs ==
    ASSUME NEW x \in Handler,
           NEW pc \in {"idle", "think", "ai", "working", "speak", "finish", "fail"}
    PROVE  LET m == [x EXCEPT !.pc = pc]
           IN  m \in Handler /\ m.pc = pc
  BY DEF Handler

-----------------------------------------------------------------------------
(* Types *)

LEMMA SayIs ==
    ASSUME chat \in Seq(Msg), NEW m \in Msg, Say(m)
    PROVE  /\ chat' \in Seq(Msg) /\ Len(chat') = Len(chat) + 1
           /\ DOMAIN chat = 1..Len(chat) /\ DOMAIN chat' = 1..(Len(chat) + 1)
           /\ Len(chat) \in Nat
           /\ chat'[Len(chat) + 1] = m
           /\ \A i \in DOMAIN chat : chat'[i] = chat[i]
  BY AppendProperties DEF Say

LEMMA AnswerIs ==
    ASSUME Typed, NEW d \in Devices, NEW list \in Seq(Products), h[d].tool \in Tools
    PROVE  LET m == Answer(d, list)
           IN  /\ m \in Msg
               /\ h[d].tool = "search_products" =>
                      m.kind = "list" /\ m.items = list /\ m.label = NoProduct
               /\ h[d].tool # "search_products" =>
                      /\ m.kind \in Tools /\ m.product = h[d].product /\ m.label = Label(d)
                      /\ m.moved = (ctx.items # h[d].list)
  <1>1. h[d] \in Handler /\ ctx \in Ctx
    BY DEF Typed
  <1>2. Label(d) \in Products \cup {NoProduct}
    BY <1>1 DEF Label, Ctx
  <1>3. CASE h[d].tool = "search_products"
    BY <1>3 DEF Answer, Message, Msg
  <1>4. CASE h[d].tool # "search_products"
    <2>1. h[d].product \in Products \cup {NoProduct}
      BY <1>1 DEF Handler
    <2> DEFINE base == Message(h[d].tool)
               p == h[d].product
               l == Label(d)
               moved == ctx.items # h[d].list
    <2>2. base \in Msg /\ base.kind \in Tools
      BY MessageIs
    <2>3. Answer(d, list) = [base EXCEPT !.product = p, !.label = l, !.moved = moved]
      BY <1>4 DEF Answer
    <2>4. p \in Products \cup {NoProduct} /\ l \in Products \cup {NoProduct} /\ moved \in BOOLEAN
      BY <1>2, <2>1
    <2> HIDE DEF base, p, l, moved
    <2>5. LET m == Answer(d, list)
          IN  m \in Msg /\ m.kind \in Tools /\ m.product = p /\ m.label = l /\ m.moved = moved
      BY <2>2, <2>3, <2>4 DEF Msg
    <2> QED BY <1>4, <2>5 DEF p, l, moved
  <1> QED BY <1>3, <1>4

\* The tool of a call is a tool of the agent.
WorkingOnTool == \A d \in Devices : h[d].pc = "working" => h[d].tool \in Tools

\* A handler that goes on keeps what it is about.
LEMMA GotoIs ==
    ASSUME Typed, NEW d \in Devices,
           NEW pc \in {"idle", "think", "ai", "working", "speak", "finish", "fail"}, Goto(d, pc)
    PROVE  h'[d].pc = pc /\ h' \in [Devices -> Handler] /\ \A e \in Devices \ {d} : h'[e] = h[e]
  <1>1. h[d] \in Handler
    BY DEF Typed
  <1>2. [h[d] EXCEPT !.pc = pc] \in Handler /\ [h[d] EXCEPT !.pc = pc].pc = pc
    BY <1>1, GoneIs
  <1>3. h' = [h EXCEPT ![d] = [h[d] EXCEPT !.pc = pc]]
    BY DEF Goto
  <1> QED BY <1>2, <1>3 DEF Typed

\* A call is sent, or refused with an answer in the chat.
LEMMA DispatchIs ==
    ASSUME Typed, NEW d \in Devices, NEW tool \in Tools, NEW product \in Products \cup {NoProduct},
           NEW item \in Nat, Dispatch(d, tool, product, item)
    PROVE  /\ h' \in [Devices -> Handler] /\ \A e \in Devices \ {d} : h'[e] = h[e]
           /\ \/ /\ h'[d].pc = "working" /\ h'[d].tool = tool /\ h'[d].product = product
                 /\ h'[d].item = item /\ h'[d].list = ctx.items
                 /\ chat' = chat /\ status' = "WORKING" /\ writer' = d
              \/ /\ h'[d].pc = "fail" /\ status' = status /\ writer' = writer
                 /\ Say(Message("error"))
  <1>1. CASE Authorized(tool)
    <2> DEFINE x == [pc |-> "working", tool |-> tool, product |-> product,
                     item |-> item, list |-> ctx.items]
    <2>1. tool \in PatternNames /\ ctx.items \in Seq(Products)
      BY ToolsArePatterns DEF Typed, Ctx
    <2>2. /\ x \in Handler /\ x.pc = "working" /\ x.tool = tool /\ x.product = product
          /\ x.item = item /\ x.list = ctx.items
      BY <2>1 DEF Handler
    <2>3. h' = [h EXCEPT ![d] = x] /\ chat' = chat /\ status' = "WORKING" /\ writer' = d
      BY <1>1 DEF Dispatch
    <2> HIDE DEF x
    <2> QED BY <2>2, <2>3 DEF Typed
  <1>2. CASE ~Authorized(tool)
    <2>1. Goto(d, "fail") /\ status' = status /\ writer' = writer /\ Say(Message("error"))
      BY <1>2 DEF Dispatch
    <2> QED BY <2>1, GotoIs
  <1> QED BY <1>1, <1>2

\* A text that is no command.
LEMMA FollowUpIs ==
    ASSUME Typed, NEW d \in Devices, NEW t \in Texts, FollowUp(d, t)
    PROVE  /\ h' \in [Devices -> Handler] /\ \A e \in Devices \ {d} : h'[e] = h[e]
           /\ h'[d].pc # "idle"
           /\ ctx' = ctx \/ \E i \in DOMAIN ctx.items : ctx' = MarkSelected(ctx, i)
           /\ \/ /\ h'[d].pc = "working" /\ h'[d].tool = "get_product"
                 /\ h'[d].item \in DOMAIN ctx.items /\ h'[d].product = ctx.items[h'[d].item]
                 /\ h'[d].list = ctx.items /\ chat' = chat /\ status' = "WORKING" /\ writer' = d
              \/ h'[d].pc = "ai" /\ chat' = chat /\ status' = "THINKING" /\ writer' = d
              \/ /\ h'[d].pc \in {"fail", "finish"} /\ status' = status /\ writer' = writer
                 /\ \E kind \in {"error", "selection", "clarification"} : Say(Message(kind))
  <1> DEFINE r == Resolve(t, ctx)
  <1>1. /\ r.outcome \in {"no_match", "clarification", "action", "selection"}
        /\ r.item = 0 \/ r.item \in DOMAIN ctx.items
        /\ r.outcome = "action" => r.item \in DOMAIN ctx.items
    BY ResolveIs
  <1>2. ctx' = IF r.item = 0 THEN ctx ELSE MarkSelected(ctx, r.item)
    BY DEF FollowUp
  <1>3. /\ r.outcome = "action" => Dispatch(d, "get_product", ctx.items[r.item], r.item)
        /\ r.outcome \in {"selection", "clarification"} =>
              Say(Message(r.outcome)) /\ Goto(d, "finish") /\ UNCHANGED <<status, writer>>
        /\ r.outcome = "no_match" =>
              status' = "THINKING" /\ writer' = d /\ Goto(d, "ai") /\ UNCHANGED chat
    BY DEF FollowUp
  <1> HIDE DEF r
  <1>4. ctx' = ctx \/ \E i \in DOMAIN ctx.items : ctx' = MarkSelected(ctx, i)
    BY <1>1, <1>2
  <1>5. CASE r.outcome = "action"
    <2>1. /\ r.item \in Nat /\ ctx.items[r.item] \in Products
          /\ "get_product" \in Tools
      BY <1>1, <1>5 DEF Typed, Ctx, Tools
    <2>2. Dispatch(d, "get_product", ctx.items[r.item], r.item)
      BY <1>3, <1>5
    <2> QED BY <1>1, <1>4, <1>5, <2>1, <2>2, DispatchIs
  <1>6. CASE r.outcome \in {"selection", "clarification"}
    BY <1>3, <1>4, <1>6, GotoIs
  <1>7. CASE r.outcome = "no_match"
    BY <1>3, <1>4, <1>7, GotoIs
  <1> QED BY <1>1, <1>5, <1>6, <1>7

-----------------------------------------------------------------------------
(* What a step does to the context, the chat and the handlers. *)

Remembers == ctx' = ctx \/ \E i \in DOMAIN ctx.items : ctx' = MarkSelected(ctx, i)

\* The answer says nothing of a product, or is that of a device's call.
NamesProduct(m) ==
    \/ m.label = NoProduct
    \/ \E d \in Devices : /\ h[d].pc = "working" /\ m.product = h[d].product /\ m.label = Label(d)
                          /\ m.moved = (ctx.items # h[d].list)

ChatStep ==
    /\ restarts' = restarts
    /\ \/ chat' = chat /\ Remembers
       \/ \E m \in Msg : Say(m) /\ m.kind # "list" /\ NamesProduct(m) /\ Remembers
       \/ \E list \in Lists, m \in Msg :
             /\ Say(m) /\ m.kind = "list" /\ m.items = list /\ m.label = NoProduct
             /\ ctx' = Context(list)

HandlerStep ==
    \A e \in Devices : h'[e].pc = "working" /\ h'[e] # h[e] =>
        /\ h'[e].tool \in Tools
        /\ h'[e].item > 0 => /\ h'[e].item \in DOMAIN ctx.items /\ h'[e].list = ctx.items
                            /\ h'[e].product = ctx.items[h'[e].item]
                            /\ chat' = chat

\* The status is kept by a handler that is not at rest, or loses its writer,
\* or becomes the stage of the device's handler.
StageStep(d) ==
    /\ \A e \in Devices \ {d} : h'[e] = h[e]
    /\ \/ status' = status /\ writer' = writer /\ h'[d].pc \in {"speak", "finish", "fail"}
       \/ status' = status /\ writer' # d /\ writer' \in {writer, NoOne}
       \/ /\ writer' = d
          /\ h'[d].pc \in {"think", "ai"} => status' = "THINKING"
          /\ h'[d].pc = "working" => status' = "WORKING"
          /\ h'[d].pc = "idle" => status' \in {"IDLE", "ERROR"}

LEMMA StageIs ==
    ASSUME StatusIsStage, NEW d \in Devices, StageStep(d)
    PROVE  StatusIsStage'
  BY NLAssumption DEF StatusIsStage, StageStep

\* A refused call, an answer of the router and the like.
LEMMA PlainSaid ==
    ASSUME Typed, NEW kind \in {"error", "selection", "clarification", "rejected", "ai"},
           Say(Message(kind)), Remembers, restarts' = restarts
    PROVE  ChatStep /\ chat' \in Seq(Msg)
  <1>1. /\ Message(kind) \in Msg /\ Message(kind).kind # "list"
        /\ Message(kind).label = NoProduct
    BY MessageIs
  <1>2. chat' \in Seq(Msg)
    BY <1>1, SayIs DEF Typed
  <1> QED BY <1>1, <1>2 DEF ChatStep, NamesProduct

LEMMA RemembersType ==
    ASSUME Typed, Remembers
    PROVE  ctx' \in Ctx /\ ctx'.selected \in {0} \cup DOMAIN ctx'.items /\ ctx'.items = ctx.items
  BY MarkIs DEF Remembers, Typed

LEMMA UnderstandIs ==
    ASSUME Typed, NEW d \in Devices, NEW t \in Texts, Understand(d, t)
    PROVE  Typed' /\ ChatStep /\ HandlerStep /\ StageStep(d)
  <1> USE NLAssumption
  <1>1. asked' \in Nat /\ agent' = agent /\ restarts' = restarts
    BY DEF Understand, Typed
  <1>2. CASE Parse(t) = "conversation"
    <2>1. FollowUp(d, t)
      BY <1>2 DEF Understand
    <2>2. /\ h' \in [Devices -> Handler] /\ \A e \in Devices \ {d} : h'[e] = h[e]
          /\ h'[d].pc # "idle" /\ Remembers
          /\ \/ /\ h'[d].pc = "working" /\ h'[d].tool = "get_product"
                /\ h'[d].item \in DOMAIN ctx.items /\ h'[d].product = ctx.items[h'[d].item]
                /\ h'[d].list = ctx.items /\ chat' = chat /\ status' = "WORKING" /\ writer' = d
             \/ h'[d].pc = "ai" /\ chat' = chat /\ status' = "THINKING" /\ writer' = d
             \/ /\ h'[d].pc \in {"fail", "finish"} /\ status' = status /\ writer' = writer
                /\ \E kind \in {"error", "selection", "clarification"} : Say(Message(kind))
      BY <2>1, FollowUpIs DEF Remembers
    <2>3. HandlerStep
      BY <2>2 DEF HandlerStep, Tools
    <2>4. ChatStep /\ chat' \in Seq(Msg)
      <3>1. CASE chat' = chat
        BY <1>1, <2>2, <3>1 DEF ChatStep, Typed
      <3>2. CASE \E kind \in {"error", "selection", "clarification"} : Say(Message(kind))
        BY <1>1, <2>2, <3>2, PlainSaid
      <3> QED BY <2>2, <3>1, <3>2
    <2>5. StageStep(d)
      BY <2>2 DEF StageStep
    <2>6. status' \in AssistantStatus /\ writer' \in Devices \cup {NoOne}
      BY <2>2 DEF Typed, AssistantStatus
    <2> QED BY <1>1, <2>2, <2>3, <2>4, <2>5, <2>6, RemembersType DEF Typed
  <1>3. CASE Parse(t) # "conversation"
    <2> DEFINE x == [Idle EXCEPT !.pc = "think", !.tool = Parse(t),
                        !.product = IF Parse(t) = "get_product" THEN t.wanted ELSE NoProduct]
    <2>1. /\ status' = "THINKING" /\ writer' = d /\ h' = [h EXCEPT ![d] = x]
          /\ ctx' = ctx /\ chat' = chat
      BY <1>3 DEF Understand
    <2>2. Parse(t) \in PatternNames
      <3>1. \E i \in DOMAIN Patterns : Patterns[i] \in t.says
        BY <1>3 DEF Parse
      <3> DEFINE hits == {i \in DOMAIN Patterns : Patterns[i] \in t.says}
                 k == CHOOSE i \in hits : \A j \in hits : i <= j
      <3>2. hits \in SUBSET Nat /\ hits # {}
        BY <3>1 DEF Patterns
      <3>3. \E i \in hits : \A j \in hits : i <= j
        BY <3>2, LeastPattern
      <3>4. k \in hits
        BY <3>3
      <3> QED BY <1>3, <3>4 DEF Parse, PatternNames
    <2>3. t.wanted \in Products \cup {NoProduct}
      BY DEF Text
    <2>4. x \in Handler /\ x.pc = "think"
      <3> DEFINE tool == Parse(t)
                 q == IF Parse(t) = "get_product" THEN t.wanted ELSE NoProduct
      <3>1. tool \in PatternNames /\ q \in Products \cup {NoProduct}
        BY <2>2, <2>3
      <3>2. x = [Idle EXCEPT !.pc = "think", !.tool = tool, !.product = q]
        OBVIOUS
      <3> HIDE DEF tool, q, x
      <3>3. [Idle EXCEPT !.pc = "think", !.tool = tool, !.product = q] \in Handler
        BY <3>1, IdleIs DEF Handler
      <3>4. [Idle EXCEPT !.pc = "think", !.tool = tool, !.product = q].pc = "think"
        BY IdleIs DEF Handler
      <3> QED BY <3>2, <3>3, <3>4
    <2> HIDE DEF x
    <2>5. h'[d] = x /\ \A e \in Devices \ {d} : h'[e] = h[e]
      BY <2>1 DEF Typed
    <2>6. StageStep(d)
      BY <2>1, <2>4, <2>5 DEF StageStep
    <2>7. status' \in AssistantStatus /\ writer' \in Devices \cup {NoOne}
      BY <2>1 DEF AssistantStatus
    <2> QED BY <1>1, <2>1, <2>4, <2>6, <2>7 DEF Typed, ChatStep, HandlerStep, Remembers
  <1> QED BY <1>2, <1>3

LEMMA ThinkIs ==
    ASSUME Typed, NEW d \in Devices, Think(d)
    PROVE  Typed' /\ ChatStep /\ HandlerStep /\ StageStep(d)
  <1>1. h[d] \in Handler /\ Remembers /\ UNCHANGED <<ctx, agent, asked, restarts>>
    BY DEF Typed, Think, Remembers
  <1>2. CASE h[d].tool \in Tools
    <2>1. h[d].product \in Products \cup {NoProduct} /\ 0 \in Nat
      BY <1>1 DEF Handler
    <2>2. Dispatch(d, h[d].tool, h[d].product, 0)
      BY <1>2 DEF Think
    <2>3. /\ h' \in [Devices -> Handler] /\ \A e \in Devices \ {d} : h'[e] = h[e]
          /\ \/ /\ h'[d].pc = "working" /\ h'[d].tool = h[d].tool
                /\ h'[d].item = 0 /\ chat' = chat /\ status' = "WORKING" /\ writer' = d
             \/ /\ h'[d].pc = "fail" /\ status' = status /\ writer' = writer
                /\ Say(Message("error"))
      <3> DEFINE tool == h[d].tool
                 product == h[d].product
      <3>1. tool \in Tools /\ product \in Products \cup {NoProduct} /\ Dispatch(d, tool, product, 0)
        BY <1>2, <2>1, <2>2
      <3> HIDE DEF tool, product
      <3>2. /\ h' \in [Devices -> Handler] /\ \A e \in Devices \ {d} : h'[e] = h[e]
            /\ \/ /\ h'[d].pc = "working" /\ h'[d].tool = tool
                  /\ h'[d].item = 0 /\ chat' = chat /\ status' = "WORKING" /\ writer' = d
               \/ /\ h'[d].pc = "fail" /\ status' = status /\ writer' = writer
                  /\ Say(Message("error"))
        BY <2>1, <3>1, DispatchIs
      <3> QED BY <3>2 DEF tool
    <2>4. HandlerStep
      BY <1>2, <2>3 DEF HandlerStep
    <2>5. ChatStep /\ chat' \in Seq(Msg)
      <3>1. CASE chat' = chat
        BY <1>1, <3>1 DEF ChatStep, Typed
      <3>2. CASE Say(Message("error"))
        BY <1>1, <3>2, PlainSaid
      <3> QED BY <2>3, <3>1, <3>2
    <2>6. StageStep(d)
      BY <2>3 DEF StageStep
    <2>7. status' \in AssistantStatus /\ writer' \in Devices \cup {NoOne}
      BY <2>3 DEF Typed, AssistantStatus
    <2> QED BY <1>1, <2>3, <2>4, <2>5, <2>6, <2>7 DEF Typed
  <1>3. CASE h[d].tool \notin Tools
    <2>1. Say(Message("rejected")) /\ Goto(d, "finish") /\ status' = status /\ writer' = writer
      BY <1>3 DEF Think
    <2>2. h'[d].pc = "finish" /\ h' \in [Devices -> Handler] /\ \A e \in Devices \ {d} : h'[e] = h[e]
      BY <2>1, GotoIs
    <2>3. ChatStep /\ chat' \in Seq(Msg)
      BY <1>1, <2>1, PlainSaid
    <2> QED BY <1>1, <2>1, <2>2, <2>3 DEF Typed, HandlerStep, StageStep
  <1> QED BY <1>2, <1>3

LEMMA SucceedIs ==
    ASSUME Typed, WorkingOnTool, NEW d \in Devices, NEW list \in Lists, Succeed(d, list)
    PROVE  Typed' /\ ChatStep /\ HandlerStep /\ StageStep(d)
  <1>1. list \in Seq(Products) /\ h[d].pc = "working" /\ h[d].tool \in Tools
    BY NLAssumption DEF Succeed, WorkingOnTool
  <1>2. /\ Goto(d, "speak") /\ Say(Answer(d, list))
        /\ UNCHANGED <<status, agent, asked, restarts, writer>>
        /\ ctx' = IF h[d].tool = "search_products" THEN Context(list) ELSE ctx
    BY DEF Succeed
  <1>3. h'[d].pc = "speak" /\ h' \in [Devices -> Handler] /\ \A e \in Devices \ {d} : h'[e] = h[e]
    BY <1>2, GotoIs
  <1>4. /\ Answer(d, list) \in Msg
        /\ h[d].tool = "search_products" =>
              /\ Answer(d, list).kind = "list" /\ Answer(d, list).items = list
              /\ Answer(d, list).label = NoProduct
        /\ h[d].tool # "search_products" =>
              /\ Answer(d, list).kind \in Tools /\ Answer(d, list).product = h[d].product
              /\ Answer(d, list).label = Label(d)
              /\ Answer(d, list).moved = (ctx.items # h[d].list)
    BY <1>1, AnswerIs
  <1>5. chat' \in Seq(Msg)
    BY <1>2, <1>4, SayIs DEF Typed
  <1>6. ctx' \in Ctx /\ ctx'.selected \in {0} \cup DOMAIN ctx'.items
    BY <1>1, <1>2, ContextIs DEF Typed
  <1>7. Typed' /\ HandlerStep
    BY <1>2, <1>3, <1>5, <1>6 DEF Typed, HandlerStep
  <1>8. ChatStep
    <2>1. CASE h[d].tool = "search_products"
      BY <1>2, <1>4, <2>1 DEF ChatStep
    <2>2. CASE h[d].tool # "search_products"
      <3>1. NamesProduct(Answer(d, list))
        BY <1>1, <1>4, <2>2 DEF NamesProduct
      <3>2. Answer(d, list).kind # "list"
        BY <1>4, <2>2 DEF Tools
      <3> QED BY <1>2, <1>4, <2>2, <3>1, <3>2 DEF ChatStep, Remembers
    <2> QED BY <2>1, <2>2
  <1>9. StageStep(d)
    BY <1>2, <1>3 DEF StageStep
  <1> QED BY <1>7, <1>8, <1>9

\* Steps that say at most an error or a reply, and send nothing.
LEMMA QuietIs ==
    ASSUME Typed, NEW d \in Devices,
           Converse(d) \/ Fail(d) \/ Raise(d) \/ Speak(d) \/ Settle(d)
    PROVE  Typed' /\ ChatStep /\ HandlerStep /\ StageStep(d)
  <1>1. UNCHANGED <<ctx, agent, asked, restarts>> /\ Remembers
    BY DEF Converse, Fail, Raise, Speak, Settle, Remembers
  <1>2. /\ h' \in [Devices -> Handler] /\ (\A e \in Devices \ {d} : h'[e] = h[e])
        /\ h'[d].pc # "working" /\ StageStep(d)
    <2>1. CASE Raise(d)
      <3>1. h' \in [Devices -> Handler] /\ (\A e \in Devices \ {d} : h'[e] = h[e]) /\ h'[d].pc = "idle"
        BY <2>1, IdleIs DEF Raise, Typed
      <3>2. status' = status /\ writer' # d /\ writer' \in {writer, NoOne}
        BY <2>1, NLAssumption DEF Raise
      <3> QED BY <3>1, <3>2 DEF StageStep
    <2>2. CASE Settle(d)
      <3>1. h' \in [Devices -> Handler] /\ (\A e \in Devices \ {d} : h'[e] = h[e]) /\ h'[d].pc = "idle"
        BY <2>2, IdleIs DEF Settle, Typed
      <3>2. writer' = d /\ status' \in {"IDLE", "ERROR"}
        BY <2>2 DEF Settle
      <3> QED BY <3>1, <3>2 DEF StageStep
    <2>3. CASE Converse(d)
      BY <2>3, GotoIs DEF Converse, StageStep
    <2>4. CASE Fail(d)
      BY <2>4, GotoIs DEF Fail, StageStep
    <2>5. CASE Speak(d)
      BY <2>5, GotoIs DEF Speak, StageStep
    <2> QED BY <2>1, <2>2, <2>3, <2>4, <2>5
  <1>3. ChatStep /\ chat' \in Seq(Msg)
    <2>1. CASE chat' = chat
      BY <1>1, <2>1 DEF ChatStep, Typed
    <2>2. CASE \E kind \in {"ai", "error"} : Say(Message(kind))
      BY <1>1, <2>2, PlainSaid
    <2> QED BY <2>1, <2>2 DEF Converse, Fail, Raise, Speak, Settle
  <1>4. status' \in AssistantStatus /\ writer' \in Devices \cup {NoOne}
    BY DEF Converse, Fail, Raise, Speak, Settle, Typed, AssistantStatus
  <1> QED BY <1>1, <1>2, <1>3, <1>4 DEF Typed, HandlerStep

LEMMA StepIs ==
    ASSUME Typed, WorkingOnTool, [Next]_vars, ~HubRestart
    PROVE  /\ Typed' /\ ChatStep /\ HandlerStep
           /\ StatusIsStage => StatusIsStage'
  <1>1. ASSUME NEW d \in Devices, Proceed(d)
        PROVE  Typed' /\ ChatStep /\ HandlerStep /\ StageStep(d)
    BY <1>1, ThinkIs, SucceedIs, QuietIs DEF Proceed
  <1>2. ASSUME NEW d \in Devices, NEW t \in Texts, Understand(d, t)
        PROVE  Typed' /\ ChatStep /\ HandlerStep /\ StageStep(d)
    BY <1>2, UnderstandIs
  <1>3. ASSUME NEW d \in Devices, NEW s \in Sent, SetStatus(d, s)
        PROVE  Typed' /\ ChatStep /\ HandlerStep /\ StatusIsStage'
    <2>1. Typed' /\ ChatStep /\ HandlerStep
      BY <1>3, NLAssumption DEF SetStatus, Typed, ChatStep, HandlerStep, Remembers
    <2>2. StatusIsStage'
      BY <1>3, NLAssumption DEF SetStatus, StatusIsStage
    <2> QED BY <2>1, <2>2
  <1>4. CASE AgentChanges
    BY <1>4 DEF AgentChanges, Typed, ChatStep, HandlerStep, Remembers, StatusIsStage
  <1>5. CASE UNCHANGED vars
    BY <1>5 DEF vars, Typed, ChatStep, HandlerStep, Remembers, StatusIsStage
  <1> QED BY <1>1, <1>2, <1>3, <1>4, <1>5, StageIs DEF Next

-----------------------------------------------------------------------------
(* The list shown last is the context, and the list a call was resolved on *)
(* was shown.                                                              *)

\* Some message showed the items of the context.
Shown ==
    ctx.items # <<>> => \E i \in DOMAIN chat : chat[i].kind = "list" /\ chat[i].items = ctx.items

\* The product a follow-up fetches is the item it resolved, and was shown.
Fetching ==
    \A d \in Devices : h[d].pc = "working" /\ h[d].item > 0 =>
        /\ h[d].item \in DOMAIN h[d].list /\ h[d].product = h[d].list[h[d].item]
        /\ \E i \in DOMAIN chat : \E k \in DOMAIN chat[i].items : chat[i].items[k] = h[d].product

ChatInv ==
    /\ WorkingOnTool /\ ContextIsLastShown /\ SelectionCoherent /\ Shown /\ Fetching
    /\ AnswerNamesProduct

LEMMA ChatInvInit == Init => ChatInv
  BY IdleIs DEF Init, ChatInv, WorkingOnTool, ContextIsLastShown, SelectionCoherent, Shown,
     Fetching, AnswerNamesProduct, NoContext

\* The chat only grows.
LEMMA Grows ==
    ASSUME Typed, ChatStep
    PROVE  \A i \in DOMAIN chat : i \in DOMAIN chat' /\ chat'[i] = chat[i]
  <1>1. CASE chat' = chat
    BY <1>1
  <1>2. CASE \E m \in Msg : Say(m)
    BY <1>2, SayIs DEF Typed
  <1> QED BY <1>1, <1>2 DEF ChatStep

LEMMA ShownStep ==
    ASSUME Typed, Shown, ContextIsLastShown, ChatStep
    PROVE  Shown' /\ ContextIsLastShown'
  <1> USE DEF ChatStep
  <1>1. CASE chat' = chat /\ Remembers
    BY <1>1, RemembersType DEF Shown, ContextIsLastShown
  <1>2. ASSUME NEW m \in Msg, Say(m), m.kind # "list", Remembers
        PROVE  Shown' /\ ContextIsLastShown'
    <2>1. /\ DOMAIN chat = 1..Len(chat) /\ DOMAIN chat' = 1..(Len(chat) + 1) /\ Len(chat) \in Nat
          /\ chat'[Len(chat) + 1] = m /\ \A i \in DOMAIN chat : chat'[i] = chat[i]
      BY <1>2, SayIs DEF Typed
    <2>2. \A i \in DOMAIN chat' : chat'[i].kind = "list" => i \in DOMAIN chat
      BY <1>2, <2>1
    <2>3. \A i \in DOMAIN chat : i \in DOMAIN chat'
      BY <2>1
    <2>4. ctx'.items = ctx.items
      BY <1>2, RemembersType
    <2>5. Shown'
      BY <2>1, <2>3, <2>4 DEF Shown
    <2>6. ContextIsLastShown'
      BY <2>1, <2>2, <2>3, <2>4 DEF ContextIsLastShown
    <2> QED BY <2>5, <2>6
  <1>3. ASSUME NEW list \in Lists, NEW m \in Msg, Say(m), m.kind = "list", m.items = list,
               ctx' = Context(list)
        PROVE  Shown' /\ ContextIsLastShown'
    <2>1. /\ DOMAIN chat = 1..Len(chat) /\ DOMAIN chat' = 1..(Len(chat) + 1) /\ Len(chat) \in Nat
          /\ chat'[Len(chat) + 1] = m
      BY <1>3, SayIs DEF Typed
    <2>2. ctx'.items = list
      BY <1>3, NLAssumption, ContextIs
    <2>3. Len(chat) + 1 \in DOMAIN chat' /\ \A i \in DOMAIN chat' : i # Len(chat) + 1 => Len(chat) + 1 > i
      BY <2>1
    <2>4. Shown'
      BY <1>3, <2>1, <2>2, <2>3 DEF Shown
    <2>5. ContextIsLastShown'
      BY <1>3, <2>1, <2>2, <2>3 DEF ContextIsLastShown
    <2> QED BY <2>4, <2>5
  <1> QED BY <1>1, <1>2, <1>3 DEF ChatStep

LEMMA CoherentStep ==
    ASSUME Typed, SelectionCoherent, ChatStep
    PROVE  SelectionCoherent'
  <1>1. CASE ctx' = ctx
    BY <1>1 DEF SelectionCoherent
  <1>2. ASSUME NEW i \in DOMAIN ctx.items, ctx' = MarkSelected(ctx, i)
        PROVE  SelectionCoherent'
    <2>1. ctx'.items = ctx.items /\ ctx'.selected = i /\ ctx'.id = ctx.items[i] /\ ~ctx'.awaiting
      BY <1>2, MarkIs DEF Typed
    <2>2. i # 0
      BY DEF Typed, Ctx
    <2> QED BY <2>1, <2>2 DEF SelectionCoherent
  <1>3. ASSUME NEW list \in Lists, ctx' = Context(list)
        PROVE  SelectionCoherent'
    BY <1>3, NLAssumption, ContextIs DEF SelectionCoherent
  <1> QED BY <1>1, <1>2, <1>3 DEF ChatStep, Remembers

LEMMA FetchingStep ==
    ASSUME Typed, WorkingOnTool, Shown, Fetching, ChatStep, HandlerStep
    PROVE  WorkingOnTool' /\ Fetching'
  <1>1. WorkingOnTool'
    BY DEF WorkingOnTool, HandlerStep
  <1>2. ASSUME NEW d \in Devices, h'[d].pc = "working", h'[d].item > 0
        PROVE  /\ h'[d].item \in DOMAIN h'[d].list /\ h'[d].product = h'[d].list[h'[d].item]
               /\ \E i \in DOMAIN chat' : \E k \in DOMAIN chat'[i].items :
                     chat'[i].items[k] = h'[d].product
    <2>1. CASE h'[d] = h[d]
      BY <1>2, <2>1, Grows DEF Fetching
    <2>2. CASE h'[d] # h[d]
      <3>1. /\ h'[d].item \in DOMAIN ctx.items /\ h'[d].list = ctx.items
            /\ h'[d].product = ctx.items[h'[d].item] /\ chat' = chat
        BY <1>2, <2>2 DEF HandlerStep
      <3>2. ctx.items # <<>>
        BY <3>1
      <3>3. PICK i \in DOMAIN chat : chat[i].items = ctx.items
        BY <3>2 DEF Shown
      <3> QED BY <3>1, <3>3
    <2> QED BY <2>1, <2>2
  <1> QED BY <1>1, <1>2 DEF Fetching

LEMMA NamesStep ==
    ASSUME Typed, AnswerNamesProduct, Fetching, ChatStep
    PROVE  AnswerNamesProduct'
  <1>1. CASE chat' = chat
    BY <1>1 DEF AnswerNamesProduct
  <1>2. ASSUME NEW m \in Msg, Say(m), NamesProduct(m)
        PROVE  AnswerNamesProduct'
    <2>1. /\ DOMAIN chat = 1..Len(chat) /\ DOMAIN chat' = 1..(Len(chat) + 1) /\ Len(chat) \in Nat
          /\ chat'[Len(chat) + 1] = m /\ \A i \in DOMAIN chat : chat'[i] = chat[i]
      BY <1>2, SayIs DEF Typed
    <2>2. ASSUME ~m.moved PROVE m.label \in {NoProduct, m.product}
      <3>1. CASE m.label = NoProduct
        BY <3>1
      <3>2. ASSUME NEW d \in Devices, h[d].pc = "working", m.product = h[d].product,
                   m.label = Label(d), ctx.items = h[d].list
            PROVE  m.label \in {NoProduct, m.product}
        <4>1. CASE h[d].item \in DOMAIN ctx.items
          <5>1. h[d].item > 0
            BY <4>1 DEF Typed, Ctx
          <5> QED BY <3>2, <4>1, <5>1 DEF Fetching, Label
        <4>2. CASE h[d].item \notin DOMAIN ctx.items
          BY <3>2, <4>2 DEF Label
        <4> QED BY <4>1, <4>2
      <3> QED BY <1>2, <2>2, <3>1, <3>2 DEF NamesProduct
    <2> QED BY <2>1, <2>2 DEF AnswerNamesProduct
  <1> QED BY <1>1, <1>2 DEF ChatStep, NamesProduct

\* A restart leaves a beginning of the chat, no context and handlers at rest.
LEMMA RestartStep ==
    ASSUME Typed, ChatInv, HubRestart
    PROVE  Typed' /\ ChatInv' /\ StatusIsStage'
  <1>1. PICK n \in 0..Len(chat) : chat' = SubSeq(chat, 1, n)
    BY DEF HubRestart
  <1>2. \A i \in 1..n : i \in DOMAIN chat /\ chat[i] \in Msg
    BY <1>1 DEF Typed
  <1>3. chat' \in Seq(Msg) /\ \A i \in DOMAIN chat' : i \in DOMAIN chat /\ chat'[i] = chat[i]
    BY <1>1, <1>2, SubSeqProperties
  <1>4. /\ ctx' = NoContext /\ h' = [d \in Devices |-> Idle] /\ restarts' = restarts + 1
        /\ writer' = NoOne /\ status' \in AssistantStatus /\ agent' = agent /\ asked' = asked
    BY DEF HubRestart
  <1>5. NoContext \in Ctx /\ NoContext.selected = 0 /\ NoContext.items = <<>>
    BY DEF NoContext, Ctx
  <1>6. Typed'
    BY <1>3, <1>4, <1>5, IdleIs DEF Typed
  <1>7. WorkingOnTool' /\ Fetching' /\ StatusIsStage'
    BY <1>4, IdleIs, NLAssumption DEF WorkingOnTool, Fetching, StatusIsStage
  <1>8. ContextIsLastShown' /\ Shown'
    <2>1. restarts' > 0
      BY <1>4 DEF Typed
    <2> QED BY <1>4, <1>5, <2>1 DEF ContextIsLastShown, Shown
  <1>9. SelectionCoherent'
    BY <1>4 DEF SelectionCoherent, NoContext
  <1>10. AnswerNamesProduct'
    BY <1>3 DEF AnswerNamesProduct, ChatInv
  <1> QED BY <1>6, <1>7, <1>8, <1>9, <1>10 DEF ChatInv

LEMMA ChatInvStep == TypeOK /\ ChatInv /\ [Next]_vars => TypeOK' /\ ChatInv'
  <1> SUFFICES ASSUME Typed, ChatInv, [Next]_vars PROVE Typed' /\ ChatInv'
    BY TypedIs, TypedIsNext
  <1>1. CASE ~HubRestart
    <2>1. Typed' /\ ChatStep /\ HandlerStep
      BY <1>1, StepIs DEF ChatInv
    <2> QED BY <2>1, ShownStep, CoherentStep, FetchingStep, NamesStep DEF ChatInv
  <1>2. CASE HubRestart
    BY <1>2, RestartStep
  <1> QED BY <1>1, <1>2

LEMMA ChatInvHolds == Spec => [](TypeOK /\ ChatInv)
  <1>1. Init => TypeOK
    <2> SUFFICES ASSUME Init PROVE Typed
      BY TypedIs
    <2>1. NoContext \in Ctx /\ NoContext.selected = 0
      BY DEF NoContext, Ctx
    <2>2. ctx \in Ctx /\ ctx.selected \in {0} \cup DOMAIN ctx.items
      BY <2>1 DEF Init
    <2>3. h \in [Devices -> Handler] /\ asked \in Nat /\ chat \in Seq(Msg)
      BY IdleIs DEF Init
    <2> QED BY <2>2, <2>3 DEF Init, Typed, AssistantStatus
  <1> QED BY <1>1, ChatInvInit, ChatInvStep, PTL DEF Spec

\* The variables keep their types.
THEOREM NLTypeCorrect == Spec => []TypeOK
  BY ChatInvHolds, PTL

\* Follow-ups are counted on the list the chat showed last, whatever searches
\* of whatever devices interleave; after a restart there is none to count on.
THEOREM FollowUpsCountOnWhatIsShown == Spec => []ContextIsLastShown
  BY ChatInvHolds, PTL DEF ChatInv

\* The selected index, the selected product and the wait for a selection agree.
THEOREM SelectionStaysCoherent == Spec => []SelectionCoherent
  BY ChatInvHolds, PTL DEF ChatInv

\* An answer names the product it describes unless the list moved meanwhile.
THEOREM AnswersNameTheirProduct == Spec => []AnswerNamesProduct
  BY ChatInvHolds, PTL DEF ChatInv

\* A follow-up fetches a product that a search has shown.
THEOREM FollowUpsFetchWhatWasShown == Spec => []FollowUpWasShown
  <1>1. ChatInv => FollowUpWasShown
    BY DEF ChatInv, Fetching, FollowUpWasShown
  <1> QED BY <1>1, ChatInvHolds, PTL

-----------------------------------------------------------------------------
(* The status *)

\* A status that a chat message wrote last is the stage of that message: only
\* another message, a client's own status, a restart and an exception leave one
\* that says something else.
THEOREM StatusFollowsStage == Spec => []StatusIsStage
  <1>1. Init => StatusIsStage
    BY NLAssumption DEF Init, StatusIsStage
  <1>2. TypeOK /\ ChatInv /\ StatusIsStage /\ [Next]_vars => StatusIsStage'
    BY TypedIs, StepIs, RestartStep DEF ChatInv
  <1> QED BY <1>1, <1>2, ChatInvHolds, PTL DEF Spec
=============================================================================
