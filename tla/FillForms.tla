----------------------------- MODULE FillForms -----------------------------
(***************************************************************************)
(* The "Register Fill" form of the browser extension (submitFill in        *)
(* content_script.js) against the positions API.  One click lists the      *)
(* orders of the position, creates an order when none is live, and         *)
(* registers the fill on it: three calls, any of which may time out in the *)
(* browser and still be served later.  All fills and orders a form asks    *)
(* for carry ids derived from its intent id, whatever the click.           *)
(*                                                                         *)
(* Other actors of the same position: the exit form, which creates SELL    *)
(* orders, and the reconciliation of order statuses.  The panel's refresh  *)
(* of what it shows is left out: no call depends on it.                    *)
(***************************************************************************)
EXTENDS Positions

CONSTANTS
    User,
    FormOrder,      \* the order id derived from each intent, as is its fill id
    ExitOrder,      \* the order ids of exit forms
    MaxCalls        \* calls a user makes at most

ASSUME FormAssumption ==
    /\ FormOrder \in [FillId -> OrderId]
    /\ \A f, g \in FillId : FormOrder[f] = FormOrder[g] => f = g
    /\ OrderIntent = OrderId        \* order_id = intent_id in both forms
    /\ ExitOrder \subseteq OrderId \ {FormOrder[f] : f \in FillId}

Phase == {"idle", "list", "create", "register"}

\* What a fill is recorded with, and shown with.
Entry == [action : OrderAction, qty : Qty]

(***************************************************************************)
(* A form keeps its intent, the action its selector shows (which the user  *)
(* may change at any time), the position and the quantity captured by the  *)
(* click, and the result it shows.  Price and fee stay as they were typed. *)
(***************************************************************************)
Form == [intent : FillId, position : PositionId \cup {None}, action : OrderAction,
         qty : Qty \cup {0}, phase : Phase, told : Entry \cup {None}]

ASSUME NoFormAssumption == None \notin Form /\ None \notin Entry

VARIABLES
    forms,          \* user -> form, or None when it is closed
    call,           \* user -> number of the last call made
    requests,       \* requests on their way to the server
    replies         \* replies on their way to a form that waits for them

formVars == <<forms, call, requests, replies>>
allVars == <<vars, formVars>>

Waiting(u) == forms[u] # None /\ forms[u].phase # "idle"

Body(action, qty) == [action |-> action, qty |-> qty]

FormsInit ==
    /\ Init
    /\ forms = [u \in User |-> None]
    /\ call = [u \in User |-> 0]
    /\ requests = {}
    /\ replies = {}

Used(f) ==
    \/ fills[f] # None
    \/ orders[FormOrder[f]] # None
    \/ \E u \in User : forms[u] # None /\ forms[u].intent = f
    \/ \E r \in requests : r.kind # "list" /\ r.intent = f

\* newFillFormState: opening a form, or "New fill", takes a new intent id.
OpenForm(u, f) ==
    /\ ~Waiting(u)
    /\ ~Used(f)
    /\ \E p \in PositionId : positions[p] # None
    /\ forms' = [forms EXCEPT ![u] =
                    [intent |-> f, position |-> None, action |-> "BUY", qty |-> 0,
                     phase |-> "idle", told |-> None]]
    /\ UNCHANGED <<vars, call, requests, replies>>

\* "Close": the form and its intent id are forgotten.
CloseForm(u) ==
    /\ forms[u] # None
    /\ ~Waiting(u)
    /\ forms' = [forms EXCEPT ![u] = None]
    /\ UNCHANGED <<vars, call, requests, replies>>

\* The action selector stays enabled while a call is in flight.
SelectAction(u, action) ==
    /\ forms[u] # None
    /\ forms[u].action # action
    /\ forms' = [forms EXCEPT ![u].action = action]
    /\ UNCHANGED <<vars, call, requests, replies>>

\* Sends the next call of u, about position p; the form waits in phase.
Send(u, phase, p, body) ==
    /\ call' = [call EXCEPT ![u] = @ + 1]
    /\ requests' = requests \cup
        {[user |-> u, call |-> call[u] + 1, kind |-> phase,
          intent |-> forms[u].intent, position |-> p, body |-> body]}

\* "Register", ignored while the form is submitting.  The position is the one
\* the card shows by now, which need not be the one the form was opened on.
Submit(u, p, qty) ==
    /\ forms[u] # None
    /\ ~Waiting(u)
    /\ call[u] < MaxCalls
    /\ positions[p] # None
    /\ Send(u, "list", p, None)
    /\ forms' = [forms EXCEPT ![u].phase = "list", ![u].position = p, ![u].qty = qty]
    /\ UNCHANGED <<vars, replies>>
-----------------------------------------------------------------------------
(***************************************************************************)
(* The server.  A request may be served long after its form gave up; the   *)
(* answer reaches the form only while it still waits for this very call.   *)
(***************************************************************************)
Answer(r, answer) ==
    replies' = IF Waiting(r.user) /\ call[r.user] = r.call
               THEN replies \cup {[user |-> r.user, result |-> answer]}
               ELSE replies

Refuse(r) ==
    Answer(r, [ok |-> FALSE]) /\ UNCHANGED vars

\* GET /positions/{id}/orders, of which the form uses the first live order.
ServeList(r) ==
    /\ r \in requests /\ r.kind = "list"
    /\ requests' = requests \ {r}
    /\ LET mine == OrdersOf(orders, r.position, OrderStatus)
           live == OrdersOf(orders, r.position, OrderNonTerminal)
       IN  IF ~PositionReadable(positions[r.position])
              \/ \E o \in mine : ~OrderReadable(orders[o])
           THEN Refuse(r)
           ELSE /\ UNCHANGED vars
                /\ IF live = {}
                   THEN Answer(r, [ok |-> TRUE, order |-> None])
                   ELSE \E o \in live :
                        Answer(r, [ok |-> TRUE, order |-> o,
                                   action |-> orders[o].action,
                                   left |-> orders[o].requested - orders[o].filled,
                                   version |-> orders[o].version])
    /\ UNCHANGED <<forms, call>>

\* Is order o the one that r asks for, left by an earlier click?
SameOrder(r, o) ==
    /\ OrderReadable(orders[o])
    /\ orders[o].position = r.position
    /\ orders[o].action = r.body.action
    /\ orders[o].requested = r.body.qty

\* POST /positions/{id}/orders
ServeCreate(r) ==
    /\ r \in requests /\ r.kind = "create"
    /\ requests' = requests \ {r}
    /\ LET o == FormOrder[r.intent]
           created(version) == [ok |-> TRUE, order |-> o, version |-> version]
       IN  \/ /\ orders[o] # None /\ SameOrder(r, o)
              /\ PositionReadable(positions[r.position])
              /\ Answer(r, created(orders[o].version))
              /\ UNCHANGED vars
           \/ /\ PositionReadable(positions[r.position])
              /\ CreateOrder(o, o, r.position, r.body.action, r.body.qty)
              /\ Answer(r, created(1))
           \/ /\ \/ ~PositionReadable(positions[r.position])
                 \/ orders[o] # None /\ ~SameOrder(r, o)
                 \/ /\ orders[o] = None
                    /\ ~CanCreateOrder(o, o, r.position, r.body.action, r.body.qty)
              /\ Refuse(r)
    /\ UNCHANGED <<forms, call>>

\* Bug variant: any fill with the id of r is taken for a replay of r.
Replayed_AnyContents(r) == fills[r.intent] # None

\* The fill r asks for is in the table already, word for word.
Replayed(r) ==
    /\ fills[r.intent] # None
    /\ fills[r.intent].order = r.body.order
    /\ fills[r.intent].position = r.position
    /\ fills[r.intent].action = r.body.action
    /\ fills[r.intent].qty = r.body.qty
    /\ fills[r.intent].price = r.body.price
    /\ fills[r.intent].fee = r.body.fee

\* Both rows can be read, and r names the order's own position and side.
FillAddressed(r) ==
    /\ PositionReadable(positions[r.position])
    /\ orders[r.body.order] # None /\ OrderReadable(orders[r.body.order])
    /\ orders[r.body.order].position = r.position

\* POST /positions/{id}/fills
ServeRegister(r) ==
    /\ r \in requests /\ r.kind = "register"
    /\ requests' = requests \ {r}
    /\ LET done == [ok |-> TRUE, told |-> Body(r.body.action, r.body.qty)]
           fits == /\ orders[r.body.order].action = r.body.action
                   /\ CanApplyFill(r.intent, r.body.order, r.body.version, r.body.qty, r.body.price, r.body.fee)
       IN  \/ /\ FillAddressed(r) /\ Replayed(r)
              /\ Answer(r, done)
              /\ UNCHANGED vars
           \/ /\ FillAddressed(r) /\ fits
              /\ ApplyFill(r.intent, r.body.order, r.body.version, r.body.qty, r.body.price, r.body.fee)
              /\ Answer(r, done)
           \/ /\ ~(FillAddressed(r) /\ (Replayed(r) \/ fits))
              /\ Refuse(r)
    /\ UNCHANGED <<forms, call>>
-----------------------------------------------------------------------------
(***************************************************************************)
(* The answers, each handled by the callback of its call.                  *)
(***************************************************************************)
Receive(u, phase, a) ==
    /\ Waiting(u) /\ forms[u].phase = phase
    /\ a \in replies /\ a.user = u
    /\ replies' = replies \ {a}
    /\ UNCHANGED vars

\* form.submitting = false, with or without an error to show.
StopSubmitting(u) ==
    /\ forms' = [forms EXCEPT ![u].phase = "idle"]
    /\ UNCHANGED <<call, requests>>

\* The next call of the same click.
Proceed(u, phase, body) ==
    /\ Send(u, phase, forms[u].position, body)
    /\ forms' = [forms EXCEPT ![u].phase = phase]

\* pmRequest("create_order")
Create(u) == Proceed(u, "create", Body(forms[u].action, forms[u].qty))

\* proceedWithOrder: the action is the one the selector shows by now.
Register(u, o, version) ==
    \E price \in Price, fee \in Fee :
        Proceed(u, "register",
                [order |-> o, version |-> version, action |-> forms[u].action,
                 qty |-> forms[u].qty, price |-> price, fee |-> fee])

Fits(u, order) == order.action = forms[u].action /\ order.left >= forms[u].qty

\* Bug variant: the button stays disabled when the live order does not fit.
ReceiveOrders_StaysSubmitting(u) ==
    \E a \in replies :
        /\ Receive(u, "list", a)
        /\ LET answer == a.result IN
           \/ ~answer.ok /\ StopSubmitting(u)
           \/ /\ answer.ok /\ answer.order # None /\ ~Fits(u, answer)
              /\ forms' = [forms EXCEPT ![u].phase = "submitting"]
              /\ UNCHANGED <<call, requests>>
           \/ /\ answer.ok /\ answer.order # None /\ Fits(u, answer)
              /\ Register(u, answer.order, answer.version)
           \/ answer.ok /\ answer.order = None /\ Create(u)

ReceiveOrders(u) ==
    \E a \in replies :
        /\ Receive(u, "list", a)
        /\ LET answer == a.result IN
           \/ ~answer.ok /\ StopSubmitting(u)
           \/ answer.ok /\ answer.order # None /\ ~Fits(u, answer) /\ StopSubmitting(u)
           \/ /\ answer.ok /\ answer.order # None /\ Fits(u, answer)
              /\ Register(u, answer.order, answer.version)
           \/ answer.ok /\ answer.order = None /\ Create(u)

ReceiveOrder(u) ==
    \E a \in replies :
        /\ Receive(u, "create", a)
        /\ \/ ~a.result.ok /\ StopSubmitting(u)
           \/ a.result.ok /\ Register(u, a.result.order, a.result.version)

ReceiveFill(u) ==
    \E a \in replies :
        /\ Receive(u, "register", a)
        /\ \/ ~a.result.ok /\ StopSubmitting(u)
           \/ /\ a.result.ok
              /\ forms' = [forms EXCEPT ![u].phase = "idle", ![u].told = a.result.told]
              /\ UNCHANGED <<call, requests>>

\* Bug variant: the answer of the aborted call is delivered to the next one.
Timeout_KeepsAnswer(u) ==
    /\ Waiting(u) /\ forms[u].phase \in Phase
    /\ requests' = {r \in requests : r.user = u => r.kind # "list"}
    /\ forms' = [forms EXCEPT ![u].phase = "idle"]
    /\ UNCHANGED <<vars, call, replies>>

\* AbortController after POSITIONS_TIMEOUT_MS: the call fails here, its request
\* goes on.  A list that nobody waits for has no effect and is dropped.
Timeout(u) ==
    /\ Waiting(u) /\ forms[u].phase \in Phase
    /\ replies' = {a \in replies : a.user # u}
    /\ requests' = {r \in requests : r.user = u => r.kind # "list"}
    /\ forms' = [forms EXCEPT ![u].phase = "idle"]
    /\ UNCHANGED <<vars, call>>

\* A call ends: its callback runs, or its timer.
Settle(u) == ReceiveOrders(u) \/ ReceiveOrder(u) \/ ReceiveFill(u) \/ Timeout(u)

OtherActors ==
    /\ \/ \E p \in PositionId, intent \in CreateIntent : CreatePosition(p, intent)
       \/ \E o \in ExitOrder, p \in PositionId, qty \in Qty :
            CreateOrder(o, o, p, "SELL", qty)
       \/ \E o \in OrderId, to \in AdminTarget, when \in When :
            \E version \in Versions(o) : UpdateOrderStatus(o, version, to, when)
    /\ UNCHANGED formVars

FormsNext ==
    \/ \E u \in User, f \in FillId : OpenForm(u, f)
    \/ \E u \in User : CloseForm(u)
    \/ \E u \in User, action \in OrderAction : SelectAction(u, action)
    \/ \E u \in User, p \in PositionId, qty \in Qty : Submit(u, p, qty)
    \/ \E r \in requests : ServeList(r) \/ ServeCreate(r) \/ ServeRegister(r)
    \/ \E u \in User : Settle(u)
    \/ OtherActors

FormsSpec == FormsInit /\ [][FormsNext]_allVars /\ \A u \in User : WF_allVars(Settle(u))
-----------------------------------------------------------------------------
\* Forms have their type, and at most the call a form waits for is answered.
FormsTypeOK ==
    /\ forms \in [User -> Form \cup {None}]
    /\ call \in [User -> Nat]
    /\ \A r \in requests : r.user \in User /\ r.kind \in Phase \ {"idle"}
    /\ \A a \in replies : Waiting(a.user)
    /\ \A a, b \in replies : a.user = b.user => a = b

(***************************************************************************)
(* Whatever the clicks, edits, timeouts and late requests: an intent is    *)
(* recorded at most once, and a form shows "Fill registered." only for a   *)
(* fill that is recorded with the contents it sent.                        *)
(***************************************************************************)
Recorded ==
    [f \in FillId |->
        IF fills[f] = None THEN None ELSE Body(fills[f].action, fills[f].qty)]

\* What the open forms, if fs, show of each intent.
FormsOf(fs, f) == {u \in User : fs[u] # None /\ fs[u].intent = f}

ToldBy(fs) ==
    [f \in FillId |->
        IF FormsOf(fs, f) = {} THEN None
        ELSE fs[CHOOSE u \in FormsOf(fs, f) : TRUE].told]

Told == ToldBy(forms)

Ledger == INSTANCE IntentLedger WITH
    Intent <- FillId, recorded <- Recorded, told <- Told

LedgerKept == Ledger!Spec

(***************************************************************************)
(* A form never keeps its button disabled for ever.                        *)
(***************************************************************************)
SubmitEnds == \A u \in User : Waiting(u) ~> ~Waiting(u)
=============================================================================
