----------------------------- MODULE Positions -----------------------------
(***************************************************************************)
(* PositionsRepository (src/positions): the tables positions, orders,      *)
(* order_fills, order_events and position_events, and the four operations  *)
(* that write them.  Every write runs between BEGIN IMMEDIATE and COMMIT,  *)
(* so an operation is one step; a refused operation is rolled back and is  *)
(* no step at all.  A caller of the API may present any ids, quantities    *)
(* and version numbers at any time, also those it read long ago: that is   *)
(* the concurrency of this module.                                         *)
(*                                                                         *)
(* Left out because nothing reads it back: prices of orders, the averages  *)
(* kept for display, the reasons and times of events, is_confirmed.        *)
(***************************************************************************)
EXTENDS Integers, FiniteSets, Sequences, Totals

CONSTANTS
    PositionId, OrderId, FillId,
    CreateIntent,       \* idempotency keys of POST /positions
    OrderIntent,        \* idempotency keys of POST /positions/{id}/orders
    Qty, Price,         \* quantities and prices a request may carry
    Fee,                \* fees a fill may carry
    AdminTarget,        \* statuses PATCH .../orders/{id} may ask for
    When,               \* occurred_at of a PATCH, see UpdateOrderStatus
    None                \* an absent row, an absent value

FeeStatus == {"KNOWN", "ESTIMATED", "UNKNOWN"}
OrderAction == {"BUY", "SELL"}
OrderStatus == {"PLANNED", "SUBMITTED", "PENDING", "PARTIALLY_FILLED",
                "FILLED", "CANCELED", "REJECTED", "UNKNOWN"}
OrderTerminal == {"FILLED", "CANCELED", "REJECTED"}
OrderNonTerminal == OrderStatus \ OrderTerminal
PositionStatus == {"NEW", "OPEN", "RECOVERY_IN_PROGRESS", "CAPITAL_RECOVERED",
                   "CLOSED", "SETTLED_WIN", "SETTLED_LOSS"}
Settled == {"SETTLED_WIN", "SETTLED_LOSS"}

OrderTransitions ==
    [s \in OrderStatus |->
        CASE s = "PLANNED" -> {"SUBMITTED", "CANCELED", "UNKNOWN",
                               "PARTIALLY_FILLED", "FILLED"}
          [] s = "SUBMITTED" -> {"PENDING", "CANCELED", "REJECTED", "UNKNOWN",
                                 "PARTIALLY_FILLED", "FILLED"}
          [] s = "PENDING" -> {"PARTIALLY_FILLED", "FILLED", "CANCELED",
                               "REJECTED", "UNKNOWN"}
          [] s = "PARTIALLY_FILLED" -> {"PARTIALLY_FILLED", "FILLED",
                                        "CANCELED", "UNKNOWN"}
          [] s = "UNKNOWN" -> {"FILLED", "PARTIALLY_FILLED", "CANCELED",
                               "REJECTED"}
          [] OTHER -> {}]

PositionTransitions ==
    [s \in PositionStatus |->
        CASE s = "NEW" -> {"OPEN"}
          [] s = "OPEN" -> {"RECOVERY_IN_PROGRESS", "CAPITAL_RECOVERED"} \cup Settled
          [] s = "RECOVERY_IN_PROGRESS" ->
                {"RECOVERY_IN_PROGRESS", "CAPITAL_RECOVERED"} \cup Settled
          [] s = "CAPITAL_RECOVERED" ->
                {"RECOVERY_IN_PROGRESS", "CLOSED"} \cup Settled
          [] OTHER -> {}]

\* validate_position_transition lets a recomputation keep the status.
PositionMayBecome(from, to) == from = to \/ to \in PositionTransitions[from]

PositionRow ==
    [create_intent : CreateIntent,
     status : PositionStatus,
     blocked : BOOLEAN,              \* blocked_by_unknown_order
     open_contracts : Int,
     invested : Nat,                 \* capital_invested_cents
     invested_fee : FeeStatus,
     recovered : Int,                \* capital_recovered_cents
     recovered_fee : FeeStatus,
     runner : Int \cup {None},       \* runner_contracts
     version : Nat,
     backdated : BOOLEAN]            \* updated_at < created_at

OrderRow ==
    [position : PositionId,
     intent : OrderIntent,
     action : OrderAction,
     requested : Qty,
     filled : Nat,                   \* confirmed_filled_qty
     status : OrderStatus,
     version : Nat,
     backdated : BOOLEAN]            \* last_updated_at < created_at

FillRow ==
    [order : OrderId, position : PositionId, action : OrderAction,
     qty : Qty, price : Price, fee : Fee]

ASSUME InputAssumption ==
    /\ Qty \subseteq Nat \ {0}
    /\ Price \subseteq Nat
    /\ Fee \subseteq [status : FeeStatus, cents : Nat]
    /\ AdminTarget \subseteq OrderStatus
    /\ When \subseteq {"now", "before_order", "before_position"}

ASSUME FiniteAssumption == IsFiniteSet(FillId) /\ IsFiniteSet(OrderId)

ASSUME NoneAssumption ==
    None \notin PositionRow /\ None \notin OrderRow /\ None \notin FillRow
      /\ None \notin Int

VARIABLES
    positions, orders, fills,        \* id -> row, or None
    orderEvents, positionEvents      \* id -> sequence of [from, to]

vars == <<positions, orders, fills, orderEvents, positionEvents>>

-----------------------------------------------------------------------------
(***************************************************************************)
(* compute_capital_metrics: the figures of position p, from all its fills. *)
(* An UNKNOWN fee counts as zero cents (_fee_cents_used).                  *)
(***************************************************************************)
FillsOf(fs, p, action) ==
    {f \in FillId : fs[f] # None /\ fs[f].position = p /\ fs[f].action = action}

FeeCentsUsed(fee) == IF fee.status = "UNKNOWN" THEN 0 ELSE fee.cents

Contracts(fs, p, action) ==
    LET F == FillsOf(fs, p, action) IN Total(F, [f \in F |-> fs[f].qty])

Gross(fs, p, action) ==
    LET F == FillsOf(fs, p, action)
    IN  Total(F, [f \in F |-> fs[f].qty * fs[f].price])

Fees(fs, p, action) ==
    LET F == FillsOf(fs, p, action)
    IN  Total(F, [f \in F |-> FeeCentsUsed(fs[f].fee)])

\* aggregate_fee_status: the worst of the fills' fee statuses.
WorstFee(fs, p, action) ==
    LET statuses == {fs[f].fee.status : f \in FillsOf(fs, p, action)}
    IN  CASE "UNKNOWN" \in statuses -> "UNKNOWN"
          [] "UNKNOWN" \notin statuses /\ "ESTIMATED" \in statuses -> "ESTIMATED"
          [] OTHER -> "KNOWN"

EverSold(fs, p) == FillsOf(fs, p, "SELL") # {}

Metrics(fs, p) ==
    [open_contracts |-> Contracts(fs, p, "BUY") - Contracts(fs, p, "SELL"),
     invested       |-> Gross(fs, p, "BUY") + Fees(fs, p, "BUY"),
     invested_fee   |-> WorstFee(fs, p, "BUY"),
     recovered      |-> Gross(fs, p, "SELL") - Fees(fs, p, "SELL"),
     recovered_fee  |-> WorstFee(fs, p, "SELL"),
     ever_sold      |-> EverSold(fs, p)]
-----------------------------------------------------------------------------
(***************************************************************************)
(* A row is rebuilt through its pydantic model each time it is read, and   *)
(* the model's validator may refuse it.  An operation that reads such a    *)
(* row fails before it writes.                                             *)
(***************************************************************************)
PositionReadable(row) ==
    /\ ~row.backdated
    /\ row.version >= 1
    /\ row.open_contracts >= 0
    /\ row.invested >= 0
    /\ row.recovered >= 0
    /\ row.runner # None =>
        /\ row.status \in {"CAPITAL_RECOVERED", "CLOSED"} \cup Settled
        /\ 0 <= row.runner /\ row.runner <= row.open_contracts

OrderReadable(row) ==
    /\ ~row.backdated
    /\ row.version >= 1
    /\ 0 <= row.filled /\ row.filled <= row.requested
    /\ row.status = "FILLED" => row.filled = row.requested
    /\ row.status \in {"PLANNED", "SUBMITTED", "PENDING"} => row.filled = 0
    /\ row.status = "PARTIALLY_FILLED" =>
        0 < row.filled /\ row.filled < row.requested

\* Orders of p in one of the given statuses, in the table os.
OrdersOf(os, p, statuses) ==
    {o \in OrderId : os[o] # None /\ os[o].position = p /\ os[o].status \in statuses}

\* Bug variant: an UNKNOWN order is taken for one that is over.
HasNonTerminalOrder_IgnoresUnknown(p) ==
    OrdersOf(orders, p, OrderNonTerminal \ {"UNKNOWN"}) # {}

HasUnknownOrder(os, p) == OrdersOf(os, p, {"UNKNOWN"}) # {}

HasNonTerminalOrder(p) == OrdersOf(orders, p, OrderNonTerminal) # {}
-----------------------------------------------------------------------------
Init ==
    /\ positions = [p \in PositionId |-> None]
    /\ orders = [o \in OrderId |-> None]
    /\ fills = [f \in FillId |-> None]
    /\ orderEvents = [o \in OrderId |-> <<>>]
    /\ positionEvents = [p \in PositionId |-> <<>>]

Event(from, to) == [from |-> from, to |-> to]

NewPosition(intent) ==
    [create_intent |-> intent, status |-> "OPEN", blocked |-> FALSE,
     open_contracts |-> 0, invested |-> 0, invested_fee |-> "KNOWN",
     recovered |-> 0, recovered_fee |-> "KNOWN", runner |-> None,
     version |-> 1, backdated |-> FALSE]

\* An intent that is already there gets the old row back, or a conflict.
CreatePosition(p, intent) ==
    /\ positions[p] = None
    /\ \A q \in PositionId :
        positions[q] # None => positions[q].create_intent # intent
    /\ positions' = [positions EXCEPT ![p] = NewPosition(intent)]
    /\ positionEvents' = [positionEvents EXCEPT ![p] = <<Event(None, "OPEN")>>]
    /\ UNCHANGED <<orders, fills, orderEvents>>

NewOrder(intent, p, action, qty) ==
    [position |-> p, intent |-> intent, action |-> action, requested |-> qty,
     filled |-> 0, status |-> "PLANNED", version |-> 1, backdated |-> FALSE]

\* Bug variant: the open contracts are not checked when a sale is prepared.
CanCreateOrder_Unbacked(o, intent, p, action, qty) ==
    /\ \A x \in OrderId : orders[x] # None => orders[x].intent # intent
    /\ orders[o] = None
    /\ ~HasNonTerminalOrder(p)
    /\ positions[p] # None

CanCreateOrder(o, intent, p, action, qty) ==
    /\ \A x \in OrderId : orders[x] # None => orders[x].intent # intent
    /\ orders[o] = None
    /\ ~HasNonTerminalOrder(p)
    /\ positions[p] # None                          \* foreign key
    /\ action = "SELL" => qty <= positions[p].open_contracts

CreateOrder(o, intent, p, action, qty) ==
    /\ CanCreateOrder(o, intent, p, action, qty)
    /\ orders' = [orders EXCEPT ![o] = NewOrder(intent, p, action, qty)]
    /\ orderEvents' = [orderEvents EXCEPT ![o] = <<Event(None, "PLANNED")>>]
    /\ UNCHANGED <<positions, fills, positionEvents>>

(***************************************************************************)
(* update_order_status: an administrative transition.  The caller gives    *)
(* the version it read and may give the time the status was observed; a    *)
(* time before the order was created is stored all the same, and if the    *)
(* blocked flag changes the position gets it too.                          *)
(***************************************************************************)
BeforeOrder(when) == when # "now"
BeforePosition(when) == when = "before_position"

\* Bug variant: the row is rewritten under its old version.
Flagged_SameVersion(row, blocked, when) == [row EXCEPT !.blocked = blocked]

\* The position row after its flag was recomputed; it is left alone when the
\* flag is right already.
Flagged(row, blocked, when) ==
    IF row.blocked = blocked
    THEN row
    ELSE [row EXCEPT !.blocked = blocked, !.version = @ + 1,
                     !.backdated = BeforePosition(when)]

\* Bug variant: the flag is computed before the order is updated.
RecomputeBlocked_TooEarly(os, p, when) ==
    [positions EXCEPT ![p] = Flagged(@, HasUnknownOrder(orders, p), when)]

\* _recompute_blocked_flag
RecomputeBlocked(os, p, when) ==
    [positions EXCEPT ![p] = Flagged(@, HasUnknownOrder(os, p), when)]

UpdatedOrder(row, to, when) ==
    [row EXCEPT !.status = to, !.version = @ + 1, !.backdated = BeforeOrder(when)]

CanUpdateOrder(o, version, to) ==
    /\ orders[o] # None
    /\ OrderReadable(orders[o])
    /\ orders[o].version = version
    /\ to \notin {"FILLED", "PARTIALLY_FILLED"}
    /\ to \in OrderTransitions[orders[o].status]

UpdateOrderStatus(o, version, to, when) ==
    /\ CanUpdateOrder(o, version, to)
    /\ orders' = [orders EXCEPT ![o] = UpdatedOrder(@, to, when)]
    /\ orderEvents' = [orderEvents EXCEPT
                        ![o] = Append(@, Event(orders[o].status, to))]
    /\ positions' = RecomputeBlocked(orders', orders[o].position, when)
    /\ UNCHANGED <<fills, positionEvents>>

(***************************************************************************)
(* apply_fill: the fill is inserted, its order advanced, and the figures   *)
(* and the status of its position recomputed from all fills.               *)
(***************************************************************************)
FilledStatus(row, qty) ==
    IF row.filled + qty = row.requested THEN "FILLED" ELSE "PARTIALLY_FILLED"

FilledOrder(row, qty) ==
    [row EXCEPT !.filled = @ + qty, !.status = FilledStatus(row, qty),
                !.version = @ + 1, !.backdated = FALSE]

NewFill(o, qty, price, fee) ==
    [order |-> o, position |-> orders[o].position, action |-> orders[o].action,
     qty |-> qty, price |-> price, fee |-> fee]

\* Bug variant: breaking even is taken for outstanding capital.
PositionStatusFor_Strict(old, m) ==
    CASE m.recovered > m.invested -> "CAPITAL_RECOVERED"
      [] m.recovered <= m.invested /\ (old = "CAPITAL_RECOVERED" \/ m.ever_sold) ->
            "RECOVERY_IN_PROGRESS"
      [] OTHER -> "OPEN"

PositionStatusFor(old, m) ==
    CASE m.recovered >= m.invested -> "CAPITAL_RECOVERED"
      [] m.recovered < m.invested /\ (old = "CAPITAL_RECOVERED" \/ m.ever_sold) ->
            "RECOVERY_IN_PROGRESS"
      [] OTHER -> "OPEN"

\* The position row after the fills became fs.
Revalued(row, m) ==
    LET status == PositionStatusFor(row.status, m)
    IN  [row EXCEPT
            !.open_contracts = m.open_contracts,
            !.invested = m.invested, !.invested_fee = m.invested_fee,
            !.recovered = m.recovered, !.recovered_fee = m.recovered_fee,
            !.runner = IF status = "CAPITAL_RECOVERED" THEN m.open_contracts
                       ELSE None,
            !.status = status,
            !.version = @ + 1,
            !.backdated = FALSE]

\* The table of fills with the new one, and the position row it leads to.
FillsWith(f, o, qty, price, fee) == [fills EXCEPT ![f] = NewFill(o, qty, price, fee)]

PositionAfter(f, o, qty, price, fee) ==
    LET p == orders[o].position
    IN  Revalued(positions[p], Metrics(FillsWith(f, o, qty, price, fee), p))

FillFits(o, version, qty) ==
    /\ orders[o] # None
    /\ OrderReadable(orders[o])
    /\ orders[o].version = version
    /\ orders[o].status \in OrderNonTerminal
    /\ orders[o].filled + qty <= orders[o].requested
    /\ PositionReadable(positions[orders[o].position])
    /\ orders[o].action = "SELL" =>
        qty <= positions[orders[o].position].open_contracts
    /\ FilledStatus(orders[o], qty) \in OrderTransitions[orders[o].status]

FillSettles(f, o, qty, price, fee) ==
    LET row == PositionAfter(f, o, qty, price, fee)
    IN  /\ row.open_contracts >= 0
        /\ PositionMayBecome(positions[orders[o].position].status, row.status)

\* Bug variant: the fill is not looked up first, so a retry is applied again.
CanApplyFill_Replayed(f, o, version, qty, price, fee) ==
    FillFits(o, version, qty) /\ FillSettles(f, o, qty, price, fee)

CanApplyFill(f, o, version, qty, price, fee) ==
    /\ fills[f] = None                          \* else the replay of a fill
    /\ FillFits(o, version, qty)
    /\ FillSettles(f, o, qty, price, fee)

ApplyFill(f, o, version, qty, price, fee) ==
    /\ CanApplyFill(f, o, version, qty, price, fee)
    /\ LET p   == orders[o].position
           to  == FilledStatus(orders[o], qty)
           row == PositionAfter(f, o, qty, price, fee)
       IN  /\ fills' = FillsWith(f, o, qty, price, fee)
           /\ orders' = [orders EXCEPT ![o] = FilledOrder(@, qty)]
           /\ orderEvents' = [orderEvents EXCEPT
                                ![o] = Append(@, Event(orders[o].status, to))]
           /\ positions' = [positions EXCEPT ![p] = row]
           /\ positionEvents' =
                IF row.status = positions[p].status
                THEN positionEvents
                ELSE [positionEvents EXCEPT
                        ![p] = Append(@, Event(positions[p].status, row.status))]

\* A caller presents any version from 1 to the newest it can have read.
Versions(o) == IF orders[o] = None THEN {} ELSE 1 .. orders[o].version

Next ==
    \/ \E p \in PositionId, intent \in CreateIntent : CreatePosition(p, intent)
    \/ \E o \in OrderId, intent \in OrderIntent, p \in PositionId,
          action \in OrderAction, qty \in Qty :
            CreateOrder(o, intent, p, action, qty)
    \/ \E o \in OrderId, to \in AdminTarget, when \in When :
        \E version \in Versions(o) : UpdateOrderStatus(o, version, to, when)
    \/ \E f \in FillId, o \in OrderId, qty \in Qty, price \in Price, fee \in Fee :
        \E version \in Versions(o) : ApplyFill(f, o, version, qty, price, fee)

Spec == Init /\ [][Next]_vars
-----------------------------------------------------------------------------
\* Every table holds rows of its type, or no row, under each key.
TypeOK ==
    /\ positions \in [PositionId -> PositionRow \cup {None}]
    /\ orders \in [OrderId -> OrderRow \cup {None}]
    /\ fills \in [FillId -> FillRow \cup {None}]
    /\ orderEvents \in
        [OrderId -> Seq([from : OrderStatus \cup {None}, to : OrderStatus])]
    /\ positionEvents \in
        [PositionId -> Seq([from : PositionStatus \cup {None}, to : PositionStatus])]

(***************************************************************************)
(* F5: a position never has two orders that are still open, whatever way   *)
(* orders advance, fail or are reconciled between two create_order calls.  *)
(***************************************************************************)
OneNonTerminalOrder ==
    \A o1, o2 \in OrderId :
        /\ orders[o1] # None /\ orders[o1].status \in OrderNonTerminal
        /\ orders[o2] # None /\ orders[o2].status \in OrderNonTerminal
        /\ orders[o1].position = orders[o2].position
        => o1 = o2

(***************************************************************************)
(* The open contracts of a position, recomputed from the fills, agree with *)
(* the quantities its orders confirmed one fill at a time: bought by BUY   *)
(* orders minus sold by SELL orders.                                       *)
(***************************************************************************)
Confirmed(os, p, action) ==
    LET O == {o \in OrdersOf(os, p, OrderStatus) : os[o].action = action}
    IN  Total(O, [o \in O |-> os[o].filled])

LedgerAgrees ==
    \A p \in PositionId : positions[p] # None =>
        positions[p].open_contracts =
            Confirmed(orders, p, "BUY") - Confirmed(orders, p, "SELL")

(***************************************************************************)
(* What a live SELL order still has to sell is open in its position: the   *)
(* check made when the order was prepared stays good until its last fill,  *)
(* so apply_fill never has to refuse a sale for lack of contracts.         *)
(***************************************************************************)
SellOrdersBacked ==
    \A o \in OrderId :
        /\ orders[o] # None /\ orders[o].action = "SELL"
        /\ orders[o].status \in OrderNonTerminal
        => orders[o].requested - orders[o].filled
            <= positions[orders[o].position].open_contracts

(***************************************************************************)
(* While an order is UNKNOWN its position is flagged as blocked.           *)
(***************************************************************************)
UnknownOrderBlocks ==
    \A o \in OrderId :
        orders[o] # None /\ orders[o].status = "UNKNOWN"
        => positions[orders[o].position].blocked

(***************************************************************************)
(* The status of a position tells the truth about its money: recovered     *)
(* capital only once the proceeds reach what was invested, outstanding     *)
(* capital in every other position that traded, and no sale yet in OPEN.   *)
(***************************************************************************)
StatusMatchesCapital ==
    \A p \in PositionId : positions[p] # None =>
        LET row == positions[p]
        IN  /\ row.status = "CAPITAL_RECOVERED" =>
                row.recovered >= row.invested /\ row.runner = row.open_contracts
            /\ row.status = "RECOVERY_IN_PROGRESS" => row.recovered < row.invested
            /\ row.status = "OPEN" =>
                /\ FillsOf(fills, p, "SELL") = {}
                /\ FillsOf(fills, p, "BUY") # {} => row.recovered < row.invested

(***************************************************************************)
(* The append-only logs replay to the rows: each event starts where the    *)
(* one before ended, the last one ends in the row's status, and an order   *)
(* has one event per version.                                              *)
(***************************************************************************)
Replays(log, status) ==
    /\ Len(log) > 0
    /\ log[1].from = None
    /\ \A i \in 2 .. Len(log) : log[i].from = log[i - 1].to
    /\ log[Len(log)].to = status

OrderLogReplays ==
    \A o \in OrderId : orders[o] # None =>
        /\ Replays(orderEvents[o], orders[o].status)
        /\ Len(orderEvents[o]) = orders[o].version

PositionLogReplays ==
    \A p \in PositionId : positions[p] # None =>
        Replays(positionEvents[p], positions[p].status)

\* An order that reached a terminal status is never touched again.
TerminalOrdersFrozen ==
    [][\A o \in OrderId :
        orders[o] # None /\ orders[o].status \in OrderTerminal
        => orders'[o] = orders[o]]_vars

(***************************************************************************)
(* A row never changes under an unchanged version, which is what makes the *)
(* version check of a later writer see the change.                         *)
(***************************************************************************)
VersionMovesWithRow ==
    [][/\ \A o \in OrderId : orders[o] # None /\ orders'[o] # orders[o]
            => orders'[o].version = orders[o].version + 1
       /\ \A p \in PositionId : positions[p] # None /\ positions'[p] # positions[p]
            => positions'[p].version = positions[p].version + 1]_vars

(***************************************************************************)
(* What the schema asserts of a stored position: it can be read back       *)
(* (schemas.py, Position._validate_invariants).                            *)
(***************************************************************************)
PositionsReadable ==
    \A p \in PositionId : positions[p] # None => PositionReadable(positions[p])

(***************************************************************************)
(* Rows only move forward: an order that is over stays as it is, and no    *)
(* change of an order or a position goes without a new version             *)
(* (update_order_status, apply_fill).                                      *)
(***************************************************************************)
RowsMoveForward == TerminalOrdersFrozen /\ VersionMovesWithRow

(***************************************************************************)
(* The three records of one history agree: the status of a position with   *)
(* its money, and both event logs, replayed, with the rows they led to.    *)
(***************************************************************************)
BooksAgree == TypeOK /\ StatusMatchesCapital /\ OrderLogReplays /\ PositionLogReplays
=============================================================================
