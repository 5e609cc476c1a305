-------------------------- MODULE PositionsProofs --------------------------
(***************************************************************************)
(* The theorems of Positions, for all ids, quantities, prices and fees:    *)
(* the facts about its sums, the types, the safety of the books, how rows  *)
(* move, and what the status of a position and the two logs tell; and the  *)
(* theorems of FillForms, whose forms are callers of Positions.            *)
(***************************************************************************)
EXTENDS FillForms, FiniteSetTheorems, TLAPS

-----------------------------------------------------------------------------
(***************************************************************************)
(* Facts about Total: it is a natural number, 0 for the empty set, grows   *)
(* by amount[x] when x joins the set, and depends on the amounts of the    *)
(* members only.                                                           *)
(***************************************************************************)
\* The units of a finite set of natural amounts are finitely many.
LEMMA UnitsFinite ==
  ASSUME NEW S, IsFiniteSet(S), NEW amount, \A x \in S : amount[x] \in Nat
  PROVE  IsFiniteSet(Units(S, amount))
<1> DEFINE f == [x \in S |-> {x} \X (1 .. amount[x])]
           T == {{x} \X (1 .. amount[x]) : x \in S}
<1>1. f \in Surjection(S, T)
  BY DEF Surjection
<1>2. IsFiniteSet(T)
  <2> HIDE DEF T, f
  <2> QED  BY <1>1, FS_Surjection
<1>3. ASSUME NEW x \in S  PROVE IsFiniteSet({x} \X (1 .. amount[x]))
  <2>1. IsFiniteSet({x})
    BY FS_Singleton
  <2>2. IsFiniteSet(1 .. amount[x])
    BY FS_Interval
  <2> QED  BY <2>1, <2>2, FS_Product
<1>4. \A t \in T : IsFiniteSet(t)
  BY <1>3
<1>5. IsFiniteSet(UNION T)
  <2> HIDE DEF T
  <2> QED  BY <1>2, <1>4, FS_UNION
<1> QED  BY <1>5 DEF Units

\* A total of natural amounts over a finite set is a natural number.
LEMMA TotalType ==
  ASSUME NEW S, IsFiniteSet(S), NEW amount, \A x \in S : amount[x] \in Nat
  PROVE  Total(S, amount) \in Nat
BY UnitsFinite, FS_CardinalityType DEF Total

\* Nothing adds up to zero.
LEMMA TotalEmpty ==
  ASSUME NEW amount
  PROVE  Total({}, amount) = 0
<1>1. Units({}, amount) = {}
  BY DEF Units
<1> QED  BY <1>1, FS_EmptySet DEF Total

\* Totals of equal amounts are equal.
LEMMA TotalCongruence ==
  ASSUME NEW S, NEW a, NEW b, \A x \in S : a[x] = b[x]
  PROVE  Total(S, a) = Total(S, b)
<1>1. Units(S, a) = Units(S, b)
  BY DEF Units
<1> QED  BY <1>1 DEF Total

\* A new member adds its amount.
LEMMA TotalAdd ==
  ASSUME NEW S, IsFiniteSet(S), NEW x, x \notin S, NEW amount,
         \A y \in S \cup {x} : amount[y] \in Nat
  PROVE  Total(S \cup {x}, amount) = Total(S, amount) + amount[x]
<1> DEFINE U == Units(S, amount)
           V == {x} \X (1 .. amount[x])
<1>1. Units(S \cup {x}, amount) = U \cup V
  BY DEF Units
<1>2. U \cap V = {}
  BY DEF Units
<1>3. IsFiniteSet(U)
  BY UnitsFinite
<1>4. IsFiniteSet(V) /\ Cardinality(V) = amount[x]
  <2>1. IsFiniteSet({x}) /\ Cardinality({x}) = 1
    BY FS_Singleton
  <2>2. amount[x] \in Nat
    OBVIOUS
  <2>3. IsFiniteSet(1 .. amount[x]) /\ Cardinality(1 .. amount[x]) = amount[x]
    BY <2>2, FS_Interval
  <2>4. IsFiniteSet(V) /\ Cardinality(V) = 1 * Cardinality(1 .. amount[x])
    BY <2>1, <2>3, FS_Product
  <2> QED  BY <2>2, <2>3, <2>4
<1>5. /\ Cardinality(U) \in Nat
      /\ Cardinality(U \cap V) = 0
      /\ amount[x] \in Nat
  <2> HIDE DEF U, V
  <2> QED  BY <1>2, <1>3, FS_CardinalityType, FS_EmptySet
<1>6. Cardinality(U \cup V) = Cardinality(U) + Cardinality(V) - Cardinality(U \cap V)
  <2> HIDE DEF U, V
  <2> QED  BY <1>3, <1>4, FS_Union
<1>7. Cardinality(U \cup V) = Cardinality(U) + amount[x]
  <2> HIDE DEF U, V
  <2> QED  BY <1>4, <1>5, <1>6
<1> QED  BY <1>1, <1>7 DEF Total

\* One member's amount grows by n: so does the total.
LEMMA TotalBump ==
  ASSUME NEW S, IsFiniteSet(S), NEW x \in S, NEW n \in Nat, NEW a, NEW b,
         \A y \in S : a[y] \in Nat /\ b[y] \in Nat,
         b[x] = a[x] + n, \A y \in S \ {x} : b[y] = a[y]
  PROVE  Total(S, b) = Total(S, a) + n
<1> DEFINE R == S \ {x}
<1>1. IsFiniteSet(R) /\ x \notin R /\ S = R \cup {x}
  BY FS_Subset
<1>2. Total(R, b) = Total(R, a)
  BY TotalCongruence
<1>3. Total(R, a) \in Nat
  BY <1>1, TotalType
<1> HIDE DEF R
<1>4. Total(S, b) = Total(R, b) + b[x] /\ Total(S, a) = Total(R, a) + a[x]
  BY <1>1, TotalAdd
<1> QED  BY <1>2, <1>3, <1>4
-----------------------------------------------------------------------------

FillTable == [FillId -> FillRow \cup {None}]

-----------------------------------------------------------------------------
(***************************************************************************)
(* The figures computed from a table of fills.                             *)
(***************************************************************************)
\* The fills of a position are finitely many rows of the table.
LEMMA FillsOfFinite ==
  ASSUME NEW fs \in FillTable, NEW p, NEW a
  PROVE  /\ IsFiniteSet(FillsOf(fs, p, a))
         /\ \A f \in FillsOf(fs, p, a) :
                f \in FillId /\ fs[f] \in FillRow /\ fs[f] # None
<1>1. FillsOf(fs, p, a) \in SUBSET FillId
  BY DEF FillsOf
<1>2. IsFiniteSet(FillsOf(fs, p, a))
  BY <1>1, FiniteAssumption, FS_Subset
<1>3. \A f \in FillsOf(fs, p, a) : f \in FillId /\ fs[f] \in FillRow /\ fs[f] # None
  BY DEF FillsOf, FillTable
<1> QED  BY <1>2, <1>3

\* A fill row carries natural amounts.
LEMMA FillRowAmounts ==
  ASSUME NEW r \in FillRow
  PROVE  /\ r.qty \in Nat \ {0} /\ r.price \in Nat
         /\ r.qty * r.price \in Nat
         /\ FeeCentsUsed(r.fee) \in Nat
         /\ r.fee.status \in FeeStatus
<1>1. r.qty \in Nat \ {0} /\ r.price \in Nat /\ r.fee \in [status : FeeStatus, cents : Nat]
  BY InputAssumption DEF FillRow
<1>2. \A m, n \in Nat : m * n \in Nat
  OBVIOUS
<1> QED  BY <1>1, <1>2 DEF FeeCentsUsed

\* Contracts, gross cents and fee cents of a position are natural numbers.
LEMMA SumsType ==
  ASSUME NEW fs \in FillTable, NEW p, NEW a
  PROVE  /\ Contracts(fs, p, a) \in Nat
         /\ Gross(fs, p, a) \in Nat
         /\ Fees(fs, p, a) \in Nat
         /\ WorstFee(fs, p, a) \in FeeStatus
<1> DEFINE F == FillsOf(fs, p, a)
           qty == [f \in F |-> fs[f].qty]
           gross == [f \in F |-> fs[f].qty * fs[f].price]
           fee == [f \in F |-> FeeCentsUsed(fs[f].fee)]
<1>1. /\ IsFiniteSet(F)
      /\ \A f \in F : qty[f] \in Nat /\ gross[f] \in Nat /\ fee[f] \in Nat
  BY FillsOfFinite, FillRowAmounts
<1>2. Total(F, qty) \in Nat /\ Total(F, gross) \in Nat /\ Total(F, fee) \in Nat
  <2> HIDE DEF F, qty, gross, fee
  <2> QED  BY <1>1, TotalType
<1>3. WorstFee(fs, p, a) \in FeeStatus
  BY DEF WorstFee, FeeStatus
<1> QED  BY <1>2, <1>3 DEF Contracts, Gross, Fees

\* The figures of a position have the types of the columns they go to.
LEMMA MetricsType ==
  ASSUME NEW fs \in FillTable, NEW p
  PROVE  /\ Metrics(fs, p).open_contracts \in Int
         /\ Metrics(fs, p).invested \in Nat
         /\ Metrics(fs, p).invested_fee \in FeeStatus
         /\ Metrics(fs, p).recovered \in Int
         /\ Metrics(fs, p).recovered_fee \in FeeStatus
<1>1. /\ Contracts(fs, p, "BUY") \in Nat /\ Contracts(fs, p, "SELL") \in Nat
      /\ Gross(fs, p, "BUY") \in Nat /\ Gross(fs, p, "SELL") \in Nat
      /\ Fees(fs, p, "BUY") \in Nat /\ Fees(fs, p, "SELL") \in Nat
      /\ WorstFee(fs, p, "BUY") \in FeeStatus /\ WorstFee(fs, p, "SELL") \in FeeStatus
  BY SumsType
<1> QED  BY <1>1 DEF Metrics

-----------------------------------------------------------------------------
(***************************************************************************)
(* The foreign keys: an order has a position, a fill has an order and a    *)
(* position.  Together with the types they are inductive.                  *)
(***************************************************************************)
ForeignKeys ==
    /\ \A o \in OrderId : orders[o] # None => positions[orders[o].position] # None
    /\ \A f \in FillId : fills[f] # None =>
        /\ orders[fills[f].order] # None
        /\ positions[fills[f].position] # None

TypeInv == TypeOK /\ ForeignKeys

OrderEvent == [from : OrderStatus \cup {None}, to : OrderStatus]
PositionEvent == [from : PositionStatus \cup {None}, to : PositionStatus]

\* A position is created with no fills, orders or events of its own.
LEMMA CreatePositionType ==
  ASSUME TypeInv, NEW p \in PositionId, NEW intent \in CreateIntent,
         CreatePosition(p, intent)
  PROVE  TypeInv'
<1>1. NewPosition(intent) \in PositionRow
  BY DEF NewPosition, PositionRow, PositionStatus, FeeStatus
<1>2. NewPosition(intent) # None
  BY <1>1, NoneAssumption
<1>3. positions' \in [PositionId -> PositionRow \cup {None}]
  BY <1>1 DEF TypeInv, TypeOK, CreatePosition
<1>4. <<Event(None, "OPEN")>> \in
        Seq([from : PositionStatus \cup {None}, to : PositionStatus])
  BY DEF Event, PositionStatus
<1>5. positionEvents' \in
        [PositionId -> Seq([from : PositionStatus \cup {None}, to : PositionStatus])]
  BY <1>4 DEF TypeInv, TypeOK, CreatePosition
<1>6. TypeOK'
  BY <1>3, <1>5 DEF TypeInv, TypeOK, CreatePosition
<1>7. \A q \in PositionId : positions[q] # None => positions'[q] # None
  BY <1>2 DEF TypeInv, TypeOK, CreatePosition
<1>8. ForeignKeys'
  BY <1>7 DEF TypeInv, TypeOK, ForeignKeys, CreatePosition, OrderRow, FillRow
<1> QED  BY <1>6, <1>8 DEF TypeInv

\* An order is created for a position that exists.
LEMMA CreateOrderType ==
  ASSUME TypeInv, NEW o \in OrderId, NEW intent \in OrderIntent,
         NEW p \in PositionId, NEW action \in OrderAction, NEW qty \in Qty,
         CreateOrder(o, intent, p, action, qty)
  PROVE  TypeInv'
<1>1. NewOrder(intent, p, action, qty) \in OrderRow
  BY DEF NewOrder, OrderRow, OrderStatus
<1>2. orders' \in [OrderId -> OrderRow \cup {None}]
  BY <1>1 DEF TypeInv, TypeOK, CreateOrder
<1>3. <<Event(None, "PLANNED")>> \in
        Seq([from : OrderStatus \cup {None}, to : OrderStatus])
  BY DEF Event, OrderStatus
<1>4. orderEvents' \in
        [OrderId -> Seq([from : OrderStatus \cup {None}, to : OrderStatus])]
  BY <1>3 DEF TypeInv, TypeOK, CreateOrder
<1>5. TypeOK'
  BY <1>2, <1>4 DEF TypeInv, TypeOK, CreateOrder
<1>6. ForeignKeys'
  <2>1. positions[p] # None
    BY DEF CreateOrder, CanCreateOrder
  <2>2. NewOrder(intent, p, action, qty) # None
        /\ NewOrder(intent, p, action, qty).position = p
    BY <1>1, NoneAssumption DEF NewOrder
  <2>3. \A x \in OrderId : orders'[x] # None => positions'[orders'[x].position] # None
    BY <2>1, <2>2 DEF TypeInv, TypeOK, ForeignKeys, CreateOrder
  <2>4. \A f \in FillId : fills[f] # None => fills[f].order \in OrderId
    BY DEF TypeInv, TypeOK, FillRow
  <2>5. \A f \in FillId : fills'[f] # None =>
            orders'[fills'[f].order] # None /\ positions'[fills'[f].position] # None
    BY <2>2, <2>4 DEF TypeInv, TypeOK, ForeignKeys, CreateOrder
  <2> QED  BY <2>3, <2>5 DEF ForeignKeys
<1> QED  BY <1>5, <1>6 DEF TypeInv

\* An order that exists belongs to a position that exists.
LEMMA OrderHasPosition ==
  ASSUME TypeInv, NEW o \in OrderId, orders[o] # None
  PROVE  /\ orders[o] \in OrderRow
         /\ orders[o].position \in PositionId
         /\ positions[orders[o].position] # None
         /\ positions[orders[o].position] \in PositionRow
<1>1. orders[o] \in OrderRow
  BY DEF TypeInv, TypeOK
<1>2. orders[o].position \in PositionId
  BY <1>1 DEF OrderRow
<1> QED  BY <1>1, <1>2 DEF TypeInv, TypeOK, ForeignKeys

\* Each row a step rewrites stays a row, of the same position.
LEMMA UpdatedOrderType ==
  ASSUME NEW row \in OrderRow, NEW to \in OrderStatus, NEW when
  PROVE  /\ UpdatedOrder(row, to, when) \in OrderRow
         /\ UpdatedOrder(row, to, when).position = row.position
<1>1. BeforeOrder(when) \in BOOLEAN
  BY DEF BeforeOrder
<1>2. row.version + 1 \in Nat
  BY DEF OrderRow
<1> QED  BY <1>1, <1>2 DEF UpdatedOrder, OrderRow

LEMMA FlaggedType ==
  ASSUME NEW row \in PositionRow, NEW blocked \in BOOLEAN, NEW when
  PROVE  Flagged(row, blocked, when) \in PositionRow
<1>1. BeforePosition(when) \in BOOLEAN
  BY DEF BeforePosition
<1>2. row.version + 1 \in Nat
  BY DEF PositionRow
<1> QED  BY <1>1, <1>2 DEF Flagged, PositionRow

LEMMA FilledOrderType ==
  ASSUME NEW row \in OrderRow, NEW qty \in Qty
  PROVE  /\ FilledOrder(row, qty) \in OrderRow
         /\ FilledOrder(row, qty).position = row.position
         /\ FilledStatus(row, qty) \in OrderStatus
<1>1. FilledStatus(row, qty) \in OrderStatus
  BY DEF FilledStatus, OrderStatus
<1>2. row.version + 1 \in Nat /\ row.filled + qty \in Nat
  BY InputAssumption DEF OrderRow
<1> QED  BY <1>1, <1>2 DEF FilledOrder, OrderRow

LEMMA RevaluedType ==
  ASSUME NEW row \in PositionRow, NEW fs \in FillTable, NEW p
  PROVE  /\ Revalued(row, Metrics(fs, p)) \in PositionRow
         /\ Revalued(row, Metrics(fs, p)).status \in PositionStatus
<1> DEFINE m == Metrics(fs, p)
           status == PositionStatusFor(row.status, m)
<1>1. status \in PositionStatus
  BY DEF PositionStatusFor, PositionStatus
<1>2. row.version + 1 \in Nat
  BY DEF PositionRow
<1>3. /\ m.open_contracts \in Int /\ m.invested \in Nat /\ m.recovered \in Int
      /\ m.invested_fee \in FeeStatus /\ m.recovered_fee \in FeeStatus
  BY MetricsType
<1>4. (IF status = "CAPITAL_RECOVERED" THEN m.open_contracts ELSE None)
        \in Int \cup {None}
  BY <1>3
<1> HIDE DEF m
<1> QED  BY <1>1, <1>2, <1>3, <1>4 DEF Revalued, PositionRow, m

\* Rewriting the rows of one order and of its position keeps the tables typed.
LEMMA RewriteRows ==
  ASSUME TypeInv,
         NEW o \in OrderId, NEW orow \in OrderRow, NEW p \in PositionId,
         NEW prow \in PositionRow, NEW e \in OrderEvent,
         positions[p] # None, orders[o] # None, orow.position = p,
         orders' = [orders EXCEPT ![o] = orow],
         positions' = [positions EXCEPT ![p] = prow],
         orderEvents' = [orderEvents EXCEPT ![o] = Append(@, e)]
  PROVE  /\ orders' \in [OrderId -> OrderRow \cup {None}]
         /\ positions' \in [PositionId -> PositionRow \cup {None}]
         /\ orderEvents' \in [OrderId -> Seq(OrderEvent)]
         /\ \A x \in OrderId : orders[x] # None => orders'[x] # None
         /\ \A q \in PositionId : positions[q] # None => positions'[q] # None
         /\ \A x \in OrderId : orders'[x] # None => positions'[orders'[x].position] # None
<1>1. /\ orders \in [OrderId -> OrderRow \cup {None}]
      /\ positions \in [PositionId -> PositionRow \cup {None}]
      /\ orderEvents \in [OrderId -> Seq(OrderEvent)]
      /\ \A x \in OrderId : orders[x] # None => positions[orders[x].position] # None
  BY DEF TypeInv, TypeOK, ForeignKeys, OrderEvent
<1>2. orow # None /\ prow # None
  BY NoneAssumption
<1>3. Append(orderEvents[o], e) \in Seq(OrderEvent)
  BY <1>1
<1>4. /\ orders' \in [OrderId -> OrderRow \cup {None}]
      /\ positions' \in [PositionId -> PositionRow \cup {None}]
  BY <1>1
<1>5. orderEvents' \in [OrderId -> Seq(OrderEvent)]
  BY <1>1, <1>3
<1>6. /\ \A x \in OrderId : orders[x] # None => orders'[x] # None
      /\ \A q \in PositionId : positions[q] # None => positions'[q] # None
  BY <1>1, <1>2
<1>7. ASSUME NEW x \in OrderId, orders'[x] # None
      PROVE  positions'[orders'[x].position] # None
  <2>1. CASE x = o
    BY <2>1, <1>1, <1>2
  <2>2. CASE x # o
    <3>1. orders'[x] = orders[x] /\ orders[x] \in OrderRow
      BY <2>2, <1>1, <1>7
    <3>2. orders[x].position \in PositionId
      BY <3>1 DEF OrderRow
    <3> QED  BY <3>1, <3>2, <1>1, <1>6, <1>7
  <2> QED  BY <2>1, <2>2
<1> QED  BY <1>4, <1>5, <1>6, <1>7

\* An administrative transition keeps both rows typed.
LEMMA UpdateOrderStatusType ==
  ASSUME TypeInv, NEW o \in OrderId, NEW to \in OrderStatus, NEW when, NEW version,
         UpdateOrderStatus(o, version, to, when)
  PROVE  TypeInv'
<1> DEFINE p == orders[o].position
           orow == UpdatedOrder(orders[o], to, when)
           blocked == HasUnknownOrder(orders', p)
           prow == Flagged(positions[p], blocked, when)
           e == Event(orders[o].status, to)
<1>1. orders[o] # None /\ orders[o] \in OrderRow /\ p \in PositionId
  BY OrderHasPosition DEF UpdateOrderStatus, CanUpdateOrder
<1>2. positions[p] # None /\ positions[p] \in PositionRow
  BY <1>1, OrderHasPosition
<1>3. orow \in OrderRow /\ orow.position = p
  BY <1>1, UpdatedOrderType
<1>4. blocked \in BOOLEAN
  BY DEF HasUnknownOrder
<1>5. prow \in PositionRow
  <2> HIDE DEF blocked, p
  <2> QED  BY <1>2, <1>4, FlaggedType
<1>6. e \in OrderEvent
  BY <1>1 DEF Event, OrderEvent, OrderRow
<1>7. /\ orders' = [orders EXCEPT ![o] = orow]
      /\ orderEvents' = [orderEvents EXCEPT ![o] = Append(@, e)]
      /\ fills' = fills /\ positionEvents' = positionEvents
  BY DEF UpdateOrderStatus
<1>8. positions' = [positions EXCEPT ![p] = prow]
  BY Zenon DEF UpdateOrderStatus, RecomputeBlocked
<1> HIDE DEF p, orow, blocked, prow, e
<1>9. /\ orders' \in [OrderId -> OrderRow \cup {None}]
      /\ positions' \in [PositionId -> PositionRow \cup {None}]
      /\ orderEvents' \in [OrderId -> Seq(OrderEvent)]
      /\ \A x \in OrderId : orders[x] # None => orders'[x] # None
      /\ \A q \in PositionId : positions[q] # None => positions'[q] # None
      /\ \A x \in OrderId : orders'[x] # None => positions'[orders'[x].position] # None
  BY <1>1, <1>2, <1>3, <1>5, <1>6, <1>7, <1>8, RewriteRows
<1>10. \A f \in FillId : fills[f] # None =>
            fills[f].order \in OrderId /\ fills[f].position \in PositionId
  BY DEF TypeInv, TypeOK, FillRow
<1>11. TypeOK'
  BY <1>7, <1>9 DEF TypeInv, TypeOK, OrderEvent
<1>12. ForeignKeys'
  BY <1>7, <1>9, <1>10 DEF TypeInv, ForeignKeys
<1> QED  BY <1>11, <1>12 DEF TypeInv

\* A fill keeps the rows it writes typed, whatever the figures come to.
LEMMA ApplyFillType ==
  ASSUME TypeInv, NEW f \in FillId, NEW o \in OrderId, NEW qty \in Qty,
         NEW price \in Price, NEW fee \in Fee, NEW version,
         ApplyFill(f, o, version, qty, price, fee)
  PROVE  TypeInv'
<1> DEFINE p == orders[o].position
           row == NewFill(o, qty, price, fee)
           fs == [fills EXCEPT ![f] = row]
           orow == FilledOrder(orders[o], qty)
           prow == Revalued(positions[p], Metrics(fs, p))
           e == Event(orders[o].status, FilledStatus(orders[o], qty))
<1>1. orders[o] # None /\ orders[o] \in OrderRow /\ p \in PositionId
  BY OrderHasPosition DEF ApplyFill, CanApplyFill, FillFits
<1>2. positions[p] # None /\ positions[p] \in PositionRow
  BY <1>1, OrderHasPosition
<1>3. /\ row \in FillRow /\ row # None
      /\ row.order = o /\ row.position = p
  <2>1. row \in FillRow /\ row.order = o /\ row.position = p
    BY <1>1 DEF NewFill, FillRow, OrderRow
  <2> QED  BY <2>1, NoneAssumption
<1>4. fs \in FillTable
  BY <1>3 DEF TypeInv, TypeOK, FillTable
<1>5. orow \in OrderRow /\ orow.position = p /\ e \in OrderEvent
  BY <1>1, FilledOrderType DEF Event, OrderEvent, OrderRow
<1>6. prow \in PositionRow /\ prow.status \in PositionStatus
  <2> HIDE DEF fs, p
  <2> QED  BY <1>2, <1>4, RevaluedType
<1>7. /\ fills' = fs
      /\ orders' = [orders EXCEPT ![o] = orow]
      /\ orderEvents' = [orderEvents EXCEPT ![o] = Append(@, e)]
      /\ positions' = [positions EXCEPT ![p] = prow]
      /\ positionEvents' =
            IF prow.status = positions[p].status
            THEN positionEvents
            ELSE [positionEvents EXCEPT
                    ![p] = Append(@, Event(positions[p].status, prow.status))]
  BY Zenon DEF ApplyFill, FillsWith, PositionAfter
<1>8. positionEvents' \in [PositionId -> Seq(PositionEvent)]
  <2>1. positionEvents \in [PositionId -> Seq(PositionEvent)]
    BY DEF TypeInv, TypeOK, PositionEvent
  <2>2. Event(positions[p].status, prow.status) \in PositionEvent
    <3> HIDE DEF p, prow
    <3> QED  BY <1>2, <1>6 DEF Event, PositionEvent, PositionRow
  <2>3. Append(positionEvents[p], Event(positions[p].status, prow.status))
            \in Seq(PositionEvent)
    <3> HIDE DEF p, prow
    <3> QED  BY <2>1, <2>2, <1>1
  <2> HIDE DEF p, prow
  <2> QED  BY <2>1, <2>3, <1>7
<1> HIDE DEF p, orow, prow, e, row
<1>9. /\ orders' \in [OrderId -> OrderRow \cup {None}]
      /\ positions' \in [PositionId -> PositionRow \cup {None}]
      /\ orderEvents' \in [OrderId -> Seq(OrderEvent)]
      /\ \A x \in OrderId : orders[x] # None => orders'[x] # None
      /\ \A q \in PositionId : positions[q] # None => positions'[q] # None
      /\ \A x \in OrderId : orders'[x] # None => positions'[orders'[x].position] # None
  BY <1>1, <1>2, <1>5, <1>6, <1>7, RewriteRows
<1>10. TypeOK'
  BY <1>4, <1>7, <1>8, <1>9 DEF TypeInv, TypeOK, OrderEvent, PositionEvent, FillTable
<1>11. ASSUME NEW g \in FillId, fills'[g] # None
       PROVE  orders'[fills'[g].order] # None /\ positions'[fills'[g].position] # None
  <2>1. CASE g = f
    <3>1. fills'[g] = row
      BY <2>1, <1>7 DEF TypeInv, TypeOK
    <3> QED  BY <3>1, <1>1, <1>2, <1>3, <1>9
  <2>2. CASE g # f
    <3>1. fills'[g] = fills[g]
      BY <2>2, <1>7 DEF TypeInv, TypeOK
    <3>2. fills[g] # None /\ fills[g].order \in OrderId /\ fills[g].position \in PositionId
      BY <3>1, <1>11 DEF TypeInv, TypeOK, FillRow
    <3> QED  BY <3>1, <3>2, <1>9 DEF TypeInv, ForeignKeys
  <2> QED  BY <2>1, <2>2
<1>12. ForeignKeys'
  BY <1>9, <1>11 DEF ForeignKeys
<1> QED  BY <1>10, <1>12 DEF TypeInv

-----------------------------------------------------------------------------
\* Every operation, and every step that changes nothing, keeps TypeInv.
LEMMA TypeStep ==
  ASSUME TypeInv, [Next]_vars
  PROVE  TypeInv'
<1>1. ASSUME NEW p \in PositionId, NEW intent \in CreateIntent,
             CreatePosition(p, intent)
      PROVE  TypeInv'
  BY <1>1, CreatePositionType
<1>2. ASSUME NEW o \in OrderId, NEW intent \in OrderIntent, NEW p \in PositionId,
             NEW action \in OrderAction, NEW qty \in Qty,
             CreateOrder(o, intent, p, action, qty)
      PROVE  TypeInv'
  BY <1>2, CreateOrderType
<1>3. ASSUME NEW o \in OrderId, NEW to \in AdminTarget, NEW when \in When,
             NEW version \in Versions(o), UpdateOrderStatus(o, version, to, when)
      PROVE  TypeInv'
  <2>1. to \in OrderStatus
    BY InputAssumption
  <2> QED  BY <1>3, <2>1, UpdateOrderStatusType
<1>4. ASSUME NEW f \in FillId, NEW o \in OrderId, NEW qty \in Qty,
             NEW price \in Price, NEW fee \in Fee, NEW version \in Versions(o),
             ApplyFill(f, o, version, qty, price, fee)
      PROVE  TypeInv'
  BY <1>4, ApplyFillType
<1>5. CASE UNCHANGED vars
  BY <1>5 DEF vars, TypeInv, TypeOK, ForeignKeys
<1> QED  BY <1>1, <1>2, <1>3, <1>4, <1>5 DEF Next

\* The tables start empty.
LEMMA TypeInit == Init => TypeInv
<1> SUFFICES ASSUME Init PROVE TypeInv
  OBVIOUS
<1>1. TypeOK
  BY DEF Init, TypeOK
<1>2. ForeignKeys
  BY DEF Init, ForeignKeys
<1> QED  BY <1>1, <1>2 DEF TypeInv

(***************************************************************************)
(* Every row written by the four operations has the type of its columns,   *)
(* for any ids, quantities, prices and fees, and its foreign keys resolve. *)
(***************************************************************************)
THEOREM TypeCorrect == Spec => []TypeOK
<1>1. TypeInv => TypeOK
  BY DEF TypeInv
<1> QED  BY <1>1, TypeInit, TypeStep, PTL DEF Spec
-----------------------------------------------------------------------------
(***************************************************************************)
(* Safety.  TypeInv is strengthened by the four invariants below and by    *)
(* Booked, which ties the figures of a position and the quantities its     *)
(* orders confirmed to the same fills.                                     *)
(***************************************************************************)
Booked ==
    \A p \in PositionId :
        /\ positions[p] # None =>
            positions[p].open_contracts =
                Contracts(fills, p, "BUY") - Contracts(fills, p, "SELL")
        /\ \A a \in OrderAction : Confirmed(orders, p, a) = Contracts(fills, p, a)

SafetyInv ==
    TypeInv /\ OneNonTerminalOrder /\ UnknownOrderBlocks /\ Booked /\ SellOrdersBacked

-----------------------------------------------------------------------------
(***************************************************************************)
(* What the rewritten rows keep of the rows they replace.                  *)
(***************************************************************************)
LEMMA UpdatedOrderFields ==
  ASSUME NEW row \in OrderRow, NEW to \in OrderStatus, NEW when
  PROVE  /\ UpdatedOrder(row, to, when).status = to
         /\ UpdatedOrder(row, to, when).action = row.action
         /\ UpdatedOrder(row, to, when).requested = row.requested
         /\ UpdatedOrder(row, to, when).filled = row.filled
BY DEF UpdatedOrder, OrderRow

LEMMA FilledOrderFields ==
  ASSUME NEW row \in OrderRow, NEW qty \in Qty
  PROVE  /\ FilledOrder(row, qty).status \in {"FILLED", "PARTIALLY_FILLED"}
         /\ FilledOrder(row, qty).action = row.action
         /\ FilledOrder(row, qty).requested = row.requested
         /\ FilledOrder(row, qty).filled = row.filled + qty
<1>1. FilledStatus(row, qty) \in {"FILLED", "PARTIALLY_FILLED"}
  BY DEF FilledStatus
<1> QED  BY <1>1 DEF FilledOrder, OrderRow

LEMMA FlaggedFields ==
  ASSUME NEW row \in PositionRow, NEW blocked \in BOOLEAN, NEW when
  PROVE  /\ Flagged(row, blocked, when).blocked = blocked
         /\ Flagged(row, blocked, when).open_contracts = row.open_contracts
BY DEF Flagged, PositionRow

LEMMA RevaluedFields ==
  ASSUME NEW row \in PositionRow, NEW m
  PROVE  /\ Revalued(row, m).blocked = row.blocked
         /\ Revalued(row, m).open_contracts = m.open_contracts
BY DEF Revalued, PositionRow

\* No transition leaves a terminal status.
LEMMA TerminalIsFinal ==
  ASSUME NEW s \in OrderStatus, NEW to, to \in OrderTransitions[s]
  PROVE  s \in OrderNonTerminal
BY DEF OrderTransitions, OrderNonTerminal, OrderTerminal, OrderStatus

-----------------------------------------------------------------------------
(***************************************************************************)
(* The rows an operation writes, said once for all invariants.             *)
(***************************************************************************)
LEMMA UpdateWrites ==
  ASSUME TypeInv, NEW o \in OrderId, NEW to \in OrderStatus, NEW when, NEW version,
         UpdateOrderStatus(o, version, to, when),
         NEW p, p = orders[o].position
  PROVE  /\ orders[o] # None /\ orders[o] \in OrderRow /\ p \in PositionId
         /\ positions[p] # None /\ positions[p] \in PositionRow
         /\ orders[o].status \in OrderNonTerminal
         /\ orders' = [orders EXCEPT ![o] = orders'[o]]
         /\ orders'[o] # None /\ orders'[o] \in OrderRow
         /\ orders'[o].position = p /\ orders'[o].status = to
         /\ orders'[o].action = orders[o].action
         /\ orders'[o].requested = orders[o].requested
         /\ orders'[o].filled = orders[o].filled
         /\ positions' = [positions EXCEPT ![p] = positions'[p]]
         /\ positions'[p].blocked = HasUnknownOrder(orders', p)
         /\ positions'[p].open_contracts = positions[p].open_contracts
         /\ fills' = fills
<1> DEFINE row == UpdatedOrder(orders[o], to, when)
           blocked == HasUnknownOrder(orders', p)
           prow == Flagged(positions[p], blocked, when)
<1>1. /\ orders[o] # None /\ orders[o] \in OrderRow /\ p \in PositionId
      /\ positions[p] # None /\ positions[p] \in PositionRow
  BY OrderHasPosition DEF UpdateOrderStatus, CanUpdateOrder
<1>2. orders[o].status \in OrderNonTerminal
  <2>1. orders[o].status \in OrderStatus
    BY <1>1 DEF OrderRow
  <2>2. to \in OrderTransitions[orders[o].status]
    BY DEF UpdateOrderStatus, CanUpdateOrder
  <2> QED  BY <2>1, <2>2, TerminalIsFinal
<1>3. row \in OrderRow /\ row # None /\ row.position = p /\ row.status = to
      /\ row.action = orders[o].action /\ row.requested = orders[o].requested
      /\ row.filled = orders[o].filled
  <2>1. row \in OrderRow /\ row.position = p
    BY <1>1, UpdatedOrderType
  <2> QED  BY <1>1, <2>1, UpdatedOrderFields, NoneAssumption
<1>4. blocked \in BOOLEAN
  BY DEF HasUnknownOrder
<1>5. prow.blocked = blocked /\ prow.open_contracts = positions[p].open_contracts
  <2> HIDE DEF blocked
  <2> QED  BY <1>1, <1>4, FlaggedFields
<1>6. orders' = [orders EXCEPT ![o] = row] /\ fills' = fills
  BY DEF UpdateOrderStatus
<1>7. positions' = [positions EXCEPT ![p] = prow]
  BY Zenon DEF UpdateOrderStatus, RecomputeBlocked
<1> HIDE DEF row, blocked, prow
<1>8. orders'[o] = row /\ positions'[p] = prow
  BY <1>1, <1>6, <1>7 DEF TypeInv, TypeOK
<1>9. positions'[p].blocked = HasUnknownOrder(orders', p)
  BY <1>5, <1>8 DEF blocked
<1> QED  BY <1>1, <1>2, <1>3, <1>5, <1>6, <1>7, <1>8, <1>9

LEMMA FillWrites ==
  ASSUME TypeInv, NEW f \in FillId, NEW o \in OrderId, NEW qty \in Qty,
         NEW price \in Price, NEW fee \in Fee, NEW version,
         ApplyFill(f, o, version, qty, price, fee),
         NEW p, p = orders[o].position
  PROVE  /\ orders[o] # None /\ orders[o] \in OrderRow /\ p \in PositionId
         /\ positions[p] # None /\ positions[p] \in PositionRow
         /\ orders[o].status \in OrderNonTerminal
         /\ orders' = [orders EXCEPT ![o] = orders'[o]]
         /\ orders'[o] # None /\ orders'[o] \in OrderRow
         /\ orders'[o].position = p
         /\ orders'[o].status \in {"FILLED", "PARTIALLY_FILLED"}
         /\ orders'[o].action = orders[o].action
         /\ orders'[o].requested = orders[o].requested
         /\ orders'[o].filled = orders[o].filled + qty
         /\ positions' = [positions EXCEPT ![p] = positions'[p]]
         /\ positions'[p].blocked = positions[p].blocked
         /\ positions'[p].open_contracts =
                Contracts(fills', p, "BUY") - Contracts(fills', p, "SELL")
         /\ fills[f] = None
         /\ fills' = [fills EXCEPT ![f] = fills'[f]]
         /\ fills'[f] # None /\ fills'[f].position = p
         /\ fills'[f].action = orders[o].action /\ fills'[f].qty = qty
         /\ fills' \in FillTable
<1> DEFINE fill == NewFill(o, qty, price, fee)
           fs == [fills EXCEPT ![f] = fill]
           row == FilledOrder(orders[o], qty)
           prow == Revalued(positions[p], Metrics(fs, p))
<1>1. /\ orders[o] # None /\ orders[o] \in OrderRow /\ p \in PositionId
      /\ positions[p] # None /\ positions[p] \in PositionRow
  BY OrderHasPosition DEF ApplyFill, CanApplyFill, FillFits
<1>2. orders[o].status \in OrderNonTerminal /\ fills[f] = None
  BY DEF ApplyFill, CanApplyFill, FillFits
<1>3. /\ row \in OrderRow /\ row # None /\ row.position = p
      /\ row.status \in {"FILLED", "PARTIALLY_FILLED"}
      /\ row.action = orders[o].action /\ row.requested = orders[o].requested
      /\ row.filled = orders[o].filled + qty
  <2>1. row \in OrderRow /\ row.position = p
    BY <1>1, FilledOrderType
  <2> QED  BY <1>1, <2>1, FilledOrderFields, NoneAssumption
<1>4. /\ fill \in FillRow /\ fill # None /\ fill.position = p
      /\ fill.action = orders[o].action /\ fill.qty = qty
  <2>1. /\ fill \in FillRow /\ fill.position = p
        /\ fill.action = orders[o].action /\ fill.qty = qty
    BY <1>1 DEF NewFill, FillRow, OrderRow
  <2> QED  BY <2>1, NoneAssumption
<1>5. /\ fills' = fs
      /\ orders' = [orders EXCEPT ![o] = row]
      /\ positions' = [positions EXCEPT ![p] = prow]
  BY Zenon DEF ApplyFill, FillsWith, PositionAfter
<1>6. /\ prow.blocked = positions[p].blocked
      /\ prow.open_contracts = Contracts(fs, p, "BUY") - Contracts(fs, p, "SELL")
  <2>1. /\ prow.blocked = positions[p].blocked
        /\ prow.open_contracts = Metrics(fs, p).open_contracts
    <3> HIDE DEF fs
    <3> QED  BY <1>1, RevaluedFields
  <2>2. Metrics(fs, p).open_contracts =
            Contracts(fs, p, "BUY") - Contracts(fs, p, "SELL")
    <3> HIDE DEF fs
    <3> QED  BY DEF Metrics
  <2> QED  BY <2>1, <2>2
<1> HIDE DEF fill, row, prow
<1>7. fs \in FillTable /\ fs[f] = fill
  BY <1>4 DEF TypeInv, TypeOK, FillTable
<1> HIDE DEF fs
<1>8. orders'[o] = row /\ positions'[p] = prow /\ fills'[f] = fill
  BY <1>1, <1>5, <1>7 DEF TypeInv, TypeOK
<1>9. fills' = [fills EXCEPT ![f] = fills'[f]]
  BY <1>5, <1>8 DEF fs
<1>10. positions'[p].open_contracts =
            Contracts(fills', p, "BUY") - Contracts(fills', p, "SELL")
  BY <1>5, <1>6, <1>8
<1> QED  BY <1>1, <1>2, <1>3, <1>4, <1>5, <1>6, <1>7, <1>8, <1>9, <1>10
-----------------------------------------------------------------------------
(***************************************************************************)
(* F5, one non-terminal order: create_order checks it, and no later step   *)
(* makes a terminal order live again.                                      *)
(***************************************************************************)
\* Advancing a live order keeps the invariant.
LEMMA AdvanceKeepsOne ==
  ASSUME TypeInv, OneNonTerminalOrder, NEW o \in OrderId,
         orders[o] # None, orders[o].status \in OrderNonTerminal,
         orders' = [orders EXCEPT ![o] = orders'[o]],
         orders'[o].position = orders[o].position
  PROVE  OneNonTerminalOrder'
<1>1. \A x \in OrderId : x # o => orders'[x] = orders[x]
  BY DEF TypeInv, TypeOK
<1> QED  BY <1>1 DEF OneNonTerminalOrder

LEMMA OneNonTerminalStep ==
  ASSUME TypeInv, OneNonTerminalOrder, [Next]_vars
  PROVE  OneNonTerminalOrder'
<1>1. ASSUME NEW p \in PositionId, NEW intent \in CreateIntent,
             CreatePosition(p, intent)
      PROVE  OneNonTerminalOrder'
  BY <1>1 DEF CreatePosition, OneNonTerminalOrder
<1>2. ASSUME NEW o \in OrderId, NEW intent \in OrderIntent, NEW p \in PositionId,
             NEW action \in OrderAction, NEW qty \in Qty,
             CreateOrder(o, intent, p, action, qty)
      PROVE  OneNonTerminalOrder'
  <2>1. \A x \in OrderId : x # o => orders'[x] = orders[x]
    BY <1>2 DEF CreateOrder, TypeInv, TypeOK
  <2>2. orders'[o].position = p
    BY <1>2 DEF CreateOrder, NewOrder, TypeInv, TypeOK
  <2>3. \A x \in OrderId : orders[x] # None /\ orders[x].position = p
                            => orders[x].status \notin OrderNonTerminal
    BY <1>2 DEF CreateOrder, CanCreateOrder, HasNonTerminalOrder, OrdersOf
  <2> QED  BY <2>1, <2>2, <2>3 DEF OneNonTerminalOrder
<1>3. ASSUME NEW o \in OrderId, NEW to \in AdminTarget, NEW when \in When,
             NEW version \in Versions(o), UpdateOrderStatus(o, version, to, when)
      PROVE  OneNonTerminalOrder'
  <2>1. to \in OrderStatus
    BY InputAssumption
  <2>2. /\ orders[o] # None /\ orders[o].status \in OrderNonTerminal
        /\ orders' = [orders EXCEPT ![o] = orders'[o]]
        /\ orders'[o].position = orders[o].position
    BY <1>3, <2>1, UpdateWrites
  <2> QED  BY <2>2, AdvanceKeepsOne
<1>4. ASSUME NEW f \in FillId, NEW o \in OrderId, NEW qty \in Qty,
             NEW price \in Price, NEW fee \in Fee, NEW version \in Versions(o),
             ApplyFill(f, o, version, qty, price, fee)
      PROVE  OneNonTerminalOrder'
  <2>1. /\ orders[o] # None /\ orders[o].status \in OrderNonTerminal
        /\ orders' = [orders EXCEPT ![o] = orders'[o]]
        /\ orders'[o].position = orders[o].position
    BY <1>4, FillWrites
  <2> QED  BY <2>1, AdvanceKeepsOne
<1>5. CASE UNCHANGED vars
  BY <1>5 DEF vars, OneNonTerminalOrder
<1> QED  BY <1>1, <1>2, <1>3, <1>4, <1>5 DEF Next

-----------------------------------------------------------------------------
(***************************************************************************)
(* An UNKNOWN order blocks its position: update_order_status recomputes    *)
(* the flag from the orders it has just written, and a fill never makes an *)
(* order UNKNOWN.                                                          *)
(***************************************************************************)
LEMMA UnknownBlocksStep ==
  ASSUME TypeInv, UnknownOrderBlocks, [Next]_vars
  PROVE  UnknownOrderBlocks'
<1> USE DEF UnknownOrderBlocks
<1>1. ASSUME NEW p \in PositionId, NEW intent \in CreateIntent,
             CreatePosition(p, intent)
      PROVE  UnknownOrderBlocks'
  <2>1. orders' = orders /\ positions[p] = None
        /\ \A q \in PositionId : q # p => positions'[q] = positions[q]
    BY <1>1 DEF CreatePosition, TypeInv, TypeOK
  <2> QED  BY <2>1, OrderHasPosition
<1>2. ASSUME NEW o \in OrderId, NEW intent \in OrderIntent, NEW p \in PositionId,
             NEW action \in OrderAction, NEW qty \in Qty,
             CreateOrder(o, intent, p, action, qty)
      PROVE  UnknownOrderBlocks'
  <2>1. positions' = positions /\ orders'[o].status = "PLANNED"
        /\ \A x \in OrderId : x # o => orders'[x] = orders[x]
    BY <1>2 DEF CreateOrder, NewOrder, TypeInv, TypeOK
  <2> QED  BY <2>1
<1>3. ASSUME NEW o \in OrderId, NEW to \in AdminTarget, NEW when \in When,
             NEW version \in Versions(o), UpdateOrderStatus(o, version, to, when)
      PROVE  UnknownOrderBlocks'
  <2> DEFINE p == orders[o].position
  <2>1. /\ p \in PositionId /\ orders'[o].position = p
        /\ orders' = [orders EXCEPT ![o] = orders'[o]]
        /\ positions' = [positions EXCEPT ![p] = positions'[p]]
        /\ positions'[p].blocked = HasUnknownOrder(orders', p)
    BY <1>3, InputAssumption, UpdateWrites
  <2>2. ASSUME NEW x \in OrderId, orders'[x] # None, orders'[x].status = "UNKNOWN"
        PROVE  positions'[orders'[x].position].blocked
    <3>1. CASE orders'[x].position = p
      <4>1. HasUnknownOrder(orders', p)
        BY <2>2, <3>1 DEF HasUnknownOrder, OrdersOf
      <4> QED  BY <2>1, <3>1, <4>1
    <3>2. CASE orders'[x].position # p
      <4>1. orders'[x] = orders[x]
        BY <2>1, <3>2 DEF TypeInv, TypeOK
      <4>2. orders[x].position \in PositionId
        BY <2>2, <4>1, OrderHasPosition
      <4>3. positions'[orders[x].position] = positions[orders[x].position]
        BY <2>1, <3>2, <4>1, <4>2 DEF TypeInv, TypeOK
      <4> QED  BY <2>2, <4>1, <4>3
    <3> QED  BY <3>1, <3>2
  <2> QED  BY <2>2
<1>4. ASSUME NEW f \in FillId, NEW o \in OrderId, NEW qty \in Qty,
             NEW price \in Price, NEW fee \in Fee, NEW version \in Versions(o),
             ApplyFill(f, o, version, qty, price, fee)
      PROVE  UnknownOrderBlocks'
  <2> DEFINE p == orders[o].position
  <2>1. /\ p \in PositionId
        /\ orders'[o].status \in {"FILLED", "PARTIALLY_FILLED"}
        /\ orders' = [orders EXCEPT ![o] = orders'[o]]
        /\ positions' = [positions EXCEPT ![p] = positions'[p]]
        /\ positions'[p].blocked = positions[p].blocked
    BY <1>4, FillWrites
  <2>2. \A x \in OrderId : x # o => orders'[x] = orders[x]
    BY <2>1 DEF TypeInv, TypeOK
  <2>3. \A q \in PositionId : q # p => positions'[q] = positions[q]
    BY <2>1 DEF TypeInv, TypeOK
  <2>4. ASSUME NEW x \in OrderId, orders'[x] # None, orders'[x].status = "UNKNOWN"
        PROVE  positions'[orders'[x].position].blocked
    <3>1. orders'[x] = orders[x]
      BY <2>1, <2>2, <2>4
    <3>2. positions[orders[x].position].blocked
      BY <2>4, <3>1
    <3>3. orders[x].position \in PositionId
      BY <2>4, <3>1, OrderHasPosition
    <3> HIDE DEF p
    <3> QED  BY <2>1, <2>3, <3>1, <3>2, <3>3
  <2> QED  BY <2>4
<1>5. CASE UNCHANGED vars
  BY <1>5 DEF vars
<1> QED  BY <1>1, <1>2, <1>3, <1>4, <1>5 DEF Next
-----------------------------------------------------------------------------
(***************************************************************************)
(* The two ledgers of a position: its fills, and the quantities its orders *)
(* confirmed.  They are booked together.                                   *)
(***************************************************************************)
OrderTable == [OrderId -> OrderRow \cup {None}]

OrdersFor(os, p, a) == {o \in OrdersOf(os, p, OrderStatus) : os[o].action = a}

\* A fill that is inserted adds its contracts to its own position and side.
LEMMA ContractsOfNewFill ==
  ASSUME NEW fs \in FillTable, NEW gs \in FillTable, NEW f \in FillId,
         fs[f] = None, gs[f] # None, gs = [fs EXCEPT ![f] = gs[f]],
         NEW q, NEW a
  PROVE  Contracts(gs, q, a) =
            Contracts(fs, q, a)
              + (IF gs[f].position = q /\ gs[f].action = a THEN gs[f].qty ELSE 0)
<1> DEFINE F == FillsOf(fs, q, a)
           G == FillsOf(gs, q, a)
           x == [g \in F |-> fs[g].qty]
           y == [g \in G |-> gs[g].qty]
<1>1. \A g \in FillId : g # f => gs[g] = fs[g]
  BY DEF FillTable
<1>2. /\ IsFiniteSet(F) /\ IsFiniteSet(G) /\ f \notin F
      /\ \A g \in F : x[g] \in Nat
      /\ \A g \in G : y[g] \in Nat
  <2>1. f \notin F
    BY DEF FillsOf
  <2>2. /\ IsFiniteSet(F) /\ IsFiniteSet(G)
        /\ \A g \in F : fs[g].qty \in Nat
        /\ \A g \in G : gs[g].qty \in Nat
    BY FillsOfFinite, FillRowAmounts
  <2> QED  BY <2>1, <2>2
<1>3. \A g \in F : g \in FillId /\ g # f
  BY DEF FillsOf
<1>4. Contracts(fs, q, a) = Total(F, x) /\ Contracts(gs, q, a) = Total(G, y)
  BY DEF Contracts
<1>5. Total(F, x) \in Nat
  <2> HIDE DEF F, G, x, y
  <2> QED  BY <1>2, TotalType
<1>6. CASE gs[f].position = q /\ gs[f].action = a
  <2>1. G = F \cup {f}
    BY <1>1, <1>6 DEF FillsOf
  <2>2. \A g \in F : x[g] = y[g]
    BY <1>1, <1>3, <2>1
  <2>3. y[f] = gs[f].qty
    BY <2>1
  <2> HIDE DEF F, G, x, y
  <2>4. Total(F, x) = Total(F, y)
    BY <2>2, TotalCongruence
  <2>5. Total(G, y) = Total(F, y) + y[f]
    BY <1>2, <2>1, TotalAdd
  <2> QED  BY <1>4, <1>6, <2>3, <2>4, <2>5
<1>7. CASE ~(gs[f].position = q /\ gs[f].action = a)
  <2>1. G = F
    BY <1>1, <1>7 DEF FillsOf
  <2>2. \A g \in F : x[g] = y[g]
    BY <1>1, <1>3, <2>1
  <2> HIDE DEF F, G, x, y
  <2>3. Total(F, x) = Total(F, y)
    BY <2>2, TotalCongruence
  <2> QED  BY <1>4, <1>5, <1>7, <2>1, <2>3
<1> QED  BY <1>6, <1>7

\* The orders of a position and side are finitely many rows.
LEMMA OrdersForFinite ==
  ASSUME NEW os \in OrderTable, NEW q, NEW a
  PROVE  /\ IsFiniteSet(OrdersFor(os, q, a))
         /\ \A o \in OrdersFor(os, q, a) : o \in OrderId /\ os[o].filled \in Nat
<1>1. OrdersFor(os, q, a) \in SUBSET OrderId
  BY DEF OrdersFor, OrdersOf
<1>2. IsFiniteSet(OrdersFor(os, q, a))
  BY <1>1, FiniteAssumption, FS_Subset
<1>3. ASSUME NEW o \in OrdersFor(os, q, a)
      PROVE  o \in OrderId /\ os[o].filled \in Nat
  <2>1. o \in OrderId /\ os[o] \in OrderRow
    BY DEF OrdersFor, OrdersOf, OrderTable
  <2> QED  BY <2>1 DEF OrderRow
<1> QED  BY <1>2, <1>3

\* A new order confirms nothing.
LEMMA ConfirmedOfNewOrder ==
  ASSUME NEW os \in OrderTable, NEW ns \in OrderTable, NEW o \in OrderId,
         os[o] = None, ns[o] # None, ns[o].filled = 0, ns = [os EXCEPT ![o] = ns[o]],
         NEW q, NEW a
  PROVE  Confirmed(ns, q, a) = Confirmed(os, q, a)
<1> DEFINE F == OrdersFor(os, q, a)
           G == OrdersFor(ns, q, a)
           x == [z \in F |-> os[z].filled]
           y == [z \in G |-> ns[z].filled]
<1>1. \A z \in OrderId : z # o => ns[z] = os[z]
  BY DEF OrderTable
<1>2. /\ IsFiniteSet(F) /\ IsFiniteSet(G) /\ o \notin F
      /\ \A z \in F : z \in OrderId /\ z # o /\ x[z] \in Nat
      /\ \A z \in G : y[z] \in Nat
  <2>1. o \notin F
    BY DEF OrdersFor, OrdersOf
  <2>2. /\ IsFiniteSet(F) /\ IsFiniteSet(G)
        /\ \A z \in F : z \in OrderId /\ os[z].filled \in Nat
        /\ \A z \in G : ns[z].filled \in Nat
    BY OrdersForFinite
  <2> QED  BY <2>1, <2>2
<1>3. Confirmed(os, q, a) = Total(F, x) /\ Confirmed(ns, q, a) = Total(G, y)
  BY DEF Confirmed, OrdersFor
<1>4. F \subseteq G /\ G \subseteq F \cup {o}
  BY <1>1 DEF OrdersFor, OrdersOf
<1>5. \A z \in F : x[z] = y[z]
  BY <1>1, <1>2, <1>4
<1>6. o \in G => y[o] = 0
  OBVIOUS
<1> HIDE DEF F, G, x, y
<1>7. Total(F, x) = Total(F, y) /\ Total(F, x) \in Nat
  BY <1>2, <1>5, TotalCongruence, TotalType
<1>8. CASE o \in G
  <2>1. G = F \cup {o}
    BY <1>4, <1>8
  <2>2. Total(G, y) = Total(F, y) + y[o]
    BY <1>2, <2>1, TotalAdd
  <2> QED  BY <1>3, <1>6, <1>7, <1>8, <2>2
<1>9. CASE o \notin G
  <2>1. G = F
    BY <1>4, <1>9
  <2> QED  BY <1>3, <1>7, <2>1
<1> QED  BY <1>8, <1>9

\* An order that confirms n more contracts adds n to its position and side.
LEMMA ConfirmedOfAdvance ==
  ASSUME NEW os \in OrderTable, NEW ns \in OrderTable, NEW o \in OrderId, NEW n \in Nat,
         os[o] # None, ns[o] # None, ns = [os EXCEPT ![o] = ns[o]],
         ns[o].position = os[o].position, ns[o].action = os[o].action,
         ns[o].filled = os[o].filled + n,
         NEW q, NEW a
  PROVE  Confirmed(ns, q, a) =
            Confirmed(os, q, a)
              + (IF os[o].position = q /\ os[o].action = a THEN n ELSE 0)
<1> DEFINE F == OrdersFor(os, q, a)
           x == [z \in F |-> os[z].filled]
           y == [z \in F |-> ns[z].filled]
<1>1. \A z \in OrderId : z # o => ns[z] = os[z]
  BY DEF OrderTable
<1>2. os[o].status \in OrderStatus /\ ns[o].status \in OrderStatus
  <2>1. os[o] \in OrderRow /\ ns[o] \in OrderRow
    BY DEF OrderTable
  <2> QED  BY <2>1 DEF OrderRow
<1>3. OrdersFor(ns, q, a) = F
  BY <1>1, <1>2 DEF OrdersFor, OrdersOf
<1>4. /\ IsFiniteSet(F)
      /\ \A z \in F : z \in OrderId /\ x[z] \in Nat /\ y[z] \in Nat
  BY <1>3, OrdersForFinite
<1>5. \A z \in F \ {o} : y[z] = x[z]
  BY <1>1, <1>4
<1>6. Confirmed(os, q, a) = Total(F, x) /\ Confirmed(ns, q, a) = Total(F, y)
  BY <1>3 DEF Confirmed, OrdersFor
<1>7. o \in F <=> os[o].position = q /\ os[o].action = a
  BY <1>2 DEF OrdersFor, OrdersOf
<1>8. o \in F => y[o] = x[o] + n
  OBVIOUS
<1> HIDE DEF F, x, y
<1>9. Total(F, x) \in Nat
  BY <1>4, TotalType
<1>10. CASE o \in F
  <2>1. Total(F, y) = Total(F, x) + n
    BY <1>4, <1>5, <1>8, <1>10, TotalBump
  <2> QED  BY <1>6, <1>7, <1>10, <2>1
<1>11. CASE o \notin F
  <2>1. Total(F, y) = Total(F, x)
    BY <1>5, <1>11, TotalCongruence
  <2> QED  BY <1>6, <1>7, <1>9, <1>11, <2>1
<1> QED  BY <1>10, <1>11
\* The figures a position is created with are those of no fills at all.
LEMMA NoFillsNoContracts ==
  ASSUME TypeInv, NEW p \in PositionId, positions[p] = None, NEW a
  PROVE  Contracts(fills, p, a) = 0
<1>1. FillsOf(fills, p, a) = {}
  BY DEF TypeInv, ForeignKeys, FillsOf
<1> QED  BY <1>1, TotalEmpty DEF Contracts

LEMMA BookedStep ==
  ASSUME TypeInv, TypeInv', Booked, [Next]_vars
  PROVE  Booked'
<1>0. orders \in OrderTable /\ orders' \in OrderTable /\ fills \in FillTable
  BY DEF TypeInv, TypeOK, OrderTable, FillTable
<1>1. ASSUME NEW p \in PositionId, NEW intent \in CreateIntent,
             CreatePosition(p, intent)
      PROVE  Booked'
  <2>1. /\ orders' = orders /\ fills' = fills
        /\ positions[p] = None /\ positions'[p].open_contracts = 0
        /\ \A q \in PositionId : q # p => positions'[q] = positions[q]
    BY <1>1 DEF CreatePosition, NewPosition, TypeInv, TypeOK
  <2>2. Contracts(fills, p, "BUY") = 0 /\ Contracts(fills, p, "SELL") = 0
    BY <2>1, NoFillsNoContracts
  <2>3. \A q \in PositionId : positions'[q] # None =>
            positions'[q].open_contracts =
                Contracts(fills, q, "BUY") - Contracts(fills, q, "SELL")
    BY <2>1, <2>2 DEF Booked
  <2>4. \A q \in PositionId, a \in OrderAction :
            Confirmed(orders, q, a) = Contracts(fills, q, a)
    BY DEF Booked
  <2> QED  BY <2>1, <2>3, <2>4 DEF Booked
<1>2. ASSUME NEW o \in OrderId, NEW intent \in OrderIntent, NEW p \in PositionId,
             NEW action \in OrderAction, NEW qty \in Qty,
             CreateOrder(o, intent, p, action, qty)
      PROVE  Booked'
  <2>1. orders[o] = None /\ positions' = positions /\ fills' = fills
    BY <1>2 DEF CreateOrder, CanCreateOrder
  <2>2. orders' = [orders EXCEPT ![o] = NewOrder(intent, p, action, qty)]
    BY <1>2 DEF CreateOrder
  <2>3. orders'[o] = NewOrder(intent, p, action, qty)
    BY <2>2 DEF TypeInv, TypeOK
  <2>4. orders'[o].filled = 0 /\ orders'[o].position = p
    BY <2>3 DEF NewOrder
  <2>5. NewOrder(intent, p, action, qty) \in OrderRow
    BY DEF NewOrder, OrderRow, OrderStatus
  <2>6. orders'[o] # None /\ orders' = [orders EXCEPT ![o] = orders'[o]]
    BY <2>2, <2>3, <2>5, NoneAssumption
  <2>7. \A q \in PositionId, a \in OrderAction :
            Confirmed(orders', q, a) = Confirmed(orders, q, a)
    BY <1>0, <2>1, <2>4, <2>6, ConfirmedOfNewOrder
  <2> QED  BY <2>1, <2>7 DEF Booked
<1>3. ASSUME NEW o \in OrderId, NEW to \in AdminTarget, NEW when \in When,
             NEW version \in Versions(o), UpdateOrderStatus(o, version, to, when)
      PROVE  Booked'
  <2> DEFINE p == orders[o].position
  <2>1. to \in OrderStatus
    BY InputAssumption
  <2>2. /\ p \in PositionId /\ orders[o] # None /\ positions[p] # None
        /\ orders[o] \in OrderRow /\ orders'[o] # None
        /\ orders' = [orders EXCEPT ![o] = orders'[o]]
        /\ orders'[o].position = p /\ orders'[o].action = orders[o].action
        /\ orders'[o].filled = orders[o].filled
        /\ positions' = [positions EXCEPT ![p] = positions'[p]]
        /\ positions'[p].open_contracts = positions[p].open_contracts
        /\ fills' = fills
    BY <1>3, <2>1, UpdateWrites
  <2>3. orders'[o].filled = orders[o].filled + 0
    BY <2>2 DEF OrderRow
  <2>4. ASSUME NEW q \in PositionId, NEW a \in OrderAction
        PROVE  Confirmed(orders', q, a) = Contracts(fills, q, a)
    <3>1. Confirmed(orders', q, a) = Confirmed(orders, q, a) +
            (IF orders[o].position = q /\ orders[o].action = a THEN 0 ELSE 0)
      BY <1>0, <2>2, <2>3, ConfirmedOfAdvance
    <3>2. Contracts(fills, q, a) \in Nat
      BY <1>0, SumsType
    <3>3. Confirmed(orders, q, a) = Contracts(fills, q, a)
      BY DEF Booked
    <3> QED  BY <3>1, <3>2, <3>3
  <2>5. \A q \in PositionId : q # p => positions'[q] = positions[q]
    BY <2>2 DEF TypeInv, TypeOK
  <2> HIDE DEF p
  <2>6. ASSUME NEW q \in PositionId, positions'[q] # None
        PROVE  positions'[q].open_contracts =
                Contracts(fills, q, "BUY") - Contracts(fills, q, "SELL")
    <3>1. positions[q] # None
      BY <2>2, <2>5, <2>6
    <3>2. positions'[q].open_contracts = positions[q].open_contracts
      BY <2>2, <2>5
    <3> QED  BY <3>1, <3>2 DEF Booked
  <2> QED  BY <2>2, <2>4, <2>6 DEF Booked
<1>4. ASSUME NEW f \in FillId, NEW o \in OrderId, NEW qty \in Qty,
             NEW price \in Price, NEW fee \in Fee, NEW version \in Versions(o),
             ApplyFill(f, o, version, qty, price, fee)
      PROVE  Booked'
  <2> DEFINE p == orders[o].position
             bump(q, a) == IF p = q /\ orders[o].action = a THEN qty ELSE 0
  <2>1. /\ p \in PositionId /\ orders[o] # None
        /\ orders[o] \in OrderRow /\ orders'[o] # None
        /\ orders' = [orders EXCEPT ![o] = orders'[o]]
        /\ orders'[o].position = p /\ orders'[o].action = orders[o].action
        /\ orders'[o].filled = orders[o].filled + qty
        /\ positions' = [positions EXCEPT ![p] = positions'[p]]
        /\ positions'[p].open_contracts =
                Contracts(fills', p, "BUY") - Contracts(fills', p, "SELL")
    BY <1>4, FillWrites
  <2>2. /\ fills[f] = None /\ fills' = [fills EXCEPT ![f] = fills'[f]]
        /\ fills'[f] # None /\ fills'[f].position = p
        /\ fills'[f].action = orders[o].action /\ fills'[f].qty = qty
        /\ fills' \in FillTable
    BY <1>4, FillWrites
  <2>3. ASSUME NEW q \in PositionId, NEW a \in OrderAction
        PROVE  Contracts(fills', q, a) = Contracts(fills, q, a) + bump(q, a)
    <3>1. Contracts(fills', q, a) = Contracts(fills, q, a) +
            (IF fills'[f].position = q /\ fills'[f].action = a
             THEN fills'[f].qty ELSE 0)
      BY <1>0, <2>2, ContractsOfNewFill
    <3> QED  BY <2>2, <3>1
  <2>4. ASSUME NEW q \in PositionId, NEW a \in OrderAction
        PROVE  Confirmed(orders', q, a) = Confirmed(orders, q, a) + bump(q, a)
    <3>1. qty \in Nat
      BY InputAssumption
    <3> QED  BY <1>0, <2>1, <3>1, ConfirmedOfAdvance
  <2>5. \A q \in PositionId : q # p => positions'[q] = positions[q]
    BY <2>1 DEF TypeInv, TypeOK
  <2> HIDE DEF p
  <2>6. ASSUME NEW q \in PositionId, NEW a \in OrderAction
        PROVE  Confirmed(orders', q, a) = Contracts(fills', q, a)
    BY <2>3, <2>4 DEF Booked
  <2>7. ASSUME NEW q \in PositionId, positions'[q] # None
        PROVE  positions'[q].open_contracts =
                Contracts(fills', q, "BUY") - Contracts(fills', q, "SELL")
    <3>1. CASE q = p
      BY <2>1, <3>1
    <3>2. CASE q # p
      <4>1. bump(q, "BUY") = 0 /\ bump(q, "SELL") = 0
        BY <3>2
      <4>2. /\ Contracts(fills', q, "BUY") = Contracts(fills, q, "BUY")
            /\ Contracts(fills', q, "SELL") = Contracts(fills, q, "SELL")
        <5> HIDE DEF bump
        <5> QED  BY <1>0, <2>3, <4>1, SumsType DEF OrderAction
      <4> QED  BY <2>5, <2>7, <3>2, <4>2 DEF Booked
    <3> QED  BY <3>1, <3>2
  <2> QED  BY <2>6, <2>7 DEF Booked
<1>5. CASE UNCHANGED vars
  BY <1>5 DEF vars, Booked
<1> QED  BY <1>1, <1>2, <1>3, <1>4, <1>5 DEF Next
-----------------------------------------------------------------------------
(***************************************************************************)
(* A live sale stays backed: it was when it was prepared, it is the only   *)
(* live order of its position (F5), so only its own fills can take open    *)
(* contracts away, and each takes as many as it leaves the order to sell.  *)
(***************************************************************************)
LEMMA SellBackedStep ==
  ASSUME TypeInv, TypeInv', OneNonTerminalOrder, Booked, SellOrdersBacked, [Next]_vars
  PROVE  SellOrdersBacked'
<1>0. orders \in OrderTable /\ fills \in FillTable
  BY DEF TypeInv, TypeOK, OrderTable, FillTable
<1>1. ASSUME NEW p \in PositionId, NEW intent \in CreateIntent,
             CreatePosition(p, intent)
      PROVE  SellOrdersBacked'
  <2>1. /\ orders' = orders /\ positions[p] = None
        /\ \A q \in PositionId : q # p => positions'[q] = positions[q]
    BY <1>1 DEF CreatePosition, TypeInv, TypeOK
  <2> QED  BY <2>1, OrderHasPosition DEF SellOrdersBacked
<1>2. ASSUME NEW o \in OrderId, NEW intent \in OrderIntent, NEW p \in PositionId,
             NEW action \in OrderAction, NEW qty \in Qty,
             CreateOrder(o, intent, p, action, qty)
      PROVE  SellOrdersBacked'
  <2>1. /\ positions' = positions
        /\ action = "SELL" => qty <= positions[p].open_contracts
        /\ orders' = [orders EXCEPT ![o] = NewOrder(intent, p, action, qty)]
    BY <1>2 DEF CreateOrder, CanCreateOrder
  <2>2. /\ orders'[o] = NewOrder(intent, p, action, qty)
        /\ \A x \in OrderId : x # o => orders'[x] = orders[x]
    BY <2>1 DEF TypeInv, TypeOK
  <2>3. /\ orders'[o].position = p /\ orders'[o].action = action
        /\ orders'[o].requested = qty /\ orders'[o].filled = 0
    BY <2>2 DEF NewOrder
  <2>4. qty - 0 = qty
    BY InputAssumption
  <2> QED  BY <2>1, <2>2, <2>3, <2>4 DEF SellOrdersBacked
<1>3. ASSUME NEW o \in OrderId, NEW to \in AdminTarget, NEW when \in When,
             NEW version \in Versions(o), UpdateOrderStatus(o, version, to, when)
      PROVE  SellOrdersBacked'
  <2> DEFINE p == orders[o].position
  <2>1. to \in OrderStatus
    BY InputAssumption
  <2>2. /\ p \in PositionId /\ orders[o] # None
        /\ orders[o].status \in OrderNonTerminal
        /\ orders' = [orders EXCEPT ![o] = orders'[o]]
        /\ orders'[o].position = p /\ orders'[o].action = orders[o].action
        /\ orders'[o].requested = orders[o].requested
        /\ orders'[o].filled = orders[o].filled
        /\ positions' = [positions EXCEPT ![p] = positions'[p]]
        /\ positions'[p].open_contracts = positions[p].open_contracts
    BY <1>3, <2>1, UpdateWrites
  <2>3. /\ \A x \in OrderId : x # o => orders'[x] = orders[x]
        /\ \A q \in PositionId :
                positions'[q].open_contracts = positions[q].open_contracts
    <3> HIDE DEF p
    <3> QED  BY <2>2 DEF TypeInv, TypeOK
  <2>4. ASSUME NEW x \in OrderId, orders'[x] # None, orders'[x].action = "SELL",
               orders'[x].status \in OrderNonTerminal
        PROVE  orders'[x].requested - orders'[x].filled
                    <= positions'[orders'[x].position].open_contracts
    <3>1. /\ orders[x] # None /\ orders[x].action = "SELL"
          /\ orders[x].status \in OrderNonTerminal
          /\ orders'[x].requested = orders[x].requested
          /\ orders'[x].filled = orders[x].filled
          /\ orders'[x].position = orders[x].position
      BY <2>2, <2>3, <2>4
    <3>2. orders[x].position \in PositionId
      BY <3>1, OrderHasPosition
    <3> QED  BY <2>3, <3>1, <3>2 DEF SellOrdersBacked
  <2> QED  BY <2>4 DEF SellOrdersBacked
<1>4. ASSUME NEW f \in FillId, NEW o \in OrderId, NEW qty \in Qty,
             NEW price \in Price, NEW fee \in Fee, NEW version \in Versions(o),
             ApplyFill(f, o, version, qty, price, fee)
      PROVE  SellOrdersBacked'
  <2> DEFINE p == orders[o].position
  <2>1. /\ p \in PositionId /\ orders[o] # None /\ positions[p] # None
        /\ orders[o] \in OrderRow /\ orders[o].status \in OrderNonTerminal
        /\ orders' = [orders EXCEPT ![o] = orders'[o]]
        /\ orders'[o].position = p /\ orders'[o].action = orders[o].action
        /\ orders'[o].requested = orders[o].requested
        /\ orders'[o].filled = orders[o].filled + qty
        /\ positions' = [positions EXCEPT ![p] = positions'[p]]
        /\ positions'[p].open_contracts =
                Contracts(fills', p, "BUY") - Contracts(fills', p, "SELL")
    BY <1>4, FillWrites
  <2>2. /\ fills[f] = None /\ fills' = [fills EXCEPT ![f] = fills'[f]]
        /\ fills'[f] # None /\ fills'[f].position = p
        /\ fills'[f].action = orders[o].action /\ fills'[f].qty = qty
        /\ fills' \in FillTable
    BY <1>4, FillWrites
  <2>3. /\ \A x \in OrderId : x # o => orders'[x] = orders[x]
        /\ \A q \in PositionId : q # p => positions'[q] = positions[q]
    BY <2>1 DEF TypeInv, TypeOK
  <2>4. qty \in Nat /\ orders[o].requested \in Nat /\ orders[o].filled \in Nat
    BY <2>1, InputAssumption DEF OrderRow
  <2> HIDE DEF p
  <2>5. CASE orders[o].action = "SELL"
    <3>1. positions'[p].open_contracts = positions[p].open_contracts - qty
      <4>1. /\ Contracts(fills', p, "BUY") = Contracts(fills, p, "BUY") + 0
            /\ Contracts(fills', p, "SELL") = Contracts(fills, p, "SELL") + qty
        BY <1>0, <2>2, <2>5, ContractsOfNewFill
      <4>2. Contracts(fills, p, "BUY") \in Nat /\ Contracts(fills, p, "SELL") \in Nat
        BY <1>0, SumsType
      <4>3. positions[p].open_contracts =
                Contracts(fills, p, "BUY") - Contracts(fills, p, "SELL")
        BY <2>1 DEF Booked
      <4> QED  BY <2>1, <2>4, <4>1, <4>2, <4>3
    <3>2. positions[p].open_contracts \in Int
      BY <2>1 DEF TypeInv, TypeOK, PositionRow
    <3>3. orders[o].requested - orders[o].filled <= positions[p].open_contracts
      BY <2>1, <2>5 DEF SellOrdersBacked, p
    <3>4. orders'[o].requested - orders'[o].filled
                <= positions'[orders'[o].position].open_contracts
      BY <2>1, <2>4, <3>1, <3>2, <3>3
    <3>5. ASSUME NEW x \in OrderId, x # o, orders'[x] # None,
                 orders'[x].action = "SELL", orders'[x].status \in OrderNonTerminal
          PROVE  orders'[x].requested - orders'[x].filled
                    <= positions'[orders'[x].position].open_contracts
      <4>1. orders'[x] = orders[x] /\ orders[x].position \in PositionId
        BY <2>3, <3>5, OrderHasPosition
      <4>2. orders[x].position # p
        BY <2>1, <3>5, <4>1 DEF OneNonTerminalOrder, p
      <4> QED  BY <2>3, <3>5, <4>1, <4>2 DEF SellOrdersBacked
    <3> QED  BY <3>4, <3>5 DEF SellOrdersBacked
  <2>6. CASE orders[o].action # "SELL"
    <3>1. ASSUME NEW x \in OrderId, orders'[x] # None,
                 orders'[x].action = "SELL", orders'[x].status \in OrderNonTerminal
          PROVE  orders'[x].requested - orders'[x].filled
                    <= positions'[orders'[x].position].open_contracts
      <4>1. x # o
        BY <2>1, <2>6, <3>1
      <4>2. orders'[x] = orders[x] /\ orders[x].position \in PositionId
        BY <2>3, <3>1, <4>1, OrderHasPosition
      <4>3. orders[x].position # p
        BY <2>1, <3>1, <4>1, <4>2 DEF OneNonTerminalOrder, p
      <4> QED  BY <2>3, <3>1, <4>2, <4>3 DEF SellOrdersBacked
    <3> QED  BY <3>1 DEF SellOrdersBacked
  <2> QED  BY <2>5, <2>6
<1>5. CASE UNCHANGED vars
  BY <1>5 DEF vars, SellOrdersBacked
<1> QED  BY <1>1, <1>2, <1>3, <1>4, <1>5 DEF Next

-----------------------------------------------------------------------------
(***************************************************************************)
(* The invariant of the specification.                                     *)
(***************************************************************************)
LEMMA SafetyInit == Init => SafetyInv
<1> SUFFICES ASSUME Init PROVE SafetyInv
  OBVIOUS
<1>1. TypeInv
  BY TypeInit
<1>2. OneNonTerminalOrder /\ UnknownOrderBlocks /\ SellOrdersBacked
  BY DEF Init, OneNonTerminalOrder, UnknownOrderBlocks, SellOrdersBacked
<1>3. ASSUME NEW p \in PositionId
      PROVE  positions[p] = None
             /\ \A a \in OrderAction : Confirmed(orders, p, a) = Contracts(fills, p, a)
  <2>1. positions[p] = None /\ \A x \in OrderId : orders[x] = None
    BY DEF Init
  <2>2. ASSUME NEW a \in OrderAction
        PROVE  Confirmed(orders, p, a) = 0
    <3>1. OrdersFor(orders, p, a) = {}
      BY <2>1 DEF OrdersFor, OrdersOf
    <3> QED  BY <3>1, TotalEmpty DEF Confirmed, OrdersFor
  <2>3. \A a \in OrderAction : Contracts(fills, p, a) = 0
    BY <1>1, <2>1, NoFillsNoContracts
  <2> QED  BY <2>1, <2>2, <2>3
<1>4. Booked
  BY <1>3 DEF Booked
<1> QED  BY <1>1, <1>2, <1>4 DEF SafetyInv

LEMMA SafetyStep ==
  ASSUME SafetyInv, [Next]_vars
  PROVE  SafetyInv'
<1>1. TypeInv'
  BY TypeStep DEF SafetyInv
<1>2. OneNonTerminalOrder' /\ UnknownOrderBlocks' /\ Booked' /\ SellOrdersBacked'
  BY <1>1, OneNonTerminalStep, UnknownBlocksStep, BookedStep, SellBackedStep
     DEF SafetyInv
<1> QED  BY <1>1, <1>2 DEF SafetyInv

LEMMA SafetyAlways == Spec => []SafetyInv
BY SafetyInit, SafetyStep, PTL DEF Spec

\* F5: at most one non-terminal order per position, whatever orders and
\* positions there are and in whatever order their callers act.
THEOREM OneNonTerminalOrderAlways == Spec => []OneNonTerminalOrder
<1>1. SafetyInv => OneNonTerminalOrder
  BY DEF SafetyInv
<1> QED  BY <1>1, SafetyAlways, PTL

\* An order in status UNKNOWN always blocks its position.
THEOREM UnknownOrderBlocksAlways == Spec => []UnknownOrderBlocks
<1>1. SafetyInv => UnknownOrderBlocks
  BY DEF SafetyInv
<1> QED  BY <1>1, SafetyAlways, PTL

\* A live sale never asks for more contracts than its position has open.
THEOREM SellOrdersBackedAlways == Spec => []SellOrdersBacked
<1>1. SafetyInv => SellOrdersBacked
  BY DEF SafetyInv
<1> QED  BY <1>1, SafetyAlways, PTL

\* The contracts a position has open are those its orders confirmed.
THEOREM LedgerAlwaysAgrees == Spec => []LedgerAgrees
<1>1. SafetyInv => LedgerAgrees
  BY DEF SafetyInv, Booked, LedgerAgrees, OrderAction
<1> QED  BY <1>1, SafetyAlways, PTL

(***************************************************************************)
(* The versions of the rows an operation writes.                           *)
(***************************************************************************)
LEMMA UpdatedVersions ==
  ASSUME NEW row \in OrderRow, NEW to, NEW when, NEW qty
  PROVE  /\ UpdatedOrder(row, to, when).version = row.version + 1
         /\ FilledOrder(row, qty).version = row.version + 1
BY DEF UpdatedOrder, FilledOrder, OrderRow

LEMMA PositionVersions ==
  ASSUME NEW row \in PositionRow, NEW blocked, NEW when, NEW m
  PROVE  /\ Flagged(row, blocked, when) # row
              => Flagged(row, blocked, when).version = row.version + 1
         /\ Revalued(row, m).version = row.version + 1
BY DEF Flagged, Revalued, PositionRow

\* What RowsMoveForward says of one step.
RowsMove ==
    /\ \A o \in OrderId :
        orders[o] # None /\ orders[o].status \in OrderTerminal => orders'[o] = orders[o]
    /\ \A o \in OrderId : orders[o] # None /\ orders'[o] # orders[o]
        => orders'[o].version = orders[o].version + 1
    /\ \A p \in PositionId : positions[p] # None /\ positions'[p] # positions[p]
        => positions'[p].version = positions[p].version + 1

\* A step that writes one order that is not over, and one position, with new versions.
LEMMA RowsRewritten ==
  ASSUME TypeInv, NEW o \in OrderId, NEW p \in PositionId, NEW row, NEW prow,
         orders[o].status \in OrderNonTerminal,
         orders' = [orders EXCEPT ![o] = row], row.version = orders[o].version + 1,
         positions' = [positions EXCEPT ![p] = prow],
         prow # positions[p] => prow.version = positions[p].version + 1
  PROVE  RowsMove
<1>1. \A x \in OrderId : orders'[x] = IF x = o THEN row ELSE orders[x]
  BY DEF TypeInv, TypeOK
<1>2. \A x \in PositionId : positions'[x] = IF x = p THEN prow ELSE positions[x]
  BY DEF TypeInv, TypeOK
<1>3. orders[o].status \notin OrderTerminal
  BY DEF OrderNonTerminal
<1> QED  BY <1>1, <1>2, <1>3 DEF RowsMove

LEMMA CreationMoves ==
  ASSUME TypeInv, NEW p \in PositionId,
         \/ \E intent \in CreateIntent : CreatePosition(p, intent)
         \/ \E o \in OrderId, intent \in OrderIntent, action \in OrderAction, qty \in Qty :
                CreateOrder(o, intent, p, action, qty)
  PROVE  RowsMove
<1>1. ASSUME NEW intent \in CreateIntent, CreatePosition(p, intent)
      PROVE  RowsMove
  <2>1. orders' = orders /\ positions[p] = None
        /\ positions' = [positions EXCEPT ![p] = NewPosition(intent)]
    BY <1>1 DEF CreatePosition
  <2>2. \A x \in PositionId : x # p => positions'[x] = positions[x]
    BY <2>1 DEF TypeInv, TypeOK
  <2> QED  BY <2>1, <2>2 DEF RowsMove
<1>2. ASSUME NEW o \in OrderId, NEW intent \in OrderIntent, NEW action \in OrderAction,
             NEW qty \in Qty, CreateOrder(o, intent, p, action, qty)
      PROVE  RowsMove
  <2>1. positions' = positions /\ orders[o] = None
        /\ orders' = [orders EXCEPT ![o] = NewOrder(intent, p, action, qty)]
    BY <1>2 DEF CreateOrder, CanCreateOrder
  <2>2. \A x \in OrderId : x # o => orders'[x] = orders[x]
    BY <2>1 DEF TypeInv, TypeOK
  <2> QED  BY <2>1, <2>2 DEF RowsMove
<1> QED  BY <1>1, <1>2

LEMMA UpdateMoves ==
  ASSUME TypeInv, NEW o \in OrderId, NEW to \in OrderStatus, NEW when, NEW version,
         UpdateOrderStatus(o, version, to, when)
  PROVE  RowsMove
<1> DEFINE p == orders[o].position
           row == UpdatedOrder(orders[o], to, when)
           prow == Flagged(positions[p], HasUnknownOrder(orders', p), when)
<1>1. /\ orders[o] \in OrderRow /\ p \in PositionId /\ positions[p] \in PositionRow
      /\ orders[o].status \in OrderNonTerminal
  BY UpdateWrites
<1>2. orders' = [orders EXCEPT ![o] = row]
  BY DEF UpdateOrderStatus
<1>3. positions' = [positions EXCEPT ![p] = prow]
  BY Zenon DEF UpdateOrderStatus, RecomputeBlocked
<1>4. row.version = orders[o].version + 1
  BY <1>1, UpdatedVersions
<1>5. prow # positions[p] => prow.version = positions[p].version + 1
  BY <1>1, PositionVersions
<1> HIDE DEF p, row, prow
<1> QED  BY <1>1, <1>2, <1>3, <1>4, <1>5, RowsRewritten

LEMMA FillMoves ==
  ASSUME TypeInv, NEW f \in FillId, NEW o \in OrderId, NEW qty \in Qty,
         NEW price \in Price, NEW fee \in Fee, NEW version,
         ApplyFill(f, o, version, qty, price, fee)
  PROVE  RowsMove
<1> DEFINE p == orders[o].position
           row == FilledOrder(orders[o], qty)
           m == Metrics(FillsWith(f, o, qty, price, fee), p)
           prow == Revalued(positions[p], m)
<1>1. /\ orders[o] \in OrderRow /\ p \in PositionId /\ positions[p] \in PositionRow
      /\ orders[o].status \in OrderNonTerminal
  BY FillWrites
<1>2. orders' = [orders EXCEPT ![o] = row]
  BY DEF ApplyFill
<1>3. positions' = [positions EXCEPT ![p] = prow]
  BY DEF ApplyFill, PositionAfter
<1>4. row.version = orders[o].version + 1
  BY <1>1, UpdatedVersions
<1>5. prow # positions[p] => prow.version = positions[p].version + 1
  <2> HIDE DEF m
  <2> QED  BY <1>1, PositionVersions
<1> HIDE DEF p, row, prow
<1> QED  BY <1>1, <1>2, <1>3, <1>4, <1>5, RowsRewritten

\* Rows only move forward, for any number of positions, orders and fills: no operation
\* touches an order that is over, and none rewrites a row under its old version
\* (create_order, update_order_status, apply_fill).
THEOREM RowsAlwaysMoveForward == Spec => RowsMoveForward
<1>1. TypeInv /\ Next => RowsMove
  <2> SUFFICES ASSUME TypeInv, Next  PROVE RowsMove
    OBVIOUS
  <2>1. ASSUME NEW p \in PositionId, NEW intent \in CreateIntent, CreatePosition(p, intent)
        PROVE  RowsMove
    BY <2>1, CreationMoves
  <2>2. ASSUME NEW o \in OrderId, NEW intent \in OrderIntent, NEW p \in PositionId,
               NEW action \in OrderAction, NEW qty \in Qty,
               CreateOrder(o, intent, p, action, qty)
        PROVE  RowsMove
    BY <2>2, CreationMoves
  <2>3. ASSUME NEW o \in OrderId, NEW to \in AdminTarget, NEW when \in When,
               NEW version \in Versions(o), UpdateOrderStatus(o, version, to, when)
        PROVE  RowsMove
    BY <2>3, InputAssumption, UpdateMoves
  <2>4. ASSUME NEW f \in FillId, NEW o \in OrderId, NEW qty \in Qty,
               NEW price \in Price, NEW fee \in Fee, NEW version \in Versions(o),
               ApplyFill(f, o, version, qty, price, fee)
        PROVE  RowsMove
    BY <2>4, FillMoves
  <2> QED  BY <2>1, <2>2, <2>3, <2>4 DEF Next
<1> DEFINE Frozen == \A o \in OrderId :
              orders[o] # None /\ orders[o].status \in OrderTerminal
              => orders'[o] = orders[o]
           Moved == /\ \A o \in OrderId : orders[o] # None /\ orders'[o] # orders[o]
                        => orders'[o].version = orders[o].version + 1
                    /\ \A p \in PositionId : positions[p] # None /\ positions'[p] # positions[p]
                        => positions'[p].version = positions[p].version + 1
<1>2. TypeInv /\ [Next]_vars => [Frozen]_vars /\ [Moved]_vars
  BY <1>1 DEF RowsMove
<1> HIDE DEF Frozen, Moved
<1>3. Spec => [][Frozen]_vars /\ [][Moved]_vars
  BY <1>2, TypeInit, TypeStep, PTL DEF Spec
<1> QED  BY <1>3 DEF RowsMoveForward, TerminalOrdersFrozen, VersionMovesWithRow, Frozen, Moved
-----------------------------------------------------------------------------
(***************************************************************************)
(* The books: the status of a position and its money, and the two logs.    *)
(* Each is inductive beside TypeInv.                                       *)
(***************************************************************************)
\* A log that replays to a status still replays when the next event starts there.
LEMMA ReplaysAppend ==
  ASSUME NEW E, NEW log \in Seq(E), NEW from, NEW to, Replays(log, from)
  PROVE  /\ Replays(Append(log, Event(from, to)), to)
         /\ Len(Append(log, Event(from, to))) = Len(log) + 1
<1> DEFINE e == Event(from, to)
           more == Append(log, e)
<1>1. /\ Len(log) \in Nat /\ Len(log) > 0 /\ Len(more) = Len(log) + 1
      /\ \A i \in 1 .. Len(log) : more[i] = log[i]
      /\ more[Len(log) + 1] = e
  BY DEF Replays
<1>2. e.from = from /\ e.to = to
  BY DEF Event
<1> HIDE DEF e, more
<1>3. more[1].from = None
  BY <1>1 DEF Replays
<1>4. ASSUME NEW i \in 2 .. Len(more)  PROVE more[i].from = more[i - 1].to
  <2>1. CASE i = Len(log) + 1
    <3>1. more[i] = e /\ more[i - 1] = log[Len(log)]
      BY <1>1, <2>1
    <3> QED  BY <3>1, <1>2 DEF Replays
  <2>2. CASE i # Len(log) + 1
    <3>1. i \in 2 .. Len(log) /\ i - 1 \in 1 .. Len(log) /\ i \in 1 .. Len(log)
      BY <1>1, <2>2
    <3>2. more[i] = log[i] /\ more[i - 1] = log[i - 1]
      BY <1>1, <3>1
    <3> QED  BY <3>1, <3>2 DEF Replays
  <2> QED  BY <2>1, <2>2
<1>5. more[Len(more)].to = to
  BY <1>1, <1>2
<1>6. Replays(more, to)
  BY <1>1, <1>3, <1>4, <1>5 DEF Replays
<1> QED  BY <1>1, <1>6 DEF more, e

\* The first event of a log.
LEMMA ReplaysFirst ==
  ASSUME NEW to
  PROVE  Replays(<<Event(None, to)>>, to) /\ Len(<<Event(None, to)>>) = 1
BY DEF Replays, Event

LogsReplay == OrderLogReplays /\ PositionLogReplays

\* What a step does to the logs: a row that is new gets its first event, one that
\* changed its status an event from the old one to the new one.
LEMMA LogsCreatePosition ==
  ASSUME TypeInv, LogsReplay, NEW p \in PositionId, NEW intent \in CreateIntent,
         CreatePosition(p, intent)
  PROVE  LogsReplay'
<1>1. OrderLogReplays'
  BY DEF CreatePosition, LogsReplay, OrderLogReplays
<1>2. /\ positions'[p].status = "OPEN"
      /\ positionEvents'[p] = <<Event(None, "OPEN")>>
      /\ \A q \in PositionId : q # p => positions'[q] = positions[q]
                                        /\ positionEvents'[q] = positionEvents[q]
  BY DEF CreatePosition, NewPosition, TypeInv, TypeOK
<1>3. PositionLogReplays'
  BY <1>2, ReplaysFirst DEF LogsReplay, PositionLogReplays
<1> QED  BY <1>1, <1>3 DEF LogsReplay

LEMMA LogsCreateOrder ==
  ASSUME TypeInv, LogsReplay, NEW o \in OrderId, NEW intent \in OrderIntent,
         NEW p \in PositionId, NEW action \in OrderAction, NEW qty \in Qty,
         CreateOrder(o, intent, p, action, qty)
  PROVE  LogsReplay'
<1>1. PositionLogReplays'
  BY DEF CreateOrder, LogsReplay, PositionLogReplays
<1>2. /\ orders'[o].status = "PLANNED" /\ orders'[o].version = 1
      /\ orderEvents'[o] = <<Event(None, "PLANNED")>>
      /\ \A x \in OrderId : x # o => orders'[x] = orders[x]
                                     /\ orderEvents'[x] = orderEvents[x]
  BY DEF CreateOrder, NewOrder, TypeInv, TypeOK
<1>3. OrderLogReplays'
  BY <1>2, ReplaysFirst DEF LogsReplay, OrderLogReplays
<1> QED  BY <1>1, <1>3 DEF LogsReplay

\* An order advanced with its event and its next version keeps its log.
LEMMA OrderLogAdvances ==
  ASSUME TypeInv, OrderLogReplays, NEW o \in OrderId, NEW row, NEW to,
         orders[o] # None, row.status = to, row.version = orders[o].version + 1,
         orders' = [orders EXCEPT ![o] = row],
         orderEvents' = [orderEvents EXCEPT ![o] = Append(@, Event(orders[o].status, to))]
  PROVE  OrderLogReplays'
<1>1. /\ orderEvents[o] \in Seq(OrderEvent)
      /\ Replays(orderEvents[o], orders[o].status)
      /\ Len(orderEvents[o]) = orders[o].version
  BY DEF OrderLogReplays, TypeInv, TypeOK, OrderEvent
<1>2. /\ orders'[o] = row
      /\ orderEvents'[o] = Append(orderEvents[o], Event(orders[o].status, to))
      /\ \A x \in OrderId : x # o => orders'[x] = orders[x]
                                     /\ orderEvents'[x] = orderEvents[x]
  BY DEF TypeInv, TypeOK
<1>3. Replays(orderEvents'[o], to) /\ Len(orderEvents'[o]) = orders[o].version + 1
  BY <1>1, <1>2, ReplaysAppend
<1> QED  BY <1>2, <1>3 DEF OrderLogReplays

LEMMA LogsUpdate ==
  ASSUME TypeInv, LogsReplay, NEW o \in OrderId, NEW to \in OrderStatus, NEW when,
         NEW version, UpdateOrderStatus(o, version, to, when)
  PROVE  LogsReplay'
<1> DEFINE row == UpdatedOrder(orders[o], to, when)
           p == orders[o].position
           prow == Flagged(positions[p], HasUnknownOrder(orders', p), when)
<1>1. /\ orders[o] # None /\ orders[o] \in OrderRow /\ p \in PositionId
      /\ positions[p] \in PositionRow
  BY OrderHasPosition DEF UpdateOrderStatus, CanUpdateOrder
<1>2. row.status = to /\ row.version = orders[o].version + 1
  BY <1>1 DEF UpdatedOrder, OrderRow
<1>3. /\ orders' = [orders EXCEPT ![o] = row]
      /\ orderEvents' = [orderEvents EXCEPT ![o] = Append(@, Event(orders[o].status, to))]
      /\ positionEvents' = positionEvents
  BY DEF UpdateOrderStatus
<1>4. OrderLogReplays'
  <2> HIDE DEF row
  <2> QED  BY <1>1, <1>2, <1>3, OrderLogAdvances DEF LogsReplay
<1>5. positions' = [positions EXCEPT ![p] = prow]
  BY Zenon DEF UpdateOrderStatus, RecomputeBlocked
<1>6. prow.status = positions[p].status
  BY <1>1 DEF Flagged, PositionRow
<1>7. \A q \in PositionId : positions'[q] # None =>
            positions[q] # None /\ positions'[q].status = positions[q].status
  <2>1. positions[p] # None
    BY <1>1, OrderHasPosition
  <2> HIDE DEF p, prow
  <2> QED  BY <1>1, <1>5, <1>6, <2>1 DEF TypeInv, TypeOK
<1>8. PositionLogReplays'
  BY <1>3, <1>7 DEF LogsReplay, PositionLogReplays
<1> QED  BY <1>4, <1>8 DEF LogsReplay

LEMMA LogsFill ==
  ASSUME TypeInv, LogsReplay, NEW f \in FillId, NEW o \in OrderId, NEW qty \in Qty,
         NEW price \in Price, NEW fee \in Fee, NEW version,
         ApplyFill(f, o, version, qty, price, fee)
  PROVE  LogsReplay'
<1> DEFINE p == orders[o].position
           to == FilledStatus(orders[o], qty)
           row == FilledOrder(orders[o], qty)
           prow == PositionAfter(f, o, qty, price, fee)
<1>1. /\ orders[o] # None /\ orders[o] \in OrderRow /\ p \in PositionId
      /\ positions[p] # None /\ positions[p] \in PositionRow
  BY OrderHasPosition DEF ApplyFill, CanApplyFill, FillFits
<1>2. row.status = to /\ row.version = orders[o].version + 1
  <2>1. to \in OrderStatus
    BY <1>1, FilledOrderType
  <2> HIDE DEF to
  <2>2. row = [orders[o] EXCEPT !.filled = @ + qty, !.status = to,
                                !.version = @ + 1, !.backdated = FALSE]
    BY DEF FilledOrder, to
  <2> HIDE DEF row
  <2> QED  BY <1>1, <2>2 DEF OrderRow
<1>3. /\ orders' = [orders EXCEPT ![o] = row]
      /\ orderEvents' = [orderEvents EXCEPT ![o] = Append(@, Event(orders[o].status, to))]
      /\ positions' = [positions EXCEPT ![p] = prow]
      /\ positionEvents' =
            IF prow.status = positions[p].status
            THEN positionEvents
            ELSE [positionEvents EXCEPT
                    ![p] = Append(@, Event(positions[p].status, prow.status))]
  BY Zenon DEF ApplyFill
<1> HIDE DEF p, to, row, prow
<1>4. OrderLogReplays'
  BY <1>1, <1>2, <1>3, OrderLogAdvances DEF LogsReplay
<1>5. /\ \A q \in PositionId : q # p => positions'[q] = positions[q]
                                        /\ positionEvents'[q] = positionEvents[q]
      /\ positions'[p] = prow
  BY <1>1, <1>3 DEF TypeInv, TypeOK
<1>6. Replays(positionEvents[p], positions[p].status)
  BY <1>1 DEF LogsReplay, PositionLogReplays
<1>7. Replays(positionEvents'[p], prow.status)
  <2>1. CASE prow.status = positions[p].status
    BY <2>1, <1>3, <1>6
  <2>2. CASE prow.status # positions[p].status
    <3>1. positionEvents[p] \in Seq(PositionEvent)
      BY <1>1 DEF TypeInv, TypeOK, PositionEvent
    <3>2. positionEvents'[p] = Append(positionEvents[p], Event(positions[p].status, prow.status))
      BY <1>1, <1>3, <2>2 DEF TypeInv, TypeOK
    <3> QED  BY <1>6, <3>1, <3>2, ReplaysAppend
  <2> QED  BY <2>1, <2>2
<1>8. PositionLogReplays'
  BY <1>5, <1>7 DEF LogsReplay, PositionLogReplays
<1> QED  BY <1>4, <1>8 DEF LogsReplay
-----------------------------------------------------------------------------
\* A step that writes no fill of a position leaves its fills as they are.
LEMMA FillsOfOthers ==
  ASSUME TypeInv, NEW f \in FillId, NEW fill, NEW q, NEW a,
         fills[f] = None, fills' = [fills EXCEPT ![f] = fill], fill.position # q
  PROVE  FillsOf(fills', q, a) = FillsOf(fills, q, a)
BY DEF FillsOf, TypeInv, TypeOK

\* A position that is not there yet has no fills.
LEMMA NoPositionNoFills ==
  ASSUME TypeInv, NEW p, positions[p] = None, NEW a
  PROVE  FillsOf(fills, p, a) = {}
BY DEF FillsOf, TypeInv, ForeignKeys

\* The status a revaluation chooses says what the figures say.
LEMMA RevaluedTellsTruth ==
  ASSUME NEW row \in PositionRow, NEW fs \in FillTable, NEW p, NEW new,
         new = Revalued(row, Metrics(fs, p))
  PROVE  /\ new.status = "CAPITAL_RECOVERED" =>
                new.recovered >= new.invested /\ new.runner = new.open_contracts
         /\ new.status = "RECOVERY_IN_PROGRESS" => new.recovered < new.invested
         /\ new.status = "OPEN" =>
                FillsOf(fs, p, "SELL") = {} /\ new.recovered < new.invested
<1> DEFINE m == Metrics(fs, p)
           status == PositionStatusFor(row.status, m)
<1>1. /\ m.open_contracts \in Int /\ m.invested \in Nat /\ m.recovered \in Int
  BY MetricsType
<1>2. m.ever_sold = (FillsOf(fs, p, "SELL") # {})
  BY DEF Metrics, EverSold
<1> HIDE DEF m
<1>3. /\ new.status = status
      /\ new.recovered = m.recovered /\ new.invested = m.invested
      /\ new.open_contracts = m.open_contracts
      /\ new.runner = IF status = "CAPITAL_RECOVERED" THEN m.open_contracts ELSE None
  BY DEF Revalued, PositionRow, m
<1>4. CASE m.recovered >= m.invested
  <2>1. status = "CAPITAL_RECOVERED"
    <3>1. ~(m.recovered < m.invested)
      BY <1>1, <1>4
    <3> QED  BY <1>4, <3>1 DEF PositionStatusFor
  <2> HIDE DEF status
  <2> QED  BY <1>3, <1>4, <2>1
<1>5. CASE ~(m.recovered >= m.invested)
  <2>1. m.recovered < m.invested
    BY <1>1, <1>5
  <2>2. status # "CAPITAL_RECOVERED"
    BY <1>5 DEF PositionStatusFor
  <2>3. status = "OPEN" => ~m.ever_sold
    BY <1>5, <2>1 DEF PositionStatusFor
  <2> HIDE DEF status
  <2> QED  BY <1>2, <1>3, <2>1, <2>2, <2>3
<1> QED  BY <1>4, <1>5

LEMMA CapitalCreatePosition ==
  ASSUME TypeInv, StatusMatchesCapital, NEW p \in PositionId, NEW intent \in CreateIntent,
         CreatePosition(p, intent)
  PROVE  StatusMatchesCapital'
<1>1. /\ positions'[p].status = "OPEN"
      /\ \A q \in PositionId : q # p => positions'[q] = positions[q]
      /\ fills' = fills
  BY DEF CreatePosition, NewPosition, TypeInv, TypeOK
<1>2. FillsOf(fills', p, "SELL") = {} /\ FillsOf(fills', p, "BUY") = {}
  BY <1>1, NoPositionNoFills DEF CreatePosition
<1>3. \A q \in PositionId, a \in OrderAction : FillsOf(fills', q, a) = FillsOf(fills, q, a)
  BY <1>1
<1> QED  BY <1>1, <1>2, <1>3 DEF StatusMatchesCapital, OrderAction

LEMMA CapitalUpdate ==
  ASSUME TypeInv, StatusMatchesCapital, NEW o \in OrderId, NEW to \in OrderStatus, NEW when,
         NEW version, UpdateOrderStatus(o, version, to, when)
  PROVE  StatusMatchesCapital'
<1> DEFINE p == orders[o].position
           prow == Flagged(positions[p], HasUnknownOrder(orders', p), when)
<1>1. /\ p \in PositionId /\ positions[p] # None /\ positions[p] \in PositionRow
  BY OrderHasPosition DEF UpdateOrderStatus, CanUpdateOrder
<1>2. positions' = [positions EXCEPT ![p] = prow] /\ fills' = fills
  BY Zenon DEF UpdateOrderStatus, RecomputeBlocked
<1>3. /\ prow.status = positions[p].status /\ prow.runner = positions[p].runner
      /\ prow.recovered = positions[p].recovered /\ prow.invested = positions[p].invested
      /\ prow.open_contracts = positions[p].open_contracts
  BY <1>1 DEF Flagged, PositionRow
<1> HIDE DEF p, prow
<1>4. /\ positions'[p] = prow
      /\ \A q \in PositionId : q # p => positions'[q] = positions[q]
  BY <1>1, <1>2 DEF TypeInv, TypeOK
<1> QED  BY <1>1, <1>2, <1>3, <1>4 DEF StatusMatchesCapital

LEMMA CapitalFill ==
  ASSUME TypeInv, StatusMatchesCapital, NEW f \in FillId, NEW o \in OrderId, NEW qty \in Qty,
         NEW price \in Price, NEW fee \in Fee, NEW version,
         ApplyFill(f, o, version, qty, price, fee)
  PROVE  StatusMatchesCapital'
<1> DEFINE p == orders[o].position
           fill == NewFill(o, qty, price, fee)
<1>1. /\ p \in PositionId /\ positions[p] # None /\ positions[p] \in PositionRow
      /\ fills[f] = None /\ fills' \in FillTable
  BY FillWrites, OrderHasPosition DEF ApplyFill, CanApplyFill, FillFits
<1>2. /\ fills' = [fills EXCEPT ![f] = fill]
      /\ positions' = [positions EXCEPT ![p] = Revalued(positions[p], Metrics(fills', p))]
  BY Zenon DEF ApplyFill, PositionAfter, FillsWith
<1>3. fill.position = p
  BY DEF NewFill
<1> HIDE DEF p, fill
<1>4. /\ positions'[p] = Revalued(positions[p], Metrics(fills', p))
      /\ \A q \in PositionId : q # p => positions'[q] = positions[q]
  BY <1>1, <1>2 DEF TypeInv, TypeOK
<1>5. /\ positions'[p].status = "CAPITAL_RECOVERED" =>
            /\ positions'[p].recovered >= positions'[p].invested
            /\ positions'[p].runner = positions'[p].open_contracts
      /\ positions'[p].status = "RECOVERY_IN_PROGRESS" =>
            positions'[p].recovered < positions'[p].invested
      /\ positions'[p].status = "OPEN" =>
            FillsOf(fills', p, "SELL") = {} /\ positions'[p].recovered < positions'[p].invested
  BY <1>1, <1>4, RevaluedTellsTruth
<1>6. ASSUME NEW q \in PositionId, q # p
      PROVE  /\ FillsOf(fills', q, "SELL") = FillsOf(fills, q, "SELL")
             /\ FillsOf(fills', q, "BUY") = FillsOf(fills, q, "BUY")
  <2>1. fill.position # q
    BY <1>3, <1>6
  <2>2. \A a : FillsOf(fills', q, a) = FillsOf(fills, q, a)
    BY <1>1, <1>2, <2>1, FillsOfOthers
  <2> QED  BY <2>2
<1> QED  BY <1>4, <1>5, <1>6 DEF StatusMatchesCapital

BooksInv == TypeInv /\ StatusMatchesCapital /\ LogsReplay

LEMMA BooksStep ==
  ASSUME BooksInv, [Next]_vars
  PROVE  BooksInv'
<1>1. TypeInv'
  BY TypeStep DEF BooksInv
<1>2. TypeInv /\ StatusMatchesCapital /\ LogsReplay
  BY DEF BooksInv
<1>3. ASSUME NEW p \in PositionId, NEW intent \in CreateIntent,
             CreatePosition(p, intent)
      PROVE  StatusMatchesCapital' /\ LogsReplay'
  BY <1>2, <1>3, CapitalCreatePosition, LogsCreatePosition
<1>4. ASSUME NEW o \in OrderId, NEW intent \in OrderIntent, NEW p \in PositionId,
             NEW action \in OrderAction, NEW qty \in Qty,
             CreateOrder(o, intent, p, action, qty)
      PROVE  StatusMatchesCapital' /\ LogsReplay'
  <2>1. LogsReplay'
    BY <1>2, <1>4, LogsCreateOrder
  <2>2. StatusMatchesCapital'
    BY <1>2, <1>4 DEF CreateOrder, StatusMatchesCapital
  <2> QED  BY <2>1, <2>2
<1>5. ASSUME NEW o \in OrderId, NEW to \in AdminTarget, NEW when \in When,
             NEW version \in Versions(o), UpdateOrderStatus(o, version, to, when)
      PROVE  StatusMatchesCapital' /\ LogsReplay'
  <2>1. to \in OrderStatus
    BY InputAssumption
  <2> QED  BY <1>2, <1>5, <2>1, CapitalUpdate, LogsUpdate
<1>6. ASSUME NEW f \in FillId, NEW o \in OrderId, NEW qty \in Qty,
             NEW price \in Price, NEW fee \in Fee, NEW version \in Versions(o),
             ApplyFill(f, o, version, qty, price, fee)
      PROVE  StatusMatchesCapital' /\ LogsReplay'
  BY <1>2, <1>6, CapitalFill, LogsFill
<1>7. CASE UNCHANGED vars
  BY <1>1, <1>2, <1>7 DEF vars, BooksInv, StatusMatchesCapital, LogsReplay, OrderLogReplays,
     PositionLogReplays
<1> QED  BY <1>1, <1>3, <1>4, <1>5, <1>6, <1>7 DEF Next, BooksInv

(***************************************************************************)
(* The status of every position tells the truth about its money, and both  *)
(* logs replay to the rows, for any ids, quantities, prices and fees.      *)
(***************************************************************************)
THEOREM BooksAlwaysAgree == Spec => []BooksAgree
<1>1. Init => BooksInv
  <2>1. Init => StatusMatchesCapital /\ LogsReplay
    BY DEF Init, StatusMatchesCapital, LogsReplay, OrderLogReplays, PositionLogReplays
  <2> QED  BY <2>1, TypeInit DEF BooksInv
<1>2. BooksInv /\ [Next]_vars => BooksInv'
  BY BooksStep
<1>3. BooksInv => BooksAgree
  BY DEF BooksInv, BooksAgree, TypeInv, LogsReplay
<1> QED  BY <1>1, <1>2, <1>3, PTL DEF Spec

-----------------------------------------------------------------------------
(***************************************************************************)
(* The theorems of FillForms, for any users, intents, clicks and delays:   *)
(* the form is a caller like any other of the positions repository, and it *)
(* implements the ledger of intents.                                       *)
(*                                                                         *)
(* FormsInv follows a click through its calls.  Calls of one user have     *)
(* different numbers, so that a request that a form still waits for is the *)
(* only one with its number, carries the intent of the form and belongs to *)
(* the phase of the form; and what a form is about to read was true of the *)
(* tables when it was answered, and stays true.                            *)
(***************************************************************************)
\* The body of a register request.
Filling == [order : OrderId, version : Nat, action : OrderAction, qty : Qty,
            price : Price, fee : Fee]

\* A request is one of the three that a form sends.
Asked(r) ==
    /\ r.user \in User /\ r.call \in Nat /\ r.kind \in Phase \ {"idle"}
    /\ r.intent \in FillId /\ r.position \in PositionId
    /\ r.kind = "create" => r.body \in Entry
    /\ r.kind = "register" => r.body \in Filling

Awaited(r) == Waiting(r.user) /\ r.call = call[r.user]

\* It is not ahead of its form, and when it is awaited it is the form's own.
Timely(r) ==
    /\ r.call <= call[r.user]
    /\ Awaited(r) =>
        /\ r.kind = forms[r.user].phase
        /\ r.intent = forms[r.user].intent
        /\ \A a \in replies : a.user # r.user

CallsApart ==
    \A r, q \in requests : r.user = q.user /\ r.call = q.call => r = q

\* What the server may answer, with success, to a call about intent f.
Holds(kind, f, answer) ==
    /\ kind = "list" /\ answer.order # None =>
        answer.order \in OrderId /\ answer.version \in Nat
    /\ kind = "create" => answer.order \in OrderId /\ answer.version \in Nat
    /\ kind = "register" => fills[f] # None /\ Recorded[f] = answer.told

Answers(a) ==
    /\ a.user \in User
    /\ a.result.ok => Holds(forms[a.user].phase, forms[a.user].intent, a.result)

\* The forms, if fs, have intents of their own.
Apart(fs) ==
    \A u, v \in User :
        fs[u] # None /\ fs[v] # None /\ fs[u].intent = fs[v].intent => u = v

\* A click has a quantity and a position.
Clicked(form) == form.phase # "idle" => form.qty \in Qty /\ form.position \in PositionId

FormsInv ==
    /\ TypeInv
    /\ FormsTypeOK
    /\ Apart(forms)
    /\ \A u \in User : forms[u] # None => Clicked(forms[u])
    /\ CallsApart
    /\ \A r \in requests : Asked(r) /\ Timely(r)
    /\ \A a \in replies : Answers(a)

-----------------------------------------------------------------------------
(***************************************************************************)
(* What the open forms show, when one of them changes.                     *)
(***************************************************************************)
\* An open form shows what is told of its intent.
LEMMA ToldOfForm ==
  ASSUME NEW fs, Apart(fs), NEW u \in User, fs[u] # None, fs[u].intent \in FillId
  PROVE  ToldBy(fs)[fs[u].intent] = fs[u].told
<1>1. FormsOf(fs, fs[u].intent) = {u}
  BY DEF FormsOf, Apart
<1> QED  BY <1>1 DEF ToldBy

\* Nothing is told of an intent that no form has.
LEMMA ToldOfNone ==
  ASSUME NEW fs, NEW f \in FillId, \A u \in User : fs[u] # None => fs[u].intent # f
  PROVE  ToldBy(fs)[f] = None
<1>1. FormsOf(fs, f) = {}
  BY DEF FormsOf
<1> QED  BY <1>1 DEF ToldBy

\* A form that changes tells nothing new of the intents of other forms.
LEMMA ToldOfOthers ==
  ASSUME NEW fs, NEW gs, NEW u \in User, NEW f \in FillId,
         \A v \in User \ {u} : gs[v] = fs[v],
         u \notin FormsOf(fs, f), u \notin FormsOf(gs, f)
  PROVE  ToldBy(gs)[f] = ToldBy(fs)[f]
<1>1. FormsOf(gs, f) = FormsOf(fs, f)
  BY DEF FormsOf
<1>2. CASE FormsOf(fs, f) = {}
  BY <1>1, <1>2 DEF ToldBy
<1>3. CASE FormsOf(fs, f) # {}
  <2>1. PICK v : v = CHOOSE w \in FormsOf(fs, f) : TRUE
    OBVIOUS
  <2>2. v \in User \ {u}
    BY <1>3, <2>1 DEF FormsOf
  <2>3. gs[v] = fs[v]
    BY <2>2
  <2> QED  BY <1>1, <1>3, <2>1, <2>3 DEF ToldBy
<1> QED  BY <1>2, <1>3

\* A form that keeps its intent changes what is told of that intent only.
LEMMA ToldChanges ==
  ASSUME NEW fs, NEW gs, NEW u \in User, Apart(fs), Apart(gs),
         \A v \in User \ {u} : gs[v] = fs[v],
         fs[u] # None, gs[u] # None, gs[u].intent = fs[u].intent,
         fs[u].intent \in FillId
  PROVE  /\ ToldBy(fs)[fs[u].intent] = fs[u].told
         /\ ToldBy(gs)[fs[u].intent] = gs[u].told
         /\ \A f \in FillId \ {fs[u].intent} : ToldBy(gs)[f] = ToldBy(fs)[f]
<1>1. ToldBy(fs)[fs[u].intent] = fs[u].told
  BY ToldOfForm
<1>2. ToldBy(gs)[fs[u].intent] = gs[u].told
  BY ToldOfForm
<1>3. ASSUME NEW f \in FillId \ {fs[u].intent}
      PROVE  ToldBy(gs)[f] = ToldBy(fs)[f]
  <2>1. u \notin FormsOf(fs, f) /\ u \notin FormsOf(gs, f)
    BY DEF FormsOf
  <2> QED  BY <2>1, ToldOfOthers
<1> QED  BY <1>1, <1>2, <1>3

\* ... and nothing when it shows what it showed.
LEMMA ToldKept ==
  ASSUME NEW fs, NEW gs, NEW u \in User, Apart(fs), Apart(gs),
         \A v \in User \ {u} : gs[v] = fs[v],
         fs[u] # None, gs[u] # None, gs[u].intent = fs[u].intent,
         gs[u].told = fs[u].told, fs[u].intent \in FillId
  PROVE  ToldBy(gs) = ToldBy(fs)
<1>1. /\ ToldBy(fs)[fs[u].intent] = fs[u].told
      /\ ToldBy(gs)[fs[u].intent] = gs[u].told
      /\ \A f \in FillId \ {fs[u].intent} : ToldBy(gs)[f] = ToldBy(fs)[f]
  BY ToldChanges
<1>2. /\ ToldBy(gs) = [f \in FillId |-> ToldBy(gs)[f]]
      /\ ToldBy(fs) = [f \in FillId |-> ToldBy(fs)[f]]
  BY DEF ToldBy
<1> QED  BY <1>1, <1>2

\* A form that goes, or gives way to one that shows nothing yet, forgets.
LEMMA ToldForgotten ==
  ASSUME NEW fs, NEW gs, NEW u \in User, Apart(fs), Apart(gs),
         \A v \in User \ {u} : gs[v] = fs[v],
         gs[u] # None =>
            /\ gs[u].told = None
            /\ \A v \in User : fs[v] # None => fs[v].intent # gs[u].intent,
         fs[u] # None => fs[u].intent \in FillId,
         gs[u] # None => gs[u].intent \in FillId
  PROVE  \/ ToldBy(gs) = ToldBy(fs)
         \/ \E f \in FillId : ToldBy(gs) = [ToldBy(fs) EXCEPT ![f] = None]
<1>1. /\ ToldBy(gs) = [f \in FillId |-> ToldBy(gs)[f]]
      /\ ToldBy(fs) = [f \in FillId |-> ToldBy(fs)[f]]
  BY DEF ToldBy
<1>2. ASSUME gs[u] # None
      PROVE  ToldBy(gs)[gs[u].intent] = ToldBy(fs)[gs[u].intent]
  <2>1. ToldBy(gs)[gs[u].intent] = None
    BY <1>2, ToldOfForm
  <2>2. ToldBy(fs)[gs[u].intent] = None
    BY <1>2, ToldOfNone
  <2> QED  BY <2>1, <2>2
<1>3. \A f \in FillId : u \notin FormsOf(fs, f) => ToldBy(gs)[f] = ToldBy(fs)[f]
  <2> SUFFICES ASSUME NEW f \in FillId, u \notin FormsOf(fs, f)
               PROVE  ToldBy(gs)[f] = ToldBy(fs)[f]
    OBVIOUS
  <2>1. CASE u \in FormsOf(gs, f)
    <3>1. gs[u] # None /\ gs[u].intent = f
      BY <2>1 DEF FormsOf
    <3> QED  BY <1>2, <3>1
  <2>2. CASE u \notin FormsOf(gs, f)
    BY <2>2, ToldOfOthers
  <2> QED  BY <2>1, <2>2
<1>4. CASE fs[u] = None
  <2>1. \A f \in FillId : u \notin FormsOf(fs, f)
    BY <1>4 DEF FormsOf
  <2> QED  BY <1>1, <1>3, <2>1
<1>5. CASE fs[u] # None
  <2> DEFINE g == fs[u].intent
  <2>1. \A v \in User : gs[v] # None => gs[v].intent # g
    BY <1>5 DEF Apart
  <2>2. ToldBy(gs)[g] = None
    BY <1>5, <2>1, ToldOfNone
  <2>3. \A f \in FillId \ {g} : ToldBy(gs)[f] = ToldBy(fs)[f]
    BY <1>3 DEF FormsOf
  <2>4. g \in FillId
    BY <1>5
  <2> HIDE DEF g
  <2> QED  BY <1>1, <2>2, <2>3, <2>4
<1> QED  BY <1>4, <1>5

-----------------------------------------------------------------------------
(***************************************************************************)
(* Steps of a form.  Each of them leaves no answer for its user.           *)
(***************************************************************************)
Cleared(u) == replies' = {a \in replies : a.user # u}

\* A callback takes the only answer its form has.
LEMMA ReceiveClears ==
  ASSUME FormsInv, NEW u \in User, NEW phase, NEW a, Receive(u, phase, a)
  PROVE  Cleared(u)
BY DEF FormsInv, FormsTypeOK, Receive, Cleared

\* A form that waits for nothing has no answer.
LEMMA IdleCleared ==
  ASSUME FormsInv, NEW u \in User, ~Waiting(u), replies' = replies
  PROVE  Cleared(u)
BY DEF FormsInv, FormsTypeOK, Cleared

\* What is asked stays well formed and apart as requests go.
LEMMA RequestsGo ==
  ASSUME FormsInv, requests' \subseteq requests
  PROVE  CallsApart' /\ \A r \in requests' : Asked(r)
BY DEF FormsInv, CallsApart, Asked

\* The rest of the invariant, for a form of u that waits for nothing.
LEMMA QuietStep ==
  ASSUME FormsInv, NEW u \in User, NEW new \in Form \cup {None},
         new # None => new.phase = "idle",
         \A v \in User \ {u} : new # None /\ forms[v] # None => forms[v].intent # new.intent,
         forms' = [forms EXCEPT ![u] = new],
         Cleared(u), requests' \subseteq requests, UNCHANGED <<vars, call>>
  PROVE  FormsInv'
<1> USE DEF FormsInv
<1>1. TypeInv'
  BY TypeStep
<1>2. /\ forms' \in [User -> Form \cup {None}]
      /\ forms'[u] = new
      /\ \A v \in User \ {u} : forms'[v] = forms[v]
  BY DEF FormsTypeOK
<1>3. /\ call' = call
      /\ call \in [User -> Nat]
  BY DEF FormsTypeOK
<1>4. ~Waiting(u)'
  BY <1>2 DEF Waiting
<1>5. \A v \in User \ {u} : Waiting(v)' = Waiting(v)
  BY <1>2 DEF Waiting
<1>6. \A a \in replies' : a \in replies /\ a.user \in User \ {u}
  BY DEF Cleared, Answers
<1>7. CallsApart' /\ \A r \in requests' : r \in requests /\ Asked(r)
  BY RequestsGo
<1>8. FormsTypeOK'
  <2>1. \A r \in requests' : r.user \in User /\ r.kind \in Phase \ {"idle"}
    BY <1>7 DEF Asked
  <2>2. \A a \in replies' : Waiting(a.user)'
    BY <1>5, <1>6 DEF FormsTypeOK
  <2>3. \A a, b \in replies' : a.user = b.user => a = b
    BY <1>6 DEF FormsTypeOK
  <2> QED  BY <1>2, <1>3, <2>1, <2>2, <2>3 DEF FormsTypeOK
<1>9. Apart(forms)'
  BY <1>2 DEF Apart
<1>10. \A v \in User : forms'[v] # None => Clicked(forms'[v])
  BY <1>2 DEF Clicked
<1>11. \A r \in requests' : Timely(r)'
  <2> SUFFICES ASSUME NEW r \in requests'  PROVE Timely(r)'
    OBVIOUS
  <2>1. r \in requests /\ r.user \in User /\ Timely(r)
    BY <1>7 DEF Asked
  <2>2. CASE r.user = u
    BY <1>3, <1>4, <2>1, <2>2 DEF Timely, Awaited
  <2>3. CASE r.user # u
    <3>1. forms'[r.user] = forms[r.user]
      BY <1>2, <2>1, <2>3
    <3>2. Awaited(r)' => Awaited(r)
      BY <1>3, <1>5, <2>1, <2>3 DEF Awaited
    <3> QED  BY <1>3, <1>6, <2>1, <3>1, <3>2 DEF Timely
  <2> QED  BY <2>2, <2>3
<1>12. \A a \in replies' : Answers(a)'
  <2> SUFFICES ASSUME NEW a \in replies'  PROVE Answers(a)'
    OBVIOUS
  <2>1. a \in replies /\ a.user \in User \ {u} /\ Answers(a)
    BY <1>6
  <2>2. forms'[a.user] = forms[a.user]
    BY <1>2, <2>1
  <2>3. fills' = fills
    BY DEF vars
  <2> QED  BY <2>1, <2>2, <2>3 DEF Answers, Holds, Recorded
<1> QED  BY <1>1, <1>7, <1>8, <1>9, <1>10, <1>11, <1>12

\* The rest of the invariant, for a form of u that makes its next call.
LEMMA SendStep ==
  ASSUME FormsInv, NEW u \in User, forms[u] # None, NEW new \in Form,
         new.phase # "idle", new.intent = forms[u].intent, Clicked(new),
         NEW body,
         new.phase = "create" => body \in Entry,
         new.phase = "register" => body \in Filling,
         forms' = [forms EXCEPT ![u] = new],
         Send(u, new.phase, new.position, body),
         Cleared(u), UNCHANGED vars
  PROVE  FormsInv'
<1> USE DEF FormsInv
<1>1. TypeInv'
  BY TypeStep
<1>2. /\ forms \in [User -> Form \cup {None}]
      /\ forms' \in [User -> Form \cup {None}]
      /\ forms'[u] = new /\ new # None
      /\ \A v \in User \ {u} : forms'[v] = forms[v]
  BY NoFormAssumption DEF FormsTypeOK
<1>3. /\ call \in [User -> Nat]
      /\ call' \in [User -> Nat]
      /\ call'[u] = call[u] + 1
      /\ \A v \in User \ {u} : call'[v] = call[v]
  BY DEF FormsTypeOK, Send
<1>4. \A v \in User \ {u} : Waiting(v)' = Waiting(v)
  BY <1>2 DEF Waiting
<1>5. \A a \in replies' : a \in replies /\ a.user \in User \ {u}
  BY DEF Cleared, Answers
<1>6. PICK q : q = [user |-> u, call |-> call[u] + 1, kind |-> new.phase,
                    intent |-> forms[u].intent, position |-> new.position, body |-> body]
  OBVIOUS
<1>7. requests' = requests \cup {q}
  BY <1>6 DEF Send
<1>8. /\ q.user = u /\ q.call = call[u] + 1 /\ q.kind = new.phase
      /\ q.intent = new.intent /\ q.position = new.position /\ q.body = body
  BY <1>6
<1>9. Asked(q)
  BY <1>3, <1>8 DEF Asked, Form, Clicked
<1>10. \A r \in requests : r.user = u => r.call <= call[u] /\ r.call \in Nat
  BY DEF Timely, Asked
<1>11. CallsApart'
  <2>1. \A r \in requests : ~(r.user = q.user /\ r.call = q.call)
    BY <1>3, <1>8, <1>10
  <2> QED  BY <1>7, <2>1 DEF CallsApart
<1>12. FormsTypeOK'
  <2>1. \A r \in requests' : r.user \in User /\ r.kind \in Phase \ {"idle"}
    BY <1>7, <1>9 DEF Asked
  <2>2. \A a \in replies' : Waiting(a.user)'
    BY <1>4, <1>5 DEF FormsTypeOK
  <2>3. \A a, b \in replies' : a.user = b.user => a = b
    BY <1>5 DEF FormsTypeOK
  <2> QED  BY <1>2, <1>3, <2>1, <2>2, <2>3 DEF FormsTypeOK
<1>13. Apart(forms)'
  BY <1>2 DEF Apart
<1>14. \A v \in User : forms'[v] # None => Clicked(forms'[v])
  BY <1>2
<1>15. \A r \in requests' : (Asked(r) /\ Timely(r))'
  <2> SUFFICES ASSUME NEW r \in requests'  PROVE (Asked(r) /\ Timely(r))'
    OBVIOUS
  <2>1. CASE r = q
    <3>1. Timely(q)'
      BY <1>2, <1>3, <1>5, <1>8 DEF Timely
    <3>2. Asked(q)'
      BY <1>9 DEF Asked
    <3> QED  BY <2>1, <3>1, <3>2
  <2>2. CASE r \in requests
    <3>1. Asked(r) /\ Timely(r) /\ r.user \in User
      BY <2>2 DEF Asked
    <3>2. CASE r.user = u
      BY <1>3, <1>10, <2>2, <3>1, <3>2 DEF Timely, Awaited, Asked
    <3>3. CASE r.user # u
      <4>1. forms'[r.user] = forms[r.user] /\ call'[r.user] = call[r.user]
        BY <1>2, <1>3, <3>1, <3>3
      <4>2. Awaited(r)' => Awaited(r)
        BY <1>4, <3>1, <3>3, <4>1 DEF Awaited
      <4> QED  BY <1>5, <3>1, <4>1, <4>2 DEF Timely, Asked
    <3> QED  BY <3>2, <3>3
  <2> QED  BY <1>7, <2>1, <2>2
<1>16. \A a \in replies' : Answers(a)'
  <2> SUFFICES ASSUME NEW a \in replies'  PROVE Answers(a)'
    OBVIOUS
  <2>1. a \in replies /\ a.user \in User \ {u} /\ Answers(a)
    BY <1>5
  <2>2. forms'[a.user] = forms[a.user] /\ fills' = fills
    BY <1>2, <2>1 DEF vars
  <2> QED  BY <2>1, <2>2 DEF Answers, Holds, Recorded
<1> QED  BY <1>1, <1>11, <1>12, <1>13, <1>14, <1>15, <1>16

\* Another action in the selector of u.
LEMMA SelectStep ==
  ASSUME FormsInv, NEW u \in User, NEW action \in OrderAction, SelectAction(u, action)
  PROVE  FormsInv'
<1> USE DEF FormsInv
<1>1. TypeInv'
  BY TypeStep DEF SelectAction
<1>2. /\ forms \in [User -> Form \cup {None}]
      /\ forms[u] \in Form
  BY DEF FormsTypeOK, SelectAction
<1>3. PICK new : new = [forms[u] EXCEPT !.action = action]
  OBVIOUS
<1>4. /\ new \in Form /\ new # None /\ new.intent = forms[u].intent
      /\ new.phase = forms[u].phase /\ new.qty = forms[u].qty
      /\ new.position = forms[u].position
  BY <1>2, <1>3, NoFormAssumption DEF Form
<1>5. forms' = [forms EXCEPT ![u] = new]
  BY <1>3 DEF SelectAction
<1>6. /\ forms' \in [User -> Form \cup {None}]
      /\ forms'[u] = new
      /\ \A v \in User \ {u} : forms'[v] = forms[v]
  BY <1>2, <1>4, <1>5
<1>7. call' = call /\ requests' = requests /\ replies' = replies /\ fills' = fills
  BY DEF SelectAction, vars
<1>8. forms[u] # None
  BY DEF SelectAction
<1>9. \A v \in User : Waiting(v)' = Waiting(v)
  <2>1. Waiting(u)' = Waiting(u)
    BY <1>4, <1>6, <1>8 DEF Waiting
  <2>2. \A v \in User \ {u} : Waiting(v)' = Waiting(v)
    BY <1>6 DEF Waiting
  <2> QED  BY <2>1, <2>2
<1>10. FormsTypeOK'
  <2>1. \A a \in replies' : Waiting(a.user)'
    BY <1>7, <1>9 DEF FormsTypeOK, Answers
  <2> QED  BY <1>6, <1>7, <2>1 DEF FormsTypeOK
<1>11. Apart(forms)'
  BY <1>4, <1>6, <1>8 DEF Apart
<1>12. \A v \in User : forms'[v] # None => Clicked(forms'[v])
  <2>1. Clicked(new)
    BY <1>4, <1>8 DEF Clicked
  <2> QED  BY <1>6, <2>1
<1>13. CallsApart' /\ \A r \in requests' : Asked(r)'
  BY <1>7 DEF CallsApart, Asked
<1>14. \A v \in User : /\ forms'[v].phase = forms[v].phase
                         /\ forms'[v].intent = forms[v].intent
  BY <1>4, <1>6
<1>15. \A r \in requests' : Timely(r)'
  <2> SUFFICES ASSUME NEW r \in requests'  PROVE Timely(r)'
    OBVIOUS
  <2>1. r \in requests /\ r.user \in User /\ Timely(r)
    BY <1>7 DEF Asked
  <2>2. Awaited(r)' = Awaited(r)
    BY <1>7, <1>9, <2>1 DEF Awaited
  <2> QED  BY <1>7, <1>14, <2>1, <2>2 DEF Timely
<1>16. \A a \in replies' : Answers(a)'
  <2> SUFFICES ASSUME NEW a \in replies'  PROVE Answers(a)'
    OBVIOUS
  <2>1. a \in replies /\ a.user \in User /\ Answers(a)
    BY <1>7 DEF Answers
  <2>2. /\ forms'[a.user].phase = forms[a.user].phase
        /\ forms'[a.user].intent = forms[a.user].intent
    BY <1>14, <2>1
  <2> QED  BY <1>7, <2>1, <2>2 DEF Answers, Holds, Recorded
<1> QED  BY <1>1, <1>10, <1>11, <1>12, <1>13, <1>15, <1>16

-----------------------------------------------------------------------------
(***************************************************************************)
(* Steps of the server and of the other actors.                            *)
(***************************************************************************)
FillsStay == \A f \in FillId : fills[f] # None => fills'[f] = fills[f]

\* What was answered about an intent stays true.
LEMMA HoldsOn ==
  ASSUME NEW kind, NEW f \in FillId, NEW answer, Holds(kind, f, answer), FillsStay
  PROVE  Holds(kind, f, answer)'
<1>1. ASSUME kind = "register"
      PROVE  (fills[f] # None /\ Recorded[f] = answer.told)'
  <2>1. fills[f] # None /\ Recorded[f] = answer.told
    BY <1>1 DEF Holds
  <2>2. fills'[f] = fills[f]
    BY <2>1 DEF FillsStay
  <2> QED  BY <2>1, <2>2 DEF Recorded
<1> QED  BY <1>1 DEF Holds

LEMMA ServeStep ==
  ASSUME FormsInv, NEW r \in requests, TypeInv', FillsStay,
         requests' = requests \ {r}, UNCHANGED <<forms, call>>,
         NEW answer, Answer(r, answer),
         answer.ok => Holds(r.kind, r.intent, answer)'
  PROVE  FormsInv'
<1> USE DEF FormsInv
<1>1. /\ forms' = forms /\ call' = call
      /\ \A v \in User : Waiting(v)' = Waiting(v)
  BY DEF Waiting
<1>2. CallsApart' /\ \A q \in requests' : q \in requests /\ q # r /\ Asked(q)'
  BY RequestsGo DEF Asked
<1>3. Asked(r) /\ Timely(r)
  OBVIOUS
<1>4. PICK n : n = [user |-> r.user, result |-> answer]
  OBVIOUS
<1>5. n.user = r.user /\ n.result = answer
  BY <1>4
<1>6. replies' = replies \/ (Awaited(r) /\ replies' = replies \cup {n})
  BY <1>4 DEF Answer, Awaited
<1>7. \A a \in replies' :
        \/ a \in replies
        \/ a = n /\ Awaited(r) /\ \A b \in replies : b.user # r.user
  BY <1>3, <1>6 DEF Timely
<1>8. FormsTypeOK'
  <2>1. \A q \in requests' : q.user \in User /\ q.kind \in Phase \ {"idle"}
    BY <1>2 DEF FormsTypeOK
  <2>2. \A a \in replies' : Waiting(a.user)'
    <3> SUFFICES ASSUME NEW a \in replies'  PROVE Waiting(a.user)'
      OBVIOUS
    <3>1. CASE a \in replies
      <4>1. a.user \in User /\ Waiting(a.user)
        BY <3>1 DEF FormsTypeOK, Answers
      <4> QED  BY <1>1, <4>1
    <3>2. CASE a = n /\ Awaited(r)
      <4>1. a.user \in User /\ Waiting(a.user)
        BY <1>3, <1>5, <3>2 DEF Awaited, Asked
      <4> QED  BY <1>1, <4>1
    <3> QED  BY <1>7, <3>1, <3>2
  <2>3. \A a, b \in replies' : a.user = b.user => a = b
    BY <1>5, <1>7 DEF FormsTypeOK
  <2> QED  BY <1>1, <2>1, <2>2, <2>3 DEF FormsTypeOK
<1>9. /\ Apart(forms)'
      /\ \A v \in User : forms'[v] # None => Clicked(forms'[v])
  BY <1>1
<1>10. \A q \in requests' : Timely(q)'
  <2> SUFFICES ASSUME NEW q \in requests'  PROVE Timely(q)'
    OBVIOUS
  <2>1. q \in requests /\ q # r /\ Timely(q) /\ q.user \in User
    BY <1>2 DEF Asked
  <2>2. Awaited(q)' = Awaited(q)
    BY <1>1, <2>1 DEF Awaited
  <2>3. ASSUME Awaited(q), NEW a \in replies'  PROVE a.user # q.user
    <3>1. CASE a \in replies
      BY <2>1, <2>3, <3>1 DEF Timely
    <3>2. CASE a = n /\ Awaited(r)
      BY <1>5, <2>1, <2>3, <3>2 DEF Awaited, CallsApart
    <3> QED  BY <1>7, <3>1, <3>2
  <2> QED  BY <1>1, <2>1, <2>2, <2>3 DEF Timely
<1>11. \A a \in replies' : Answers(a)'
  <2> SUFFICES ASSUME NEW a \in replies'  PROVE Answers(a)'
    OBVIOUS
  <2>1. CASE a \in replies
    <3>1. /\ a.user \in User
          /\ a.result.ok => Holds(forms[a.user].phase, forms[a.user].intent, a.result)
      BY <2>1 DEF Answers
    <3>2. forms[a.user].intent \in FillId
      BY <2>1, <3>1 DEF FormsTypeOK, Waiting, Form
    <3>3. PICK phase, f, result : phase = forms[a.user].phase /\ f = forms[a.user].intent
                                   /\ result = a.result
      OBVIOUS
    <3>4. result.ok => Holds(phase, f, result)'
      BY <3>1, <3>2, <3>3, HoldsOn
    <3> QED  BY <1>1, <3>1, <3>3, <3>4 DEF Answers
  <2>2. CASE a = n /\ Awaited(r)
    <3>1. /\ a.user \in User
          /\ forms[a.user].phase = r.kind
          /\ forms[a.user].intent = r.intent
          /\ a.result = answer
      BY <1>3, <1>5, <2>2 DEF Timely, Asked
    <3> QED  BY <1>1, <3>1 DEF Answers
  <2> QED  BY <1>7, <2>1, <2>2
<1> QED  BY <1>2, <1>8, <1>9, <1>10, <1>11

\* A refusal tells nothing.
LEMMA RefuseStep ==
  ASSUME FormsInv, NEW r \in requests, requests' = requests \ {r},
         UNCHANGED <<forms, call>>, Refuse(r)
  PROVE  FormsInv'
<1>1. PICK answer : answer = [ok |-> FALSE]
  OBVIOUS
<1>2. Answer(r, answer) /\ UNCHANGED vars
  BY <1>1 DEF Refuse
<1>3. TypeInv' /\ FillsStay
  BY <1>2, TypeStep DEF FormsInv, vars, FillsStay
<1>4. ~answer.ok
  BY <1>1
<1> QED  BY <1>2, <1>3, <1>4, ServeStep

\* An answer that leaves the tables alone.
LEMMA AnswerStep ==
  ASSUME FormsInv, NEW r \in requests, requests' = requests \ {r},
         UNCHANGED <<forms, call>>, UNCHANGED vars,
         NEW answer, Answer(r, answer), Holds(r.kind, r.intent, answer)
  PROVE  FormsInv'
<1>1. TypeInv' /\ FillsStay
  BY TypeStep DEF FormsInv, vars, FillsStay
<1>2. r.intent \in FillId
  BY DEF FormsInv, Asked
<1>3. Holds(r.kind, r.intent, answer)'
  BY <1>1, <1>2, HoldsOn
<1> QED  BY <1>1, <1>3, ServeStep

LEMMA ServeListStep ==
  ASSUME FormsInv, NEW r \in requests, ServeList(r)
  PROVE  FormsInv' /\ UNCHANGED vars
<1>1. /\ requests' = requests \ {r} /\ UNCHANGED <<forms, call>>
      /\ r.kind = "list"
  BY DEF ServeList
<1>2. CASE Refuse(r)
  BY <1>1, <1>2, RefuseStep DEF Refuse
<1>3. CASE UNCHANGED vars /\ Answer(r, [ok |-> TRUE, order |-> None])
  <2>1. PICK answer : answer = [ok |-> TRUE, order |-> None]
    OBVIOUS
  <2>2. Holds(r.kind, r.intent, answer)
    BY <1>1, <2>1 DEF Holds
  <2> QED  BY <1>1, <1>3, <2>1, <2>2, AnswerStep
<1>4. ASSUME UNCHANGED vars, NEW o \in OrdersOf(orders, r.position, OrderNonTerminal),
             Answer(r, [ok |-> TRUE, order |-> o,
                        action |-> orders[o].action,
                        left |-> orders[o].requested - orders[o].filled,
                        version |-> orders[o].version])
      PROVE  FormsInv'
  <2>1. PICK answer : answer = [ok |-> TRUE, order |-> o,
                                action |-> orders[o].action,
                                left |-> orders[o].requested - orders[o].filled,
                                version |-> orders[o].version]
    OBVIOUS
  <2>2. o \in OrderId /\ orders[o] # None
    BY DEF OrdersOf
  <2>3. orders[o].version \in Nat
    BY <2>2 DEF FormsInv, TypeInv, TypeOK, OrderRow
  <2>4. answer.order = o /\ answer.version = orders[o].version
    BY <2>1
  <2>5. Holds(r.kind, r.intent, answer)
    BY <1>1, <2>2, <2>3, <2>4 DEF Holds
  <2> QED  BY <1>1, <1>4, <2>1, <2>5, AnswerStep
<1> QED  BY <1>2, <1>3, <1>4 DEF ServeList, Refuse

LEMMA ServeCreateStep ==
  ASSUME FormsInv, NEW r \in requests, ServeCreate(r)
  PROVE  FormsInv' /\ [Next]_vars /\ UNCHANGED fills
<1> DEFINE o == FormOrder[r.intent]
<1>1. /\ requests' = requests \ {r} /\ UNCHANGED <<forms, call>>
      /\ r.kind = "create"
  BY DEF ServeCreate
<1>2. Asked(r) /\ TypeInv
  BY DEF FormsInv
<1>3. o \in OrderId /\ o \in OrderIntent /\ r.position \in PositionId
      /\ r.body.action \in OrderAction /\ r.body.qty \in Qty
  BY <1>1, <1>2, FormAssumption DEF Asked, Entry
<1>4. CASE Refuse(r)
  BY <1>1, <1>4, RefuseStep DEF Refuse, vars
<1>5. CASE /\ orders[o] # None
           /\ Answer(r, [ok |-> TRUE, order |-> o, version |-> orders[o].version])
           /\ UNCHANGED vars
  <2>1. PICK answer : answer = [ok |-> TRUE, order |-> o, version |-> orders[o].version]
    OBVIOUS
  <2>2. orders[o].version \in Nat
    BY <1>2, <1>3, <1>5 DEF TypeInv, TypeOK, OrderRow
  <2>3. answer.order = o /\ answer.version = orders[o].version
    BY <2>1
  <2>4. Holds(r.kind, r.intent, answer)
    BY <1>1, <1>3, <2>2, <2>3 DEF Holds
  <2> QED  BY <1>1, <1>5, <2>1, <2>4, AnswerStep DEF vars
<1>6. CASE /\ CreateOrder(o, o, r.position, r.body.action, r.body.qty)
           /\ Answer(r, [ok |-> TRUE, order |-> o, version |-> 1])
  <2>1. PICK answer : answer = [ok |-> TRUE, order |-> o, version |-> 1]
    OBVIOUS
  <2>2. Next
    BY <1>3, <1>6 DEF Next
  <2>3. TypeInv'
    BY <1>2, <2>2, TypeStep
  <2>4. fills' = fills
    BY <1>6 DEF CreateOrder
  <2>5. answer.order = o /\ answer.version = 1
    BY <2>1
  <2>6. Holds(r.kind, r.intent, answer)'
    BY <1>1, <1>3, <2>5 DEF Holds
  <2>7. FillsStay
    BY <2>4 DEF FillsStay
  <2> QED  BY <1>1, <1>6, <2>1, <2>2, <2>3, <2>4, <2>6, <2>7, ServeStep
<1> QED  BY <1>4, <1>5, <1>6 DEF ServeCreate

\* A registered fill is new, and recorded with the contents it was sent with.
LEMMA FillRegistered ==
  ASSUME TypeInv, NEW r, Asked(r), r.kind = "register",
         orders[r.body.order].action = r.body.action,
         ApplyFill(r.intent, r.body.order, r.body.version, r.body.qty,
                   r.body.price, r.body.fee)
  PROVE  /\ Next
         /\ fills[r.intent] = None
         /\ fills' = [fills EXCEPT ![r.intent] =
                        NewFill(r.body.order, r.body.qty, r.body.price, r.body.fee)]
         /\ fills'[r.intent] # None
         /\ Recorded' = [Recorded EXCEPT ![r.intent] = Body(r.body.action, r.body.qty)]
<1> DEFINE o == r.body.order
           fill == NewFill(o, r.body.qty, r.body.price, r.body.fee)
<1>1. r.intent \in FillId /\ r.body \in Filling
  BY DEF Asked
<1>2. /\ o \in OrderId /\ r.body.version \in Nat /\ r.body.action \in OrderAction
      /\ r.body.qty \in Qty /\ r.body.price \in Price /\ r.body.fee \in Fee
  BY <1>1 DEF Filling
<1>3. /\ fills[r.intent] = None
      /\ FillFits(o, r.body.version, r.body.qty)
      /\ fills' = [fills EXCEPT ![r.intent] = fill]
  BY DEF ApplyFill, CanApplyFill, FillsWith
<1>4. orders[o] \in OrderRow
  BY <1>2, <1>3 DEF FillFits, TypeInv, TypeOK
<1>5. r.body.version \in Versions(o)
  <2>1. orders[o].version \in Nat /\ orders[o].version >= 1
    BY <1>3, <1>4 DEF FillFits, OrderReadable, OrderRow
  <2> QED  BY <1>3, <2>1 DEF FillFits, Versions
<1>6. Next
  BY <1>1, <1>2, <1>5 DEF Next
<1>7. fill \in FillRow
  BY <1>2, <1>4 DEF NewFill, FillRow, OrderRow
<1>8. fills'[r.intent] = fill /\ fill # None
  BY <1>1, <1>3, <1>7, NoneAssumption DEF TypeInv, TypeOK
<1>9. fill.action = r.body.action /\ fill.qty = r.body.qty
  BY DEF NewFill
<1>10. \A f \in FillId \ {r.intent} : fills'[f] = fills[f]
  BY <1>3 DEF TypeInv, TypeOK
<1> HIDE DEF fill
<1>11. Recorded' = [Recorded EXCEPT ![r.intent] = Body(r.body.action, r.body.qty)]
  BY <1>1, <1>8, <1>9, <1>10 DEF Recorded
<1> QED  BY <1>3, <1>6, <1>8, <1>11 DEF fill

\* Registering records the intent, or changes nothing.
Registers(f, entry) ==
    Recorded[f] = None /\ Recorded' = [Recorded EXCEPT ![f] = entry]

LEMMA ServeRegisterStep ==
  ASSUME FormsInv, NEW r \in requests, ServeRegister(r)
  PROVE  /\ FormsInv' /\ [Next]_vars
         /\ \/ UNCHANGED fills
            \/ \E f \in FillId, entry \in Entry : Registers(f, entry)
<1>1. /\ requests' = requests \ {r} /\ UNCHANGED <<forms, call>>
      /\ r.kind = "register"
  BY DEF ServeRegister
<1>2. Asked(r) /\ TypeInv
  BY DEF FormsInv
<1>3. r.intent \in FillId /\ r.body \in Filling
  BY <1>1, <1>2 DEF Asked
<1>4. PICK answer : answer = [ok |-> TRUE, told |-> Body(r.body.action, r.body.qty)]
  OBVIOUS
<1>5. answer.told = Body(r.body.action, r.body.qty)
  BY <1>4
<1>6. CASE Refuse(r)
  BY <1>1, <1>6, RefuseStep DEF Refuse, vars
<1>7. CASE Replayed(r) /\ Answer(r, answer) /\ UNCHANGED vars
  <2>1. Recorded[r.intent] = Body(r.body.action, r.body.qty)
    BY <1>3, <1>7 DEF Replayed, Recorded
  <2>2. Holds(r.kind, r.intent, answer)
    BY <1>1, <1>5, <1>7, <2>1 DEF Holds, Replayed
  <2> QED  BY <1>1, <1>7, <2>2, AnswerStep DEF vars
<1>8. CASE /\ orders[r.body.order].action = r.body.action
           /\ ApplyFill(r.intent, r.body.order, r.body.version, r.body.qty,
                        r.body.price, r.body.fee)
           /\ Answer(r, answer)
  <2>1. /\ Next
        /\ fills[r.intent] = None
        /\ fills' = [fills EXCEPT ![r.intent] =
                        NewFill(r.body.order, r.body.qty, r.body.price, r.body.fee)]
        /\ fills'[r.intent] # None
        /\ Recorded' = [Recorded EXCEPT ![r.intent] = Body(r.body.action, r.body.qty)]
    BY <1>1, <1>2, <1>8, FillRegistered
  <2>2. TypeInv'
    BY <1>2, <2>1, TypeStep
  <2>3. FillsStay
    BY <1>2, <2>1 DEF FillsStay, TypeInv, TypeOK
  <2>4. Recorded'[r.intent] = Body(r.body.action, r.body.qty)
    BY <1>3, <2>1 DEF Recorded
  <2>5. Holds(r.kind, r.intent, answer)'
    BY <1>1, <1>5, <2>1, <2>4 DEF Holds
  <2>6. FormsInv'
    BY <1>1, <1>8, <2>2, <2>3, <2>5, ServeStep
  <2>7. Recorded[r.intent] = None
    BY <1>3, <2>1 DEF Recorded
  <2>8. Body(r.body.action, r.body.qty) \in Entry
    BY <1>3 DEF Filling, Body, Entry
  <2> QED  BY <1>3, <2>1, <2>6, <2>7, <2>8 DEF Registers
<1> QED  BY <1>4, <1>6, <1>7, <1>8 DEF ServeRegister

\* The other actors call the repository, and no form hears of it.
LEMMA OthersStep ==
  ASSUME FormsInv, OtherActors
  PROVE  FormsInv' /\ Next /\ UNCHANGED fills
<1> USE DEF FormsInv
<1>1. Next /\ fills' = fills
  <2>1. ASSUME NEW p \in PositionId, NEW intent \in CreateIntent, CreatePosition(p, intent)
        PROVE  Next /\ fills' = fills
    BY <2>1 DEF Next, CreatePosition
  <2>2. ASSUME NEW o \in ExitOrder, NEW p \in PositionId, NEW qty \in Qty,
               CreateOrder(o, o, p, "SELL", qty)
        PROVE  Next /\ fills' = fills
    <3>1. o \in OrderId /\ o \in OrderIntent /\ "SELL" \in OrderAction
      BY FormAssumption DEF OrderAction
    <3>2. Next
      BY <2>2, <3>1 DEF Next
    <3> QED  BY <2>2, <3>2 DEF CreateOrder
  <2>3. ASSUME NEW o \in OrderId, NEW to \in AdminTarget, NEW when \in When,
               NEW version \in Versions(o), UpdateOrderStatus(o, version, to, when)
        PROVE  Next /\ fills' = fills
    BY <2>3 DEF Next, UpdateOrderStatus
  <2> QED  BY <2>1, <2>2, <2>3 DEF OtherActors
<1>2. TypeInv'
  BY <1>1, TypeStep
<1>3. /\ forms' = forms /\ call' = call /\ requests' = requests /\ replies' = replies
      /\ \A v \in User : Waiting(v)' = Waiting(v)
  BY DEF OtherActors, formVars, Waiting
<1>4. FormsTypeOK'
  <2>1. \A a \in replies' : Waiting(a.user)'
    BY <1>3 DEF FormsTypeOK, Answers
  <2> QED  BY <1>3, <2>1 DEF FormsTypeOK
<1>5. /\ CallsApart'
      /\ Apart(forms)' /\ \A v \in User : forms'[v] # None => Clicked(forms'[v])
  BY <1>3 DEF CallsApart
<1>6. \A r \in requests' : (Asked(r) /\ Timely(r))'
  <2> SUFFICES ASSUME NEW r \in requests'  PROVE (Asked(r) /\ Timely(r))'
    OBVIOUS
  <2>1. r \in requests /\ Asked(r) /\ Timely(r) /\ r.user \in User
    BY <1>3 DEF Asked
  <2>2. Awaited(r)' = Awaited(r)
    BY <1>3, <2>1 DEF Awaited
  <2> QED  BY <1>3, <2>1, <2>2 DEF Timely, Asked
<1>7. \A a \in replies' : Answers(a)'
  BY <1>1, <1>3 DEF Answers, Holds, Recorded
<1> QED  BY <1>1, <1>2, <1>4, <1>5, <1>6, <1>7

-----------------------------------------------------------------------------
(***************************************************************************)
(* The actions of the user, of the callbacks and of the timer.  Each leaves *)
(* the tables alone; what the forms show is kept, told or forgotten.        *)
(***************************************************************************)
Forgets(f) == Told' = [Told EXCEPT ![f] = None]

Tells(f) == fills[f] # None /\ Told' = [Told EXCEPT ![f] = Recorded[f]]

LEMMA OpenFormStep ==
  ASSUME FormsInv, NEW u \in User, NEW f \in FillId, OpenForm(u, f)
  PROVE  /\ FormsInv' /\ UNCHANGED vars
         /\ UNCHANGED Told \/ \E g \in FillId : Forgets(g)
<1>1. PICK new : new = [intent |-> f, position |-> None, action |-> "BUY", qty |-> 0,
                        phase |-> "idle", told |-> None]
  OBVIOUS
<1>2. /\ new \in Form /\ new # None
      /\ new.intent = f /\ new.phase = "idle" /\ new.told = None
  BY <1>1, NoFormAssumption DEF Form, Phase, OrderAction
<1>3. \A v \in User : forms[v] # None => forms[v].intent # f
  BY DEF OpenForm, Used
<1>4. forms' = [forms EXCEPT ![u] = new]
  BY <1>1 DEF OpenForm
<1>5. Cleared(u)
  BY IdleCleared DEF OpenForm
<1>6. requests' \subseteq requests /\ UNCHANGED <<vars, call>> /\ UNCHANGED vars
  BY DEF OpenForm
<1>7. FormsInv'
  BY <1>2, <1>3, <1>4, <1>5, <1>6, QuietStep
<1>8. /\ forms'[u] = new
      /\ \A v \in User \ {u} : forms'[v] = forms[v]
      /\ forms[u] # None => forms[u].intent \in FillId
  BY <1>4 DEF FormsInv, FormsTypeOK, Form
<1>9. Apart(forms) /\ Apart(forms')
  BY <1>7 DEF FormsInv
<1>10. \/ ToldBy(forms') = ToldBy(forms)
       \/ \E g \in FillId : ToldBy(forms') = [ToldBy(forms) EXCEPT ![g] = None]
  <2>1. forms'[u] # None =>
          /\ forms'[u].told = None
          /\ \A v \in User : forms[v] # None => forms[v].intent # forms'[u].intent
    BY <1>2, <1>3, <1>8
  <2>2. forms'[u] # None => forms'[u].intent \in FillId
    BY <1>2, <1>8
  <2> QED  BY <1>8, <1>9, <2>1, <2>2, ToldForgotten
<1> QED  BY <1>6, <1>7, <1>10 DEF Told, Forgets

LEMMA CloseFormStep ==
  ASSUME FormsInv, NEW u \in User, CloseForm(u)
  PROVE  /\ FormsInv' /\ UNCHANGED vars
         /\ UNCHANGED Told \/ \E g \in FillId : Forgets(g)
<1>1. forms' = [forms EXCEPT ![u] = None]
  BY DEF CloseForm
<1>2. Cleared(u)
  BY IdleCleared DEF CloseForm
<1>3. requests' \subseteq requests /\ UNCHANGED <<vars, call>> /\ UNCHANGED vars
  BY DEF CloseForm
<1>4. FormsInv'
  BY <1>1, <1>2, <1>3, QuietStep
<1>5. /\ forms'[u] = None
      /\ \A v \in User \ {u} : forms'[v] = forms[v]
      /\ forms[u] # None => forms[u].intent \in FillId
  BY <1>1 DEF FormsInv, FormsTypeOK, Form
<1>6. Apart(forms) /\ Apart(forms')
  BY <1>4 DEF FormsInv
<1>7. \/ ToldBy(forms') = ToldBy(forms)
      \/ \E g \in FillId : ToldBy(forms') = [ToldBy(forms) EXCEPT ![g] = None]
  BY <1>5, <1>6, ToldForgotten
<1> QED  BY <1>3, <1>4, <1>7 DEF Told, Forgets

LEMMA SelectActionStep ==
  ASSUME FormsInv, NEW u \in User, NEW action \in OrderAction, SelectAction(u, action)
  PROVE  FormsInv' /\ UNCHANGED vars /\ UNCHANGED Told
<1>1. FormsInv' /\ UNCHANGED vars
  BY SelectStep DEF SelectAction
<1>2. /\ forms' = [forms EXCEPT ![u].action = action]
      /\ forms \in [User -> Form \cup {None}] /\ forms[u] # None /\ forms[u] \in Form
  BY DEF FormsInv, FormsTypeOK, SelectAction
<1>3. /\ forms'[u] = [forms[u] EXCEPT !.action = action]
      /\ \A v \in User \ {u} : forms'[v] = forms[v]
  BY <1>2
<1>4. /\ forms'[u] \in Form /\ forms'[u] # None
      /\ forms'[u].intent = forms[u].intent /\ forms'[u].told = forms[u].told
      /\ forms[u].intent \in FillId
  BY <1>2, <1>3, NoFormAssumption DEF Form
<1>5. Apart(forms) /\ Apart(forms')
  BY <1>1 DEF FormsInv
<1>6. ToldBy(forms') = ToldBy(forms)
  BY <1>2, <1>3, <1>4, <1>5, ToldKept
<1> QED  BY <1>1, <1>6 DEF Told

\* A form that makes its next call shows what it showed.
LEMMA SendKeepsTold ==
  ASSUME FormsInv, NEW u \in User, forms[u] # None, NEW new \in Form,
         new.phase # "idle", new.intent = forms[u].intent, new.told = forms[u].told,
         Clicked(new),
         NEW body,
         new.phase = "create" => body \in Entry,
         new.phase = "register" => body \in Filling,
         forms' = [forms EXCEPT ![u] = new],
         Send(u, new.phase, new.position, body),
         Cleared(u), UNCHANGED vars
  PROVE  FormsInv' /\ UNCHANGED Told
<1>1. FormsInv'
  BY SendStep
<1>2. /\ forms'[u] = new /\ new # None /\ new.intent \in FillId
      /\ \A v \in User \ {u} : forms'[v] = forms[v]
  BY NoFormAssumption DEF FormsInv, FormsTypeOK, Form
<1>3. Apart(forms) /\ Apart(forms')
  BY <1>1 DEF FormsInv
<1>4. ToldBy(forms') = ToldBy(forms)
  BY <1>2, <1>3, ToldKept
<1> QED  BY <1>1, <1>4 DEF Told

LEMMA SubmitStep ==
  ASSUME FormsInv, NEW u \in User, NEW p \in PositionId, NEW qty \in Qty,
         Submit(u, p, qty)
  PROVE  FormsInv' /\ UNCHANGED vars /\ UNCHANGED Told
<1>1. PICK new : new = [forms[u] EXCEPT !.phase = "list", !.position = p, !.qty = qty]
  OBVIOUS
<1>2. forms[u] # None /\ forms[u] \in Form
  BY DEF FormsInv, FormsTypeOK, Submit
<1>3. /\ new \in Form /\ new.phase = "list" /\ new.position = p /\ new.qty = qty
      /\ new.intent = forms[u].intent /\ new.told = forms[u].told
  BY <1>1, <1>2 DEF Form, Phase
<1>4. forms' = [forms EXCEPT ![u] = new]
  BY <1>1 DEF Submit
<1>5. Cleared(u)
  BY IdleCleared DEF Submit
<1>6. Send(u, new.phase, new.position, None) /\ UNCHANGED vars
  BY <1>3 DEF Submit
<1>7. Clicked(new)
  BY <1>3 DEF Clicked
<1> QED  BY <1>2, <1>3, <1>4, <1>5, <1>6, <1>7, SendKeepsTold

\* The next call of a click.
LEMMA ProceedStep ==
  ASSUME FormsInv, NEW u \in User, Waiting(u), NEW phase \in Phase \ {"idle"}, NEW body,
         phase = "create" => body \in Entry,
         phase = "register" => body \in Filling,
         Proceed(u, phase, body), Cleared(u), UNCHANGED vars
  PROVE  FormsInv' /\ UNCHANGED Told
<1>1. PICK new : new = [forms[u] EXCEPT !.phase = phase]
  OBVIOUS
<1>2. forms[u] # None /\ forms[u] \in Form /\ forms[u].phase # "idle"
  BY DEF FormsInv, FormsTypeOK, Waiting
<1>3. /\ new \in Form /\ new.phase = phase
      /\ new.position = forms[u].position /\ new.qty = forms[u].qty
      /\ new.intent = forms[u].intent /\ new.told = forms[u].told
  BY <1>1, <1>2 DEF Form, Phase
<1>4. forms' = [forms EXCEPT ![u] = new] /\ Send(u, new.phase, new.position, body)
  BY <1>1, <1>3 DEF Proceed
<1>5. Clicked(new)
  BY <1>2, <1>3 DEF Clicked, FormsInv
<1> QED  BY <1>2, <1>3, <1>4, <1>5, SendKeepsTold

\* What a waiting form sends is typed.
LEMMA RegisterStep ==
  ASSUME FormsInv, NEW u \in User, Waiting(u), NEW o \in OrderId, NEW version \in Nat,
         Register(u, o, version), Cleared(u), UNCHANGED vars
  PROVE  FormsInv' /\ UNCHANGED Told
<1>1. PICK price \in Price, fee \in Fee :
        Proceed(u, "register",
                [order |-> o, version |-> version, action |-> forms[u].action,
                 qty |-> forms[u].qty, price |-> price, fee |-> fee])
  BY DEF Register
<1>2. forms[u] \in Form /\ forms[u].qty \in Qty
  BY DEF FormsInv, FormsTypeOK, Waiting, Clicked
<1>3. [order |-> o, version |-> version, action |-> forms[u].action,
       qty |-> forms[u].qty, price |-> price, fee |-> fee] \in Filling
  BY <1>2 DEF Form, Filling
<1>4. "register" \in Phase \ {"idle"}
  BY DEF Phase
<1> QED  BY <1>1, <1>3, <1>4, ProceedStep

LEMMA CreateStep ==
  ASSUME FormsInv, NEW u \in User, Waiting(u), Create(u), Cleared(u), UNCHANGED vars
  PROVE  FormsInv' /\ UNCHANGED Told
<1>1. forms[u] \in Form /\ forms[u].qty \in Qty
  BY DEF FormsInv, FormsTypeOK, Waiting, Clicked
<1>2. Body(forms[u].action, forms[u].qty) \in Entry
  BY <1>1 DEF Form, Body, Entry
<1>3. "create" \in Phase \ {"idle"}
  BY DEF Phase
<1> QED  BY <1>2, <1>3, ProceedStep DEF Create

\* A form that stops submitting shows what it showed, or what it was just told.
LEMMA StopStep ==
  ASSUME FormsInv, NEW u \in User, Waiting(u), NEW new \in Form,
         new.phase = "idle", new.intent = forms[u].intent,
         forms' = [forms EXCEPT ![u] = new],
         Cleared(u), requests' \subseteq requests, UNCHANGED <<vars, call>>
  PROVE  /\ FormsInv' /\ new.intent \in FillId
         /\ Told' = [Told EXCEPT ![new.intent] = new.told]
         /\ new.told = forms[u].told => UNCHANGED Told
<1>1. forms[u] # None
  BY DEF Waiting
<1>2. \A v \in User \ {u} : new # None /\ forms[v] # None => forms[v].intent # new.intent
  BY <1>1 DEF FormsInv, Apart
<1>3. FormsInv'
  BY <1>2, QuietStep
<1>4. /\ forms'[u] = new /\ new # None /\ new.intent \in FillId
      /\ \A v \in User \ {u} : forms'[v] = forms[v]
  BY NoFormAssumption DEF FormsInv, FormsTypeOK, Form
<1>5. Apart(forms) /\ Apart(forms')
  BY <1>3 DEF FormsInv
<1>6. ToldBy(forms') = [ToldBy(forms) EXCEPT ![new.intent] = new.told]
  <2>1. PICK fs, gs : fs = forms /\ gs = forms'
    OBVIOUS
  <2>2. /\ Apart(fs) /\ Apart(gs)
        /\ fs[u] # None /\ gs[u] # None
        /\ gs[u].intent = fs[u].intent /\ fs[u].intent \in FillId
        /\ \A v \in User \ {u} : gs[v] = fs[v]
        /\ fs[u].intent = new.intent /\ gs[u].told = new.told
    BY <1>1, <1>4, <1>5, <2>1
  <2>3. /\ ToldBy(gs)[fs[u].intent] = gs[u].told
        /\ \A f \in FillId \ {fs[u].intent} : ToldBy(gs)[f] = ToldBy(fs)[f]
    BY <2>2, ToldChanges
  <2>4. /\ ToldBy(gs) = [f \in FillId |-> ToldBy(gs)[f]]
        /\ ToldBy(fs) = [f \in FillId |-> ToldBy(fs)[f]]
    BY DEF ToldBy
  <2>5. ToldBy(gs) = [ToldBy(fs) EXCEPT ![new.intent] = new.told]
    BY <2>2, <2>3, <2>4
  <2> QED  BY <2>1, <2>5
<1>7. new.told = forms[u].told => ToldBy(forms') = ToldBy(forms)
  BY <1>1, <1>4, <1>5, ToldKept
<1> QED  BY <1>3, <1>4, <1>6, <1>7 DEF Told

LEMMA StopSubmittingStep ==
  ASSUME FormsInv, NEW u \in User, Waiting(u),
         forms' = [forms EXCEPT ![u].phase = "idle"],
         Cleared(u), requests' \subseteq requests, UNCHANGED <<vars, call>>
  PROVE  FormsInv' /\ UNCHANGED Told
<1>1. PICK new : new = [forms[u] EXCEPT !.phase = "idle"]
  OBVIOUS
<1>2. forms[u] \in Form
  BY DEF FormsInv, FormsTypeOK, Waiting
<1>3. /\ new \in Form /\ new.phase = "idle"
      /\ new.intent = forms[u].intent /\ new.told = forms[u].told
  BY <1>1, <1>2 DEF Form, Phase
<1>4. forms' = [forms EXCEPT ![u] = new]
  BY <1>1
<1> QED  BY <1>3, <1>4, StopStep

\* What a waiting form receives holds.
LEMMA Received ==
  ASSUME FormsInv, NEW u \in User, NEW phase, NEW a, Receive(u, phase, a)
  PROVE  /\ Waiting(u) /\ Cleared(u) /\ UNCHANGED vars
         /\ a.result.ok => Holds(phase, forms[u].intent, a.result)
<1>1. Waiting(u) /\ forms[u].phase = phase /\ a \in replies /\ a.user = u /\ UNCHANGED vars
  BY DEF Receive
<1>2. Answers(a)
  BY <1>1 DEF FormsInv
<1> QED  BY <1>1, <1>2, ReceiveClears DEF Answers

LEMMA ReceiveOrdersStep ==
  ASSUME FormsInv, NEW u \in User, ReceiveOrders(u)
  PROVE  FormsInv' /\ UNCHANGED vars /\ UNCHANGED Told
<1>1. PICK a \in replies :
        /\ Receive(u, "list", a)
        /\ \/ StopSubmitting(u)
           \/ /\ a.result.ok /\ a.result.order # None
              /\ Register(u, a.result.order, a.result.version)
           \/ Create(u)
  BY DEF ReceiveOrders
<1>2. /\ Waiting(u) /\ Cleared(u) /\ UNCHANGED vars
      /\ a.result.ok => Holds("list", forms[u].intent, a.result)
  BY <1>1, Received
<1>3. CASE StopSubmitting(u)
  <2>1. /\ forms' = [forms EXCEPT ![u].phase = "idle"]
        /\ requests' \subseteq requests /\ UNCHANGED <<vars, call>>
    BY <1>2, <1>3 DEF StopSubmitting
  <2> QED  BY <1>2, <2>1, StopSubmittingStep
<1>4. CASE /\ a.result.ok /\ a.result.order # None
           /\ Register(u, a.result.order, a.result.version)
  <2>1. a.result.order \in OrderId /\ a.result.version \in Nat
    BY <1>2, <1>4 DEF Holds
  <2> QED  BY <1>2, <1>4, <2>1, RegisterStep
<1>5. CASE Create(u)
  BY <1>2, <1>5, CreateStep
<1> QED  BY <1>1, <1>3, <1>4, <1>5

LEMMA ReceiveOrderStep ==
  ASSUME FormsInv, NEW u \in User, ReceiveOrder(u)
  PROVE  FormsInv' /\ UNCHANGED vars /\ UNCHANGED Told
<1>1. PICK a \in replies :
        /\ Receive(u, "create", a)
        /\ \/ StopSubmitting(u)
           \/ a.result.ok /\ Register(u, a.result.order, a.result.version)
  BY DEF ReceiveOrder
<1>2. /\ Waiting(u) /\ Cleared(u) /\ UNCHANGED vars
      /\ a.result.ok => Holds("create", forms[u].intent, a.result)
  BY <1>1, Received
<1>3. CASE StopSubmitting(u)
  <2>1. /\ forms' = [forms EXCEPT ![u].phase = "idle"]
        /\ requests' \subseteq requests /\ UNCHANGED <<vars, call>>
    BY <1>2, <1>3 DEF StopSubmitting
  <2> QED  BY <1>2, <2>1, StopSubmittingStep
<1>4. CASE a.result.ok /\ Register(u, a.result.order, a.result.version)
  <2>1. a.result.order \in OrderId /\ a.result.version \in Nat
    BY <1>2, <1>4 DEF Holds
  <2> QED  BY <1>2, <1>4, <2>1, RegisterStep
<1> QED  BY <1>1, <1>3, <1>4

\* "Fill registered." is shown of a fill that is recorded, as it is recorded.
LEMMA ReceiveFillStep ==
  ASSUME FormsInv, NEW u \in User, ReceiveFill(u)
  PROVE  /\ FormsInv' /\ UNCHANGED vars
         /\ UNCHANGED Told \/ \E f \in FillId : Tells(f)
<1>1. PICK a \in replies :
        /\ Receive(u, "register", a)
        /\ \/ StopSubmitting(u)
           \/ /\ a.result.ok
              /\ forms' = [forms EXCEPT ![u].phase = "idle", ![u].told = a.result.told]
              /\ UNCHANGED <<call, requests>>
  BY DEF ReceiveFill
<1>2. /\ Waiting(u) /\ Cleared(u) /\ UNCHANGED vars
      /\ a.result.ok => Holds("register", forms[u].intent, a.result)
  BY <1>1, Received
<1>3. CASE StopSubmitting(u)
  <2>1. /\ forms' = [forms EXCEPT ![u].phase = "idle"]
        /\ requests' \subseteq requests /\ UNCHANGED <<vars, call>>
    BY <1>2, <1>3 DEF StopSubmitting
  <2> QED  BY <1>2, <2>1, StopSubmittingStep
<1>4. CASE /\ a.result.ok
           /\ forms' = [forms EXCEPT ![u].phase = "idle", ![u].told = a.result.told]
           /\ UNCHANGED <<call, requests>>
  <2>1. PICK f, told : f = forms[u].intent /\ told = a.result.told
    OBVIOUS
  <2>2. forms[u] \in Form /\ f \in FillId
    BY <1>2, <2>1 DEF FormsInv, FormsTypeOK, Waiting, Form
  <2>3. fills[f] # None /\ Recorded[f] = told
    BY <1>2, <1>4, <2>1 DEF Holds
  <2>4. told \in Entry
    <3>1. fills[f] \in FillRow
      BY <2>2, <2>3 DEF FormsInv, TypeInv, TypeOK
    <3>2. told = Body(fills[f].action, fills[f].qty)
      BY <2>2, <2>3 DEF Recorded
    <3> QED  BY <3>1, <3>2 DEF FillRow, Body, Entry
  <2>5. PICK new : new = [forms[u] EXCEPT !.phase = "idle", !.told = told]
    OBVIOUS
  <2>6. /\ new \in Form /\ new.phase = "idle"
        /\ new.intent = f /\ new.told = told
    BY <2>1, <2>2, <2>4, <2>5 DEF Form, Phase
  <2>7. forms' = [forms EXCEPT ![u] = new]
    BY <1>4, <2>1, <2>5
  <2>8. requests' \subseteq requests /\ UNCHANGED <<vars, call>>
    BY <1>2, <1>4
  <2>9. FormsInv' /\ Told' = [Told EXCEPT ![f] = told]
    BY <1>2, <2>1, <2>6, <2>7, <2>8, StopStep
  <2> QED  BY <1>2, <2>2, <2>3, <2>9 DEF Tells
<1> QED  BY <1>1, <1>3, <1>4

LEMMA TimeoutStep ==
  ASSUME FormsInv, NEW u \in User, Timeout(u)
  PROVE  FormsInv' /\ UNCHANGED vars /\ UNCHANGED Told
<1>1. /\ Waiting(u) /\ Cleared(u) /\ UNCHANGED vars
      /\ forms' = [forms EXCEPT ![u].phase = "idle"]
      /\ requests' \subseteq requests /\ UNCHANGED <<vars, call>>
  BY DEF Timeout, Cleared
<1> QED  BY <1>1, StopSubmittingStep

-----------------------------------------------------------------------------
(***************************************************************************)
(* All together: a step of the forms is a step of the repository, and of   *)
(* the ledger of intents, or changes nothing that they see.                *)
(***************************************************************************)
LEMMA FormsStep ==
  ASSUME FormsInv, [FormsNext]_allVars
  PROVE  /\ FormsInv' /\ [Next]_vars
         /\ \/ UNCHANGED <<Recorded, Told>>
            \/ \E f \in FillId :
                \/ Tells(f) /\ UNCHANGED Recorded
                \/ Forgets(f) /\ UNCHANGED Recorded
                \/ \E entry \in Entry : Registers(f, entry) /\ UNCHANGED Told
<1>1. UNCHANGED fills => UNCHANGED Recorded
  BY DEF Recorded
<1>2. UNCHANGED forms => UNCHANGED Told
  BY DEF Told
<1>3. UNCHANGED vars => UNCHANGED Recorded
  BY <1>1 DEF vars
<1>4. ASSUME NEW u \in User, NEW f \in FillId, OpenForm(u, f)
      PROVE  FormsInv' /\ UNCHANGED vars /\ (UNCHANGED Told \/ \E g \in FillId : Forgets(g))
  BY <1>4, OpenFormStep
<1>5. ASSUME NEW u \in User, CloseForm(u)
      PROVE  FormsInv' /\ UNCHANGED vars /\ (UNCHANGED Told \/ \E g \in FillId : Forgets(g))
  BY <1>5, CloseFormStep
<1>6. ASSUME NEW u \in User, NEW action \in OrderAction, SelectAction(u, action)
      PROVE  FormsInv' /\ UNCHANGED vars /\ UNCHANGED Told
  BY <1>6, SelectActionStep
<1>7. ASSUME NEW u \in User, NEW p \in PositionId, NEW qty \in Qty, Submit(u, p, qty)
      PROVE  FormsInv' /\ UNCHANGED vars /\ UNCHANGED Told
  BY <1>7, SubmitStep
<1>8. ASSUME NEW r \in requests, ServeList(r)
      PROVE  FormsInv' /\ UNCHANGED vars /\ UNCHANGED Told
  BY <1>2, <1>8, ServeListStep DEF ServeList
<1>9. ASSUME NEW r \in requests, ServeCreate(r)
      PROVE  FormsInv' /\ [Next]_vars /\ UNCHANGED <<Recorded, Told>>
  BY <1>1, <1>2, <1>9, ServeCreateStep DEF ServeCreate
<1>10. ASSUME NEW r \in requests, ServeRegister(r)
       PROVE  /\ FormsInv' /\ [Next]_vars /\ UNCHANGED Told
              /\ \/ UNCHANGED Recorded
                 \/ \E f \in FillId, entry \in Entry : Registers(f, entry)
  BY <1>1, <1>2, <1>10, ServeRegisterStep DEF ServeRegister
<1>11. ASSUME NEW u \in User, Settle(u)
       PROVE  FormsInv' /\ UNCHANGED vars /\ (UNCHANGED Told \/ \E f \in FillId : Tells(f))
  BY <1>11, ReceiveOrdersStep, ReceiveOrderStep, ReceiveFillStep, TimeoutStep DEF Settle
<1>12. ASSUME OtherActors
       PROVE  FormsInv' /\ Next /\ UNCHANGED <<Recorded, Told>>
  BY <1>1, <1>2, <1>12, OthersStep DEF OtherActors, formVars
<1>13. CASE UNCHANGED allVars
  <2>1. UNCHANGED <<vars, forms, call, requests, replies, fills>>
    BY <1>13 DEF allVars, formVars, vars
  <2>2. TypeInv'
    BY <2>1, TypeStep DEF FormsInv
  <2>3. FormsInv'
    BY <2>1, <2>2 DEF FormsInv, FormsTypeOK, CallsApart, Asked, Timely, Awaited, Waiting,
       Answers, Holds, Recorded
  <2> QED  BY <1>1, <1>2, <2>1, <2>3
<1>14. CASE FormsNext
  <2>1. \/ /\ UNCHANGED vars /\ FormsInv'
           /\ UNCHANGED Told \/ \E g \in FillId : Forgets(g) \/ Tells(g)
        \/ \E r \in requests : ServeCreate(r) \/ ServeRegister(r)
        \/ OtherActors
    BY <1>4, <1>5, <1>6, <1>7, <1>8, <1>11, <1>14 DEF FormsNext
  <2> QED  BY <1>3, <1>9, <1>10, <1>12, <2>1
<1> QED  BY <1>13, <1>14

LEMMA FormsInitially == FormsInit => FormsInv
<1> SUFFICES ASSUME FormsInit  PROVE FormsInv
  OBVIOUS
<1>1. TypeInv
  BY TypeInit DEF FormsInit
<1>2. FormsTypeOK /\ Apart(forms) /\ CallsApart
      /\ \A u \in User : forms[u] # None => Clicked(forms[u])
  BY DEF FormsInit, FormsTypeOK, Apart, CallsApart
<1>3. requests = {} /\ replies = {}
  BY DEF FormsInit
<1> QED  BY <1>1, <1>2, <1>3 DEF FormsInv

(***************************************************************************)
(* The form and its server keep their types, and a form has at most one    *)
(* answer, that of the call it waits for (pmRequest, backendJsonFetch).    *)
(***************************************************************************)
THEOREM FormsTypeCorrect == FormsSpec => []FormsTypeOK
<1>1. FormsInv => FormsTypeOK
  BY DEF FormsInv
<1>2. FormsInv /\ [FormsNext]_allVars => FormsInv'
  BY FormsStep
<1> QED  BY <1>1, <1>2, FormsInitially, PTL DEF FormsSpec

(***************************************************************************)
(* Whatever the forms and the other actors ask for, late or twice, is one  *)
(* of the calls that Positions is about: all that is proved of Positions   *)
(* holds of the tables behind the service (positions_service.py).          *)
(***************************************************************************)
THEOREM FormsAreCallers == FormsSpec => Spec
<1>1. FormsInv /\ [FormsNext]_allVars => FormsInv' /\ [Next]_vars
  BY FormsStep
<1>2. FormsInit => Init
  BY DEF FormsInit
<1> QED  BY <1>1, <1>2, FormsInitially, PTL DEF FormsSpec, Spec

(***************************************************************************)
(* Whatever the clicks, edits, timeouts and late requests: an intent is    *)
(* recorded at most once, and a form shows "Fill registered." only for a   *)
(* fill that is recorded with the contents it sent (submitFill,            *)
(* register_fill).                                                         *)
(***************************************************************************)
THEOREM LedgerAlwaysKept == FormsSpec => LedgerKept
<1>1. FormsInit => Ledger!Init
  <2> SUFFICES ASSUME FormsInit  PROVE Ledger!Init
    OBVIOUS
  <2>1. Recorded = [f \in FillId |-> None]
    BY DEF FormsInit, Init, Recorded
  <2>2. \A f \in FillId : FormsOf(forms, f) = {}
    BY DEF FormsInit, FormsOf
  <2>3. Told = [f \in FillId |-> None]
    BY <2>2 DEF Told, ToldBy
  <2> QED  BY <2>1, <2>3 DEF Ledger!Init
<1>2. FormsInv /\ [FormsNext]_allVars => FormsInv' /\ [Ledger!Next]_<<Recorded, Told>>
  <2> SUFFICES ASSUME FormsInv, [FormsNext]_allVars
               PROVE  FormsInv' /\ [Ledger!Next]_<<Recorded, Told>>
    OBVIOUS
  <2>1. ASSUME NEW f \in FillId, Tells(f), UNCHANGED Recorded
        PROVE  Ledger!Tell(f)
    <3>1. Recorded[f] # None
      <4>1. fills[f] # None /\ fills[f] \in FillRow
        BY <2>1 DEF Tells, FormsInv, TypeInv, TypeOK
      <4>2. Recorded[f] = Body(fills[f].action, fills[f].qty)
        BY <4>1 DEF Recorded
      <4>3. Recorded[f] \in Entry
        BY <4>1, <4>2 DEF FillRow, Body, Entry
      <4> QED  BY <4>3, NoFormAssumption
    <3> QED  BY <2>1, <3>1 DEF Tells, Ledger!Tell
  <2>2. ASSUME NEW f \in FillId, Forgets(f), UNCHANGED Recorded
        PROVE  Ledger!Forget(f)
    BY <2>2 DEF Forgets, Ledger!Forget
  <2>3. ASSUME NEW f \in FillId, NEW entry \in Entry, Registers(f, entry), UNCHANGED Told
        PROVE  Ledger!Record(f, entry)
    BY <2>3 DEF Registers, Ledger!Record
  <2> QED  BY <2>1, <2>2, <2>3, FormsStep DEF Ledger!Next
<1> QED  BY <1>1, <1>2, FormsInitially, PTL DEF FormsSpec, LedgerKept, Ledger!Spec
=============================================================================
