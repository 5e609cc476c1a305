--------------------------- MODULE PanelRefreshProofs ---------------------------
(* Theorems about the panel of the extension, for any positions of a market and *)
(* any changes, calls and switches of the page.                                  *)
EXTENDS PanelRefresh, FiniteSetTheorems, TLAPS

-----------------------------------------------------------------------------
(* The invariant *)

Ledgers == [version : Nat, closed : BOOLEAN, fills : Nat, order : Nat, key : Nat \cup {None}]

LedgerOK == position \in [Positions -> Ledgers] /\ clock \in Nat /\ epoch \in Nat /\ made \in Nat

\* The positions a row shows, in its list and in its card.
ShownBy(r) == r.matches \cup ({r.selected} \ {None})

\* Figures that were true when they were read.
Figures(S) ==
    S \subseteq Matches /\ \A m \in S : /\ m.id \in Created /\ m.version <= position[m.id].version
                                        /\ m.booked <= m.buys

RowOK(r) ==
    /\ r \in Rows /\ r.asked <= clock /\ Figures(ShownBy(r))
    /\ r.matches # {} => r.ticker /\ r.from = epoch
    /\ r.phase = "none" => r.matches = {} /\ r.selected = None
    /\ r.phase = "single" => r.selected \in r.matches
    /\ r.selected # None => \E m \in r.matches : m.id = r.selected.id
    /\ r.orders.version > 0 => r.orders.epoch = epoch /\ r.selected # None /\ r.orders.of = r.selected.id
    /\ (r.ticker /\ r.phase \in {"none", "single", "ambiguous"} /\ r.asked = clock) => r.matches = AsItIs

\* What a call has read or brings back is figures of the ledger, of now or of earlier.
CallOK(c) ==
    /\ c = [kind |-> c.kind, epoch |-> c.epoch, seq |-> c.seq, of |-> c.of, version |-> c.version,
            heard |-> c.heard, read |-> c.read, answer |-> c.answer]
    /\ c.epoch \in Nat /\ c.epoch <= epoch
    /\ c.kind = "list_orders" => c.of \in Positions /\ (c.answer # None => c.answer.version \in Nat)
    /\ c.kind = "update_order" => c.of.order \in Positions
    /\ c.kind = "list_positions" =>
        /\ c.seq \in Nat
        /\ c.read # None =>
              /\ DOMAIN c.read \subseteq Created
              /\ \A p \in DOMAIN c.read : /\ c.read[p].version \in Nat /\ c.read[p].version <= position[p].version
                                          /\ c.read[p].booked \in Nat /\ c.read[p].booked <= position[p].fills
        /\ c.answer # None => IsFiniteSet(c.answer.found) /\ Figures(c.answer.found)

Snapshot == [p \in Created |-> [version |-> position[p].version, booked |-> position[p].fills]]

\* The call a row waits for covers what the row shows, and is up to date if nothing
\* changed since it was asked for.
Answers(c, r) ==
    /\ r.ticker
    /\ c.read # None => \A m \in ShownBy(r) : m.id \in DOMAIN c.read /\ m.version <= c.read[m.id].version
    /\ c.answer # None => \A m \in ShownBy(r) : \E n \in c.answer.found : n.id = m.id /\ m.version <= n.version
    /\ r.asked = clock => /\ c.read # None => c.read = Snapshot
                          /\ c.answer # None => c.answer.found = AsItIs

\* A call of this event belongs to a row, and of the refreshes of a row none is later than its last.
CallFits(c, r) ==
    c.epoch = epoch =>
        /\ r # None
        /\ c.kind = "list_positions" => c.seq <= r.requestSeq /\ (c.seq = r.requestSeq => Answers(c, r))

SameRefresh(c, d) ==
    c.kind = "list_positions" /\ d.kind = "list_positions" /\ c.epoch = d.epoch /\ c.seq = d.seq

PanelInv ==
    /\ LedgerOK
    /\ row # None => RowOK(row)
    /\ \A c \in calls : CallOK(c) /\ CallFits(c, row)
    /\ \A c, d \in calls : SameRefresh(c, d) => c = d
    /\ OnlyShownOrdersChanged
-----------------------------------------------------------------------------
(* The ledger moves on *)

\* A change elsewhere only adds to what is known of a position.
Grows ==
    /\ LedgerOK' /\ (UNCHANGED ledger \/ clock' > clock)
    /\ \A p \in Positions : position[p].version <= position'[p].version /\ position[p].fills <= position'[p].fills

LEMMA FiguresKept ==
  ASSUME LedgerOK, Grows
  PROVE  /\ Created \subseteq Created'
         /\ \A S : Figures(S) => Figures(S)'
<1>1. \A p \in Positions : /\ position[p].version \in Nat /\ position'[p].version \in Nat
                           /\ position[p].version <= position'[p].version
  BY DEF LedgerOK, Grows, Ledgers
<1>2. Created \subseteq Created'
  BY <1>1 DEF Created
<1>3. ASSUME NEW S, Figures(S), NEW m \in S
      PROVE  m.id \in Created' /\ m.version <= position'[m.id].version
  <2>1. m \in Matches /\ m.id \in Created /\ m.version <= position[m.id].version
    BY <1>3 DEF Figures
  <2>2. m.id \in Positions /\ m.version \in Nat
    BY <2>1 DEF Matches
  <2> QED  BY <1>1, <1>2, <2>1, <2>2
<1> QED  BY <1>2, <1>3 DEF Figures

LEMMA CallKept ==
  ASSUME LedgerOK, Grows, UNCHANGED epoch, NEW c, CallOK(c)
  PROVE  CallOK(c)'
<1>1. \A p \in Positions : /\ position[p].version \in Nat /\ position'[p].version \in Nat
                           /\ position[p].fills \in Nat /\ position'[p].fills \in Nat
                           /\ position[p].version <= position'[p].version /\ position[p].fills <= position'[p].fills
  BY DEF LedgerOK, Grows, Ledgers
<1>2. Created \subseteq Created' /\ Created \subseteq Positions
  BY FiguresKept DEF Created
<1>3. (c.kind = "list_positions" /\ c.answer # None) => Figures(c.answer.found)'
  BY FiguresKept DEF CallOK
<1>4. ASSUME c.kind = "list_positions", c.read # None
      PROVE  /\ DOMAIN c.read \subseteq Created'
             /\ \A p \in DOMAIN c.read : /\ c.read[p].version \in Nat /\ c.read[p].version <= position'[p].version
                                         /\ c.read[p].booked \in Nat /\ c.read[p].booked <= position'[p].fills
  <2>1. /\ DOMAIN c.read \subseteq Created
        /\ \A p \in DOMAIN c.read : /\ c.read[p].version \in Nat /\ c.read[p].version <= position[p].version
                                    /\ c.read[p].booked \in Nat /\ c.read[p].booked <= position[p].fills
    BY <1>4 DEF CallOK
  <2> QED  BY <1>1, <1>2, <2>1
<1> QED  BY <1>3, <1>4 DEF CallOK

LEMMA RowKept ==
  ASSUME LedgerOK, Grows, UNCHANGED epoch, NEW r, RowOK(r)
  PROVE  RowOK(r)'
<1>1. r.asked \in Nat /\ r.asked <= clock /\ clock \in Nat /\ clock' \in Nat
  BY DEF RowOK, Rows, LedgerOK, Grows
<1>2. r.asked <= clock' /\ (r.asked = clock' => clock' = clock /\ UNCHANGED ledger)
  BY <1>1 DEF Grows, ledger
<1>3. UNCHANGED ledger => AsItIs' = AsItIs
  BY DEF AsItIs, Created, ledger
<1>4. Figures(ShownBy(r))'
  BY FiguresKept DEF RowOK
<1> QED  BY <1>2, <1>3, <1>4 DEF RowOK

LEMMA FitsKept ==
  ASSUME LedgerOK, Grows, UNCHANGED epoch, NEW c, NEW r, r # None => RowOK(r), CallFits(c, r)
  PROVE  CallFits(c, r)'
<1>1. CASE r = None
  BY <1>1 DEF CallFits
<1>2. CASE r # None
  <2>1. r.asked \in Nat /\ r.asked <= clock /\ clock \in Nat /\ clock' \in Nat
    BY <1>2 DEF RowOK, Rows, LedgerOK, Grows
  <2>2. r.asked = clock' => clock' = clock /\ UNCHANGED ledger
    BY <2>1 DEF Grows, ledger
  <2>3. UNCHANGED ledger => AsItIs' = AsItIs /\ Snapshot' = Snapshot
    BY DEF AsItIs, Snapshot, Created, ledger
  <2>4. Answers(c, r) => Answers(c, r)'
    BY <2>2, <2>3 DEF Answers
  <2> QED  BY <1>2, <2>4 DEF CallFits
<1> QED  BY <1>1, <1>2

\* Where nothing happens in the ledger.
LEMMA StillGrows ==
  ASSUME LedgerOK, UNCHANGED ledger, epoch' \in Nat, made' \in Nat
  PROVE  Grows
BY DEF LedgerOK, Grows, ledger, Ledgers

LEMMA ChangeGrows ==
  ASSUME LedgerOK, NEW p \in Positions, NEW after \in Ledgers, Change(p, after), UNCHANGED epoch, made' \in Nat,
         position[p].version <= after.version, position[p].fills <= after.fills
  PROVE  Grows
<1>1. position' = [position EXCEPT ![p] = after] /\ clock' = clock + 1
  BY DEF Change
<1>2. /\ position \in [Positions -> Ledgers] /\ clock \in Nat
      /\ \A q \in Positions : position[q].version \in Nat /\ position[q].fills \in Nat
  BY DEF LedgerOK, Ledgers
<1>3. position' \in [Positions -> Ledgers] /\ clock' \in Nat /\ clock' > clock
  BY <1>1, <1>2
<1>4. \A q \in Positions : position[q].version <= position'[q].version /\ position[q].fills <= position'[q].fills
  BY <1>1, <1>2
<1> QED  BY <1>3, <1>4 DEF LedgerOK, Grows
-----------------------------------------------------------------------------
(* A row and the calls of the panel change *)

\* A row that shows no more than it did waits for the same call.
LEMMA SameRow ==
  ASSUME NEW r, NEW s \in Rows, s.requestSeq = r.requestSeq, s.asked = r.asked, r.ticker => s.ticker,
         ShownBy(s) \subseteq ShownBy(r), NEW c, CallFits(c, r)
  PROVE  CallFits(c, s)
<1>1. s # None
  BY PanelAssumption
<1>2. Answers(c, r) => Answers(c, s)
  BY DEF Answers
<1> QED  BY <1>1, <1>2 DEF CallFits

LEMMA RowRecord ==
  ASSUME NEW r \in Rows
  PROVE  r = [ticker |-> r.ticker, phase |-> r.phase, matches |-> r.matches, selected |-> r.selected,
              requestSeq |-> r.requestSeq, asked |-> r.asked, from |-> r.from, creating |-> r.creating,
              confirming |-> r.confirming, orders |-> r.orders]
BY DEF Rows

LEMMA NewRowOK ==
  ASSUME LedgerOK
  PROVE  NewRow \in Rows /\ NewRow # None /\ RowOK(NewRow)
<1>1. NoOrders \in Orders
  BY DEF NoOrders, Orders
<1>2. NewRow \in Rows
  BY <1>1 DEF NewRow, Rows, Phases
<1>3. ShownBy(NewRow) = {}
  BY DEF ShownBy, NewRow
<1>4. Figures(ShownBy(NewRow))
  BY <1>3 DEF Figures
<1>5. 0 <= clock
  BY DEF LedgerOK
<1>6. NoOrders.version = 0
  BY DEF NoOrders
<1>7. RowOK(NewRow)
  BY <1>2, <1>4, <1>5, <1>6 DEF RowOK, NewRow
<1> QED  BY <1>2, <1>7, PanelAssumption

\* A step that leaves the page at its event: what it makes of the row and of the calls has
\* to fit, the ledger may move on at the same time.
LEMMA MoveInv ==
  ASSUME PanelInv, Grows, UNCHANGED epoch, OnlyShownOrdersChanged',
         NEW s, row' = s, s # None => RowOK(s),
         \A c \in calls' : CallOK(c) /\ CallFits(c, s),
         \A c, d \in calls' : SameRefresh(c, d) => c = d
  PROVE  PanelInv'
<1>1. row' # None => RowOK(row)'
  BY RowKept DEF PanelInv
<1>2. ASSUME NEW c \in calls'  PROVE CallOK(c)' /\ CallFits(c, row)'
  <2>1. CallFits(c, s)'
    BY <1>2, FitsKept DEF PanelInv
  <2>2. CallFits(c, row)'
    BY <2>1
  <2> QED  BY <2>2, CallKept DEF PanelInv
<1> QED  BY <1>1, <1>2 DEF PanelInv, Grows, SameRefresh

\* The same where some calls end and one, of another kind or a later refresh, is made.
LEMMA SendInv ==
  ASSUME PanelInv, UNCHANGED <<ledger, epoch, applied>>, made' \in Nat,
         NEW s, row' = s, s # None => RowOK(s),
         NEW d, calls' \subseteq calls \cup {d},
         CallOK(d) /\ CallFits(d, s),
         \A c \in calls : CallFits(c, s) /\ ~SameRefresh(c, d)
  PROVE  PanelInv'
<1>1. Grows
  BY StillGrows DEF PanelInv, LedgerOK
<1>2. OnlyShownOrdersChanged'
  BY DEF PanelInv, OnlyShownOrdersChanged
<1>3. \A c, e \in calls' : SameRefresh(c, e) => c = e
  BY DEF PanelInv, SameRefresh
<1> QED  BY <1>1, <1>2, <1>3, MoveInv DEF PanelInv

LEMMA EndInv ==
  ASSUME PanelInv, UNCHANGED <<ledger, epoch, applied>>, made' \in Nat,
         NEW s, row' = s, s # None => RowOK(s), calls' \subseteq calls, \A c \in calls' : CallFits(c, s)
  PROVE  PanelInv'
<1>1. Grows
  BY StillGrows DEF PanelInv, LedgerOK
<1>2. OnlyShownOrdersChanged'
  BY DEF PanelInv, OnlyShownOrdersChanged
<1> QED  BY <1>1, <1>2, MoveInv DEF PanelInv

\* The server, or the timer, is done with a part of a call.
LEMMA ServeInv ==
  ASSUME PanelInv, Grows, UNCHANGED <<epoch, row>>, OnlyShownOrdersChanged',
         NEW c \in calls, NEW d, calls' \subseteq (calls \ {c}) \cup {d},
         d.kind = c.kind, d.epoch = c.epoch, d.seq = c.seq, CallOK(d), CallFits(d, row)
  PROVE  PanelInv'
<1>1. \A e, f \in calls' : SameRefresh(e, f) => e = f
  BY DEF PanelInv, SameRefresh
<1>2. PICK s : s = row
  OBVIOUS
<1> QED  BY <1>1, <1>2, MoveInv DEF PanelInv
-----------------------------------------------------------------------------
(* The page and the user *)

LEMMA CallShape ==
  ASSUME LedgerOK, NEW kind, NEW seq, NEW of, NEW version,
         kind = "list_positions" => seq \in Nat,
         kind = "list_orders" => of \in Positions,
         kind = "update_order" => of.order \in Positions
  PROVE  CallOK(Call(kind, seq, of, version))
BY DEF CallOK, Call, LedgerOK

\* A row with nothing else changed than what a refresh of it does not depend on.
Edited(r) ==
    /\ row # None /\ r \in Rows /\ (row.ticker => r.ticker)
    /\ r.matches = row.matches /\ r.selected = row.selected /\ r.requestSeq = row.requestSeq
    /\ r.asked = row.asked /\ r.from = row.from /\ r.orders = row.orders /\ r.phase = row.phase

LEMMA EditedFits ==
  ASSUME PanelInv, NEW r, Edited(r)
  PROVE  /\ \A c \in calls : CallFits(c, r)
         /\ (r.ticker => row.ticker) => RowOK(r)
<1>1. ShownBy(r) = ShownBy(row)
  BY DEF Edited, ShownBy
<1>2. \A c \in calls : CallFits(c, r)
  BY <1>1, SameRow DEF PanelInv, Edited
<1>3. RowOK(row)
  BY DEF PanelInv, Edited
<1> QED  BY <1>1, <1>2, <1>3 DEF RowOK, Edited

\* A refresh is later than those before it, and waits for figures that are not read yet.
LEMMA RefreshInv ==
  ASSUME PanelInv, NEW r, NEW in, in \subseteq calls, RefreshPosition(r, in),
         UNCHANGED <<ledger, epoch, applied>>,
         (r = None /\ row = None) \/ Edited(r)
  PROVE  PanelInv'
<1>1. CASE r = None /\ row = None
  <2>1. row' = NewRow /\ calls' = in /\ made' = made
    BY <1>1 DEF RefreshPosition, EnsureRow, NewRow
  <2>2. \A c \in calls : CallFits(c, NewRow)
    BY <1>1 DEF PanelInv, CallFits
  <2>3. made' \in Nat
    BY <2>1 DEF PanelInv, LedgerOK
  <2>4. PICK s : s = NewRow
    OBVIOUS
  <2> QED  BY <2>1, <2>2, <2>3, <2>4, NewRowOK, EndInv DEF PanelInv
<1>2. CASE Edited(r)
  <2>0. r # None /\ EnsureRow(r) = r
    BY <1>2, PanelAssumption DEF Edited, EnsureRow
  <2>1. CASE ~r.ticker
    <3>1. row' = r /\ calls' = in /\ made' = made
      BY <2>0, <2>1 DEF RefreshPosition
    <3>2. RowOK(r) /\ \A c \in calls : CallFits(c, r)
      BY <1>2, <2>1, EditedFits
    <3>3. made' \in Nat
      BY <3>1 DEF PanelInv, LedgerOK
    <3> QED  BY <3>1, <3>2, <3>3, EndInv
  <2>2. CASE r.ticker
    <3>1. PICK s : s = [r EXCEPT !.requestSeq = @ + 1, !.phase = "loading", !.asked = clock]
      OBVIOUS
    <3>2. PICK d : d = Call("list_positions", r.requestSeq + 1, None, 0)
      OBVIOUS
    <3>3. row' = s /\ calls' = in \cup {d} /\ made' = made + 1
      BY <2>0, <2>2, <3>1, <3>2 DEF RefreshPosition, Send
    <3>4. s = [ticker |-> r.ticker, phase |-> "loading", matches |-> r.matches, selected |-> r.selected,
                  requestSeq |-> r.requestSeq + 1, asked |-> clock, from |-> r.from, creating |-> r.creating,
                  confirming |-> r.confirming, orders |-> r.orders]
      <4>1. r = [ticker |-> r.ticker, phase |-> r.phase, matches |-> r.matches, selected |-> r.selected,
                 requestSeq |-> r.requestSeq, asked |-> r.asked, from |-> r.from, creating |-> r.creating,
                 confirming |-> r.confirming, orders |-> r.orders]
        BY <1>2, RowRecord DEF Edited
      <4> QED  BY <3>1, <4>1
    <3>5. s \in Rows
      BY <1>2, <3>4 DEF Edited, Rows, Phases, PanelInv, LedgerOK
    <3>6. RowOK(row) /\ ShownBy(s) = ShownBy(row)
      BY <1>2, <3>4 DEF PanelInv, Edited, ShownBy
    <3>7. RowOK(s)
      <4>1. clock <= clock
        BY DEF PanelInv, LedgerOK
      <4> QED  BY <1>2, <3>4, <3>5, <3>6, <4>1 DEF RowOK, Edited
    <3>8. r.requestSeq \in Nat /\ r.requestSeq = row.requestSeq /\ s.requestSeq = r.requestSeq + 1
      BY <1>2, <3>4 DEF Edited, Rows
    <3>9. s # None
      BY <3>5, PanelAssumption
    <3>10. ASSUME NEW c \in calls  PROVE CallFits(c, s) /\ ~SameRefresh(c, d)
      <4>1. CallOK(c) /\ CallFits(c, row)
        BY DEF PanelInv
      <4>2. (c.kind = "list_positions" /\ c.epoch = epoch) => c.seq \in Nat /\ c.seq < r.requestSeq + 1
        BY <3>8, <4>1 DEF CallOK, CallFits
      <4>3. (c.kind = "list_positions" /\ c.epoch = epoch) => c.seq # r.requestSeq + 1 /\ c.seq <= r.requestSeq + 1
        BY <3>8, <4>2
      <4>4. CallFits(c, s)
        BY <3>8, <3>9, <4>3 DEF CallFits
      <4> QED  BY <3>2, <4>3, <4>4 DEF SameRefresh, Call
    <3>11. CallOK(d)
      BY <3>2, <3>8, CallShape DEF PanelInv
    <3>12. CallFits(d, s)
      <4>1. d.seq = r.requestSeq + 1 /\ d.read = None /\ d.answer = None
        BY <3>2 DEF Call
      <4> QED  BY <2>2, <3>4, <3>8, <3>9, <4>1 DEF CallFits, Answers
    <3>13. made' \in Nat
      BY <3>3 DEF PanelInv, LedgerOK
    <3> QED  BY <3>3, <3>7, <3>10, <3>11, <3>12, <3>13, SendInv
  <2> QED  BY <2>1, <2>2
<1> QED  BY <1>1, <1>2

\* The list of the orders is asked for, the row only notes that it waits.
LEMMA RefreshOrdersInv ==
  ASSUME PanelInv, NEW r, NEW in, in \subseteq calls, RefreshOrders(r, in),
         UNCHANGED <<ledger, epoch, applied>>,
         (r = None /\ row = None) \/ (Edited(r) /\ RowOK(r))
  PROVE  PanelInv'
<1>0. \A c \in calls : CallFits(c, r)
  BY EditedFits DEF PanelInv
<1>1. CASE EnsureRow(r).selected = None
  <2>1. row' = r /\ calls' = in /\ made' = made
    BY <1>1 DEF RefreshOrders
  <2>2. made' \in Nat
    BY <2>1 DEF PanelInv, LedgerOK
  <2> QED  BY <1>0, <2>1, <2>2, EndInv
<1>2. CASE EnsureRow(r).selected # None
  <2>0. r # None /\ r.selected # None
    BY <1>2 DEF EnsureRow, NewRow
  <2>1. RowOK(r) /\ r \in Rows /\ r.selected.id \in Positions /\ r.orders \in Orders
    BY <2>0 DEF RowOK, Rows, Matches
  <2>2. PICK o : o = [r.orders EXCEPT !.loading = TRUE]
    OBVIOUS
  <2>3. o \in Orders /\ o.version = r.orders.version /\ o.epoch = r.orders.epoch /\ o.of = r.orders.of
    BY <2>1, <2>2 DEF Orders
  <2>4. PICK s : s = [r EXCEPT !.orders = o]
    OBVIOUS
  <2>5. PICK d : d = Call("list_orders", made, r.selected.id, 0)
    OBVIOUS
  <2>6. row' = s /\ calls' = in \cup {d} /\ made' = made + 1
    BY <1>2, <2>2, <2>4, <2>5 DEF RefreshOrders, Send
  <2>7. s = [ticker |-> r.ticker, phase |-> r.phase, matches |-> r.matches, selected |-> r.selected,
             requestSeq |-> r.requestSeq, asked |-> r.asked, from |-> r.from, creating |-> r.creating,
             confirming |-> r.confirming, orders |-> o]
    <3>1. r = [ticker |-> r.ticker, phase |-> r.phase, matches |-> r.matches, selected |-> r.selected,
               requestSeq |-> r.requestSeq, asked |-> r.asked, from |-> r.from, creating |-> r.creating,
               confirming |-> r.confirming, orders |-> r.orders]
      BY <2>1, RowRecord
    <3> QED  BY <2>4, <3>1
  <2>8. s \in Rows
    BY <2>1, <2>3, <2>7 DEF Rows
  <2>9. ShownBy(s) = ShownBy(r)
    BY <2>7 DEF ShownBy
  <2>10. RowOK(s)
    BY <2>1, <2>3, <2>7, <2>8, <2>9 DEF RowOK
  <2>11. \A c \in calls : CallFits(c, s)
    BY <1>0, <2>7, <2>8, <2>9, SameRow
  <2>12. CallOK(d) /\ d.kind = "list_orders"
    BY <2>1, <2>5, CallShape DEF PanelInv, Call
  <2>13. CallFits(d, s)
    BY <2>8, <2>12, PanelAssumption DEF CallFits
  <2>14. made' \in Nat
    BY <2>6 DEF PanelInv, LedgerOK
  <2>15. \A c \in calls : ~SameRefresh(c, d)
    BY <2>12 DEF SameRefresh
  <2> QED  BY <2>6, <2>10, <2>11, <2>12, <2>13, <2>14, <2>15, SendInv
<1> QED  BY <1>1, <1>2

\* Other calls say nothing of a refresh.
LEMMA OtherCallInv ==
  ASSUME PanelInv, NEW s, row' = s, Edited(s), RowOK(s),
         NEW kind, kind \notin {"list_positions", "list_orders"}, NEW of, NEW version,
         kind = "update_order" => of.order \in Positions,
         Send(Call(kind, 0, of, version), calls), UNCHANGED <<ledger, epoch, applied>>
  PROVE  PanelInv'
<1>1. PICK d : d = Call(kind, 0, of, version)
  OBVIOUS
<1>2. calls' = calls \cup {d} /\ made' = made + 1
  BY <1>1 DEF Send
<1>3. CallOK(d) /\ d.kind = kind
  BY <1>1, CallShape DEF PanelInv, Call
<1>4. s # None
  BY PanelAssumption DEF Edited
<1>5. CallFits(d, s) /\ \A c \in calls : CallFits(c, s) /\ ~SameRefresh(c, d)
  BY <1>3, <1>4, EditedFits DEF CallFits, SameRefresh
<1>6. made' \in Nat
  BY <1>2 DEF PanelInv, LedgerOK
<1> QED  BY <1>2, <1>3, <1>5, <1>6, SendInv

\* The flags of the forms are not about what is shown.
LEMMA FlagOK ==
  ASSUME PanelInv, row # None, NEW s, NEW flag \in BOOLEAN,
         s = [row EXCEPT !.creating = flag] \/ s = [row EXCEPT !.confirming = flag]
  PROVE  Edited(s) /\ RowOK(s)
<1>1. row \in Rows
  BY DEF PanelInv, RowOK
<1>2. row = [ticker |-> row.ticker, phase |-> row.phase, matches |-> row.matches, selected |-> row.selected,
             requestSeq |-> row.requestSeq, asked |-> row.asked, from |-> row.from, creating |-> row.creating,
             confirming |-> row.confirming, orders |-> row.orders]
  BY <1>1, RowRecord
<1>3. \E creating, confirming \in BOOLEAN :
        s = [ticker |-> row.ticker, phase |-> row.phase, matches |-> row.matches, selected |-> row.selected,
             requestSeq |-> row.requestSeq, asked |-> row.asked, from |-> row.from, creating |-> creating,
             confirming |-> confirming, orders |-> row.orders]
  <2>1. row.creating \in BOOLEAN /\ row.confirming \in BOOLEAN
    BY <1>1 DEF Rows
  <2>2. CASE s = [row EXCEPT !.creating = flag]
    BY <1>2, <2>1, <2>2
  <2>3. CASE s = [row EXCEPT !.confirming = flag]
    BY <1>2, <2>1, <2>3
  <2> QED  BY <2>2, <2>3
<1>4. Edited(s) /\ s.ticker = row.ticker
  BY <1>1, <1>3 DEF Edited, Rows
<1> QED  BY <1>4, EditedFits

LEMMA Itself ==
  ASSUME PanelInv, row # None
  PROVE  Edited(row) /\ RowOK(row)
BY DEF PanelInv, Edited, RowOK

LEMMA SwitchInv ==
  ASSUME PanelInv, Switch
  PROVE  PanelInv'
<1>1. /\ epoch' = epoch + 1 /\ row' = None /\ calls' = calls
      /\ position' = position /\ clock' = clock /\ made' = made /\ applied' = applied
  BY DEF Switch, ledger
<1>2. epoch \in Nat /\ epoch' \in Nat
  BY <1>1 DEF PanelInv, LedgerOK
<1>3. ASSUME NEW c \in calls  PROVE CallOK(c)' /\ c.epoch # epoch'
  <2>1. CallOK(c)
    BY DEF PanelInv
  <2>2. c.epoch \in Nat /\ c.epoch <= epoch' /\ c.epoch # epoch'
    BY <1>1, <1>2, <2>1 DEF CallOK
  <2>3. Created' = Created /\ \A S : Figures(S)' = Figures(S)
    BY <1>1 DEF Created, Figures
  <2> QED  BY <1>1, <2>1, <2>2, <2>3 DEF CallOK
<1>4. \A c \in calls' : CallOK(c)' /\ CallFits(c, row)'
  BY <1>1, <1>3 DEF CallFits
<1> QED  BY <1>1, <1>2, <1>4 DEF PanelInv, LedgerOK, OnlyShownOrdersChanged, SameRefresh

LEMMA QuoteInv ==
  ASSUME PanelInv, Quote
  PROVE  PanelInv'
<1>1. /\ row' = EnsureRow(row) /\ Send(Call("analyze", 0, None, 0), calls)
      /\ UNCHANGED <<ledger, epoch, applied>>
  BY DEF Quote
<1>2. CASE row # None
  BY <1>1, <1>2, Itself, OtherCallInv DEF EnsureRow
<1>3. CASE row = None
  <2>1. PICK s : s = NewRow
    OBVIOUS
  <2>2. PICK d : d = Call("analyze", 0, None, 0)
    OBVIOUS
  <2>3. row' = s /\ RowOK(s) /\ s # None
    BY <1>1, <1>3, <2>1, NewRowOK DEF EnsureRow, PanelInv
  <2>4. calls' = calls \cup {d} /\ made' \in Nat
    BY <1>1, <2>2 DEF Send, PanelInv, LedgerOK
  <2>5. CallOK(d) /\ d.kind = "analyze"
    BY <2>2, CallShape DEF PanelInv, Call
  <2>6. CallFits(d, s) /\ \A c \in calls : CallFits(c, s) /\ ~SameRefresh(c, d)
    BY <1>3, <2>3, <2>5 DEF CallFits, SameRefresh, PanelInv
  <2> QED  BY <1>1, <2>3, <2>4, <2>5, <2>6, SendInv
<1> QED  BY <1>2, <1>3

LEMMA ClickInv ==
  ASSUME PanelInv, ClickRefresh \/ ShowOrders \/ ConfirmCreate \/ ConfirmStatus
  PROVE  PanelInv'
<1>1. row # None
  BY DEF ClickRefresh, ShowOrders, ConfirmCreate, ConfirmStatus, CardShown
<1>2. CASE ClickRefresh
  BY <1>1, <1>2, Itself, RefreshInv DEF ClickRefresh
<1>3. CASE ShowOrders
  BY <1>1, <1>3, Itself, RefreshOrdersInv DEF ShowOrders
<1>4. CASE ConfirmCreate
  <2>1. PICK s : s = [row EXCEPT !.creating = TRUE]
    OBVIOUS
  <2>2. Edited(s) /\ RowOK(s)
    BY <1>1, <2>1, FlagOK
  <2> QED  BY <1>4, <2>1, <2>2, OtherCallInv DEF ConfirmCreate
<1>5. CASE ConfirmStatus
  <2>1. PICK s : s = [row EXCEPT !.confirming = TRUE]
    OBVIOUS
  <2>2. Edited(s) /\ RowOK(s)
    BY <1>1, <2>1, FlagOK
  <2>3. PICK of : of = [card |-> row.selected.id, order |-> row.orders.of]
    OBVIOUS
  <2>4. of.order \in Positions
    <3>1. row.orders.version > 0 /\ RowOK(row)
      BY <1>1, <1>5 DEF ConfirmStatus, PanelInv
    <3>2. row.orders.of = row.selected.id /\ row.selected \in Matches
      BY <3>1 DEF RowOK, Rows
    <3> QED  BY <2>3, <3>2 DEF Matches
  <2> QED  BY <1>5, <2>1, <2>2, <2>3, <2>4, OtherCallInv DEF ConfirmStatus
<1> QED  BY <1>2, <1>3, <1>4, <1>5

\* What is selected was shown before.
LEMMA SelectInv ==
  ASSUME PanelInv, SelectAmbiguousPosition
  PROVE  PanelInv'
<1>1. PICK m \in row.matches : row' = [row EXCEPT !.selected = m, !.orders = NoOrders]
  BY DEF SelectAmbiguousPosition
<1>2. row # None /\ row.phase = "ambiguous" /\ UNCHANGED <<ledger, epoch, calls, made, applied>>
  BY DEF SelectAmbiguousPosition
<1>3. RowOK(row) /\ row \in Rows
  BY <1>2 DEF PanelInv, RowOK
<1>4. PICK s : s = [row EXCEPT !.selected = m, !.orders = NoOrders]
  OBVIOUS
<1>5. s = [ticker |-> row.ticker, phase |-> row.phase, matches |-> row.matches, selected |-> m,
           requestSeq |-> row.requestSeq, asked |-> row.asked, from |-> row.from, creating |-> row.creating,
           confirming |-> row.confirming, orders |-> NoOrders]
  <2>1. row = [ticker |-> row.ticker, phase |-> row.phase, matches |-> row.matches, selected |-> row.selected,
               requestSeq |-> row.requestSeq, asked |-> row.asked, from |-> row.from, creating |-> row.creating,
               confirming |-> row.confirming, orders |-> row.orders]
    BY <1>3, RowRecord
  <2> QED  BY <1>4, <2>1
<1>6. NoOrders \in Orders /\ NoOrders.version = 0
  BY DEF NoOrders, Orders
<1>7. m \in Matches
  BY <1>3 DEF Rows
<1>8. s \in Rows
  BY <1>3, <1>5, <1>6, <1>7 DEF Rows
<1>9. ShownBy(s) \subseteq ShownBy(row)
  BY <1>5 DEF ShownBy
<1>10. Figures(ShownBy(s))
  BY <1>3, <1>9 DEF RowOK, Figures
<1>11. RowOK(s)
  BY <1>2, <1>3, <1>5, <1>6, <1>8, <1>10 DEF RowOK
<1>12. \A c \in calls : CallFits(c, s)
  BY <1>5, <1>8, <1>9, SameRow DEF PanelInv
<1>13. made' \in Nat
  BY <1>2 DEF PanelInv, LedgerOK
<1> QED  BY <1>1, <1>2, <1>4, <1>11, <1>12, <1>13, EndInv
-----------------------------------------------------------------------------
(* The ledger, changed by others, and the server *)

LEMMA ElsewhereInv ==
  ASSUME PanelInv, NEW p \in Positions, Elsewhere(p)
  PROVE  PanelInv'
<1> DEFINE now == position[p]
<1>1. /\ now \in Ledgers
      /\ now = [version |-> now.version, closed |-> now.closed, fills |-> now.fills, order |-> now.order, key |-> now.key]
  BY DEF PanelInv, LedgerOK, Ledgers
<1>2. UNCHANGED <<epoch, row, calls, made, applied>>
  BY DEF Elsewhere
<1>3. PICK after \in Ledgers : /\ Change(p, after) /\ now.version <= after.version /\ now.fills <= after.fills
  <2>1. CASE p \notin Created /\ Change(p, [now EXCEPT !.version = 1])
    <3>1. now.version <= 1
      BY <1>1, <2>1 DEF Created, Ledgers
    <3>2. [now EXCEPT !.version = 1] = [version |-> 1, closed |-> now.closed, fills |-> now.fills, order |-> now.order, key |-> now.key]
      BY <1>1
    <3> HIDE DEF now
    <3> QED  BY <1>1, <2>1, <3>1, <3>2 DEF Ledgers
  <2>2. CASE Change(p, [now EXCEPT !.order = 1])
    <3>2. [now EXCEPT !.order = 1] = [version |-> now.version, closed |-> now.closed, fills |-> now.fills, order |-> 1, key |-> now.key]
      BY <1>1
    <3> HIDE DEF now
    <3> QED  BY <1>1, <2>2, <3>2 DEF Ledgers
  <2>3. ASSUME NEW closed \in BOOLEAN,
               Change(p, [now EXCEPT !.version = @ + 1, !.fills = @ + 1, !.order = @ + 1, !.closed = closed])
        PROVE  \E after \in Ledgers : Change(p, after) /\ now.version <= after.version /\ now.fills <= after.fills
    <3>2. [now EXCEPT !.version = @ + 1, !.fills = @ + 1, !.order = @ + 1, !.closed = closed]
          = [version |-> now.version + 1, closed |-> closed, fills |-> now.fills + 1, order |-> now.order + 1, key |-> now.key]
      <4>1. PICK version, fills, order : version = now.version + 1 /\ fills = now.fills + 1 /\ order = now.order + 1
        OBVIOUS
      <4>2. PICK a : a = [now EXCEPT !.version = version]
        OBVIOUS
      <4>3. PICK b : b = [a EXCEPT !.fills = fills]
        OBVIOUS
      <4>4. PICK d : d = [b EXCEPT !.order = order]
        OBVIOUS
      <4>5. a = [version |-> version, closed |-> now.closed, fills |-> now.fills, order |-> now.order, key |-> now.key]
        BY <1>1, <4>2
      <4>6. b = [version |-> version, closed |-> now.closed, fills |-> fills, order |-> now.order, key |-> now.key]
        BY <4>3, <4>5
      <4>7. d = [version |-> version, closed |-> now.closed, fills |-> fills, order |-> order, key |-> now.key]
        BY <4>4, <4>6
      <4>8. [d EXCEPT !.closed = closed] = [version |-> version, closed |-> closed, fills |-> fills, order |-> order, key |-> now.key]
        BY <4>7
      <4>9. [now EXCEPT !.version = version, !.fills = fills, !.order = order, !.closed = closed] = [d EXCEPT !.closed = closed]
        BY <4>2, <4>3, <4>4
      <4> HIDE DEF now
      <4> QED  BY <4>1, <4>8, <4>9
    <3> HIDE DEF now
    <3> QED  BY <1>1, <2>3, <3>2 DEF Ledgers
  <2> HIDE DEF now
  <2> QED  BY <2>1, <2>2, <2>3 DEF Elsewhere, now
<1>4. Grows
  BY <1>2, <1>3, ChangeGrows DEF PanelInv, LedgerOK
<1>5. PICK s : s = row
  OBVIOUS
<1> QED  BY <1>2, <1>4, <1>5, MoveInv DEF PanelInv, OnlyShownOrdersChanged

LEMMA CallRecord ==
  ASSUME NEW c, CallOK(c)
  PROVE  c = [kind |-> c.kind, epoch |-> c.epoch, seq |-> c.seq, of |-> c.of, version |-> c.version,
              heard |-> c.heard, read |-> c.read, answer |-> c.answer]
BY DEF CallOK

LEMMA ServedCalls ==
  ASSUME NEW c, NEW d, Served(c, d)
  PROVE  calls' \subseteq (calls \ {c}) \cup {d}
BY DEF Served

\* The first read finds every position there is.
LEMMA ReadInv ==
  ASSUME PanelInv, NEW c \in calls, c.kind = "list_positions", c.read = None, c.answer = None,
         Served(c, [c EXCEPT !.read = [p \in Listed |-> [version |-> position[p].version, booked |-> position[p].fills]]]),
         UNCHANGED <<ledger, epoch, row, made, applied>>
  PROVE  PanelInv'
<1>1. CallOK(c) /\ CallFits(c, row)
  BY DEF PanelInv
<1>2. PICK read : read = Snapshot
  OBVIOUS
<1>3. DOMAIN read = Created /\ \A p \in Created : read[p] = [version |-> position[p].version, booked |-> position[p].fills]
  BY <1>2 DEF Snapshot
<1>4. PICK d : d = [c EXCEPT !.read = read]
  OBVIOUS
<1>5. d = [kind |-> c.kind, epoch |-> c.epoch, seq |-> c.seq, of |-> c.of, version |-> c.version,
           heard |-> c.heard, read |-> read, answer |-> c.answer]
  BY <1>1, <1>4, CallRecord
<1>6. \A p \in Positions : position[p].version \in Nat /\ position[p].fills \in Nat
  BY DEF PanelInv, LedgerOK, Ledgers
<1>7. \A p \in Created : /\ read[p].version \in Nat /\ read[p].version <= position[p].version
                         /\ read[p].booked \in Nat /\ read[p].booked <= position[p].fills
  <2>1. \A n \in Nat : n <= n
    OBVIOUS
  <2>2. Created \subseteq Positions
    BY DEF Created
  <2> QED  BY <1>3, <1>6, <2>1, <2>2
<1>8. CallOK(d)
  BY <1>1, <1>3, <1>5, <1>7 DEF CallOK
<1>9. CallFits(d, row)
  <2> SUFFICES ASSUME c.epoch = epoch, c.seq = row.requestSeq, row # None  PROVE Answers(d, row)
    BY <1>1, <1>5 DEF CallFits
  <2>1. row.ticker
    BY <1>1 DEF CallFits, Answers
  <2>2. \A m \in ShownBy(row) : m.id \in Created /\ m.version <= position[m.id].version
    BY DEF PanelInv, RowOK, Figures
  <2>3. \A m \in ShownBy(row) : m.id \in DOMAIN read /\ m.version <= read[m.id].version
    BY <1>3, <2>2
  <2> QED  BY <1>2, <1>5, <2>1, <2>3 DEF Answers
<1>10. calls' \subseteq (calls \ {c}) \cup {d}
  BY <1>2, <1>4, ServedCalls DEF Listed, Snapshot
<1>11. Grows
  BY StillGrows DEF PanelInv, LedgerOK
<1> QED  BY <1>5, <1>8, <1>9, <1>10, <1>11, ServeInv DEF PanelInv, OnlyShownOrdersChanged

\* The second read adds the fills there are by now.
LEMMA ResponseOK ==
  ASSUME PanelInv, NEW c \in calls, c.kind = "list_positions", c.read # None
  PROVE  /\ IsFiniteSet(Response(c.read)) /\ Figures(Response(c.read))
         /\ \A p \in DOMAIN c.read : \E n \in Response(c.read) : n.id = p /\ n.version = c.read[p].version
<1>1. /\ DOMAIN c.read \subseteq Created
      /\ \A p \in DOMAIN c.read : /\ c.read[p].version \in Nat /\ c.read[p].version <= position[p].version
                                  /\ c.read[p].booked \in Nat /\ c.read[p].booked <= position[p].fills
  BY DEF PanelInv, CallOK
<1> DEFINE f == [p \in DOMAIN c.read |-> [id |-> p, version |-> c.read[p].version, booked |-> c.read[p].booked,
                                          buys |-> position[p].fills]]
           R == Response(c.read)
<1>2. R = {f[p] : p \in DOMAIN c.read}
  BY DEF Response
<1>3. \A p \in DOMAIN c.read : /\ f[p].id = p /\ f[p].version = c.read[p].version
                               /\ f[p].booked = c.read[p].booked /\ f[p].buys = position[p].fills
  OBVIOUS
<1>4. \A p \in DOMAIN c.read : f[p] \in Matches
  BY <1>1 DEF Matches, PanelInv, LedgerOK, Ledgers, Created
<1>5. f \in Surjection(DOMAIN c.read, R)
  <2>1. f \in [DOMAIN c.read -> R]
    BY <1>2
  <2> HIDE DEF f, R
  <2> QED  BY <1>2, <2>1 DEF Surjection
<1>6. DOMAIN c.read \in SUBSET Positions
  BY <1>1 DEF Created
<1>7. IsFiniteSet(R)
  <2>1. IsFiniteSet(DOMAIN c.read)
    BY <1>6, PanelAssumption, FS_Subset
  <2> HIDE DEF f, R
  <2> QED  BY <1>5, <2>1, FS_Surjection
<1> HIDE DEF f
<1>8. Figures(R)
  <2> HIDE DEF R
  <2> QED  BY <1>1, <1>2, <1>3, <1>4 DEF Figures
<1>9. \A p \in DOMAIN c.read : \E n \in R : n.id = p /\ n.version = c.read[p].version
  <2> HIDE DEF R
  <2> QED  BY <1>2, <1>3
<1> QED  BY <1>7, <1>8, <1>9

LEMMA RespondInv ==
  ASSUME PanelInv, NEW c \in calls, c.kind = "list_positions", c.read # None, c.answer = None,
         Served(c, [c EXCEPT !.answer = [found |-> Response(c.read)], !.read = None]),
         UNCHANGED <<ledger, epoch, row, made, applied>>
  PROVE  PanelInv'
<1>1. CallOK(c) /\ CallFits(c, row)
  BY DEF PanelInv
<1>2. PICK found : found = Response(c.read)
  OBVIOUS
<1>3. /\ IsFiniteSet(found) /\ Figures(found)
      /\ \A p \in DOMAIN c.read : \E n \in found : n.id = p /\ n.version = c.read[p].version
  BY <1>2, ResponseOK
<1>4. PICK d : d = [c EXCEPT !.answer = [found |-> found], !.read = None]
  OBVIOUS
<1>5. d = [kind |-> c.kind, epoch |-> c.epoch, seq |-> c.seq, of |-> c.of, version |-> c.version,
           heard |-> c.heard, read |-> None, answer |-> [found |-> found]]
  <2>1. PICK e : e = [c EXCEPT !.answer = [found |-> found]]
    OBVIOUS
  <2>2. e = [kind |-> c.kind, epoch |-> c.epoch, seq |-> c.seq, of |-> c.of, version |-> c.version,
             heard |-> c.heard, read |-> c.read, answer |-> [found |-> found]]
    BY <1>1, <2>1, CallRecord
  <2>3. d = [e EXCEPT !.read = None]
    BY <1>4, <2>1
  <2> QED  BY <2>2, <2>3
<1>6. CallOK(d)
  BY <1>1, <1>3, <1>5 DEF CallOK
<1>7. CallFits(d, row)
  <2> SUFFICES ASSUME c.epoch = epoch, c.seq = row.requestSeq, row # None  PROVE Answers(d, row)
    BY <1>1, <1>5 DEF CallFits
  <2>1. Answers(c, row)
    BY <1>1 DEF CallFits
  <2>2. \A m \in ShownBy(row) : \E n \in found : n.id = m.id /\ m.version <= n.version
    BY <1>3, <2>1 DEF Answers
  <2>3. row.asked = clock => found = AsItIs
    <3> SUFFICES ASSUME c.read = Snapshot  PROVE found = AsItIs
      BY <2>1 DEF Answers
    <3>1. DOMAIN c.read = Created /\ \A p \in Created : /\ c.read[p].version = position[p].version
                                                        /\ c.read[p].booked = position[p].fills
      BY DEF Snapshot
    <3> QED  BY <1>2, <3>1 DEF Response, AsItIs
  <2> QED  BY <1>5, <2>1, <2>2, <2>3 DEF Answers
<1>8. calls' \subseteq (calls \ {c}) \cup {d}
  BY <1>2, <1>4, ServedCalls
<1>9. Grows
  BY StillGrows DEF PanelInv, LedgerOK
<1> QED  BY <1>5, <1>6, <1>7, <1>8, <1>9, ServeInv DEF PanelInv, OnlyShownOrdersChanged

\* A call of another kind that is answered.
LEMMA OtherAnswered ==
  ASSUME PanelInv, Grows, UNCHANGED <<epoch, row>>, OnlyShownOrdersChanged',
         NEW c \in calls, c.kind # "list_positions", NEW answer,
         c.kind = "list_orders" => answer.version \in Nat,
         Served(c, [c EXCEPT !.answer = answer])
  PROVE  PanelInv'
<1>1. CallOK(c) /\ CallFits(c, row)
  BY DEF PanelInv
<1>2. PICK d : d = [c EXCEPT !.answer = answer]
  OBVIOUS
<1>3. d = [kind |-> c.kind, epoch |-> c.epoch, seq |-> c.seq, of |-> c.of, version |-> c.version,
           heard |-> c.heard, read |-> c.read, answer |-> answer]
  BY <1>1, <1>2, CallRecord
<1>4. CallOK(d) /\ CallFits(d, row)
  BY <1>1, <1>3 DEF CallOK, CallFits
<1>5. calls' \subseteq (calls \ {c}) \cup {d}
  BY <1>2, ServedCalls
<1>6. d.kind = c.kind /\ d.epoch = c.epoch /\ d.seq = c.seq
  BY <1>3
<1> QED  BY <1>4, <1>5, <1>6, ServeInv

LEMMA ServerInv ==
  ASSUME PanelInv, NEW c \in calls, Serve(c)
  PROVE  PanelInv'
<1>0. UNCHANGED <<ledger, epoch, made>> => Grows
  BY StillGrows DEF PanelInv, LedgerOK
<1>1. CASE ListPositions(c)
  BY <1>1, ReadInv, RespondInv DEF ListPositions
<1>2. CASE ListOrders(c)
  <2>1. position[c.of].order \in Nat
    BY <1>2 DEF ListOrders, PanelInv, CallOK, LedgerOK, Ledgers
  <2>2. PICK answer : answer = [version |-> position[c.of].order]
    OBVIOUS
  <2> QED  BY <1>0, <1>2, <2>1, <2>2, OtherAnswered DEF ListOrders, PanelInv, OnlyShownOrdersChanged
<1>3. CASE CreatePosition(c)
  <2>1. UNCHANGED <<epoch, row, made, applied>> /\ Served(c, [c EXCEPT !.answer = "ok"]) /\ c.kind = "create_position"
    BY <1>3 DEF CreatePosition
  <2>2. CASE \E p \in Positions \ Created : Change(p, [position[p] EXCEPT !.version = 1, !.key = c.epoch])
    <3>1. PICK p \in Positions \ Created : Change(p, [position[p] EXCEPT !.version = 1, !.key = c.epoch])
      BY <2>2
    <3>2. position[p] \in Ledgers /\ c.epoch \in Nat
      BY DEF PanelInv, LedgerOK, CallOK
    <3>3. PICK after : after = [position[p] EXCEPT !.version = 1, !.key = c.epoch]
      OBVIOUS
    <3>4. after \in Ledgers /\ after.version = 1 /\ after.fills = position[p].fills
      BY <3>2, <3>3 DEF Ledgers
    <3>5. position[p].version <= after.version /\ position[p].fills <= after.fills
      BY <3>2, <3>4 DEF Created, Ledgers
    <3>6. Grows
      BY <2>1, <3>1, <3>3, <3>4, <3>5, ChangeGrows DEF PanelInv, LedgerOK
    <3> QED  BY <2>1, <3>6, OtherAnswered DEF PanelInv, OnlyShownOrdersChanged
  <2>3. CASE UNCHANGED ledger
    BY <1>0, <2>1, <2>3, OtherAnswered DEF PanelInv, OnlyShownOrdersChanged
  <2> QED  BY <1>3, <2>2, <2>3 DEF CreatePosition
<1>4. CASE UpdateOrder(c)
  <2>1. UNCHANGED <<epoch, row, made>> /\ c.kind = "update_order"
    BY <1>4 DEF UpdateOrder
  <2>2. CASE Accepted(c)
    <3> DEFINE p == c.of.order
    <3>1. p \in Positions /\ position[p] \in Ledgers
      BY <2>1 DEF PanelInv, CallOK, LedgerOK
    <3>2. PICK after : after = [position[p] EXCEPT !.order = @ + 1]
      OBVIOUS
    <3>3. after \in Ledgers /\ after.version = position[p].version /\ after.fills = position[p].fills
      BY <3>1, <3>2 DEF Ledgers
    <3>4. position[p].version <= after.version /\ position[p].fills <= after.fills
      BY <3>1, <3>3 DEF Ledgers
    <3>5. /\ Change(p, after) /\ Served(c, [c EXCEPT !.answer = "ok"])
          /\ applied' = [card |-> c.of.card, listed |-> c.version, hit |-> c.of.order, was |-> position[c.of.order].order]
      BY <1>4, <2>2, <3>2 DEF UpdateOrder
    <3>6. Grows
      BY <2>1, <3>1, <3>3, <3>4, <3>5, ChangeGrows DEF PanelInv, LedgerOK
    <3>7. OnlyShownOrdersChanged'
      BY <2>2, <3>5 DEF OnlyShownOrdersChanged, Accepted
    <3> QED  BY <2>1, <3>5, <3>6, <3>7, OtherAnswered
  <2>3. CASE ~Accepted(c)
    BY <1>0, <1>4, <2>1, <2>3, OtherAnswered DEF UpdateOrder, PanelInv, OnlyShownOrdersChanged
  <2> QED  BY <2>2, <2>3
<1> QED  BY <1>1, <1>2, <1>3, <1>4 DEF Serve
-----------------------------------------------------------------------------
(* Answers and timers *)

\* Of a row nobody sees any more, or of another page, an answer changes nothing.
LEMMA FewerCalls ==
  ASSUME PanelInv, calls' \subseteq calls, UNCHANGED <<ledger, epoch, row, made, applied>>
  PROVE  PanelInv'
<1>1. PICK s : s = row
  OBVIOUS
<1>2. made' \in Nat
  BY DEF PanelInv, LedgerOK
<1> QED  BY <1>1, <1>2, EndInv DEF PanelInv

\* What is selected afterwards is the position that was selected, in its newest figures if
\* it is the only one.
LEMMA SelectedOK ==
  ASSUME PanelInv, NEW c \in calls, c.kind = "list_positions", c.answer # None, Current(c), c.epoch = epoch
  PROVE  LET found == c.answer.found
             sel == Selected(row, found) IN
         /\ sel # None => sel \in Matches /\ (sel \in found \/ sel = row.selected) /\ \E n \in found : n.id = sel.id
         /\ found = {} => sel = None
         /\ Cardinality(found) = 1 => sel \in found
         /\ row.selected # None => /\ sel # None /\ sel.id = row.selected.id /\ row.selected.version <= sel.version
<1> DEFINE found == c.answer.found
           sel == Selected(row, found)
<1>1. row # None /\ RowOK(row) /\ row \in Rows /\ CallOK(c) /\ Answers(c, row)
  BY DEF PanelInv, RowOK, Current, Now, CallFits
<1>2. IsFiniteSet(found) /\ found \subseteq Matches
  BY <1>1 DEF CallOK, Figures
<1>3. row.selected # None => \E n \in found : n.id = row.selected.id /\ row.selected.version <= n.version
  BY <1>1 DEF Answers, ShownBy
<1>4. \A n \in found : n # None /\ n.version \in Nat
  BY <1>2, PanelAssumption DEF Matches
<1>5. row.selected # None => row.selected \in Matches /\ row.selected.version <= row.selected.version
  BY <1>1 DEF Rows, Matches
<1> HIDE DEF found
<1>6. CASE found = {}
  <2>1. sel = None
    BY <1>6 DEF Selected
  <2>2. Cardinality(found) # 1
    BY <1>6, FS_EmptySet
  <2> QED  BY <1>3, <1>6, <2>1, <2>2 DEF found
<1>7. CASE found # {} /\ Cardinality(found) = 1
  <2>1. PICK m : found = {m}
    BY <1>2, <1>7, FS_Singleton
  <2>2. sel = m
    BY <1>7, <2>1 DEF Selected
  <2> QED  BY <1>2, <1>3, <1>4, <2>1, <2>2 DEF found
<1>8. CASE found # {} /\ Cardinality(found) # 1
  <2>1. sel = IF row.selected # None /\ \E m \in found : m.id = row.selected.id THEN row.selected ELSE None
    BY <1>8 DEF Selected
  <2> HIDE DEF sel
  <2> QED  BY <1>3, <1>5, <1>8, <2>1 DEF found, sel
<1> QED  BY <1>6, <1>7, <1>8

LEMMA ListedInv ==
  ASSUME PanelInv, NEW c \in calls, PositionsListed(c)
  PROVE  PanelInv'
<1>1. /\ c.kind = "list_positions" /\ c.answer # None /\ calls' = calls \ {c}
      /\ UNCHANGED <<ledger, epoch, made, applied>>
  BY DEF PositionsListed
<1>2. CASE ~Current(c)
  BY <1>1, <1>2, FewerCalls DEF PositionsListed
<1>3. CASE Current(c)
  <2>1. row # None /\ RowOK(row) /\ row \in Rows /\ CallOK(c) /\ Answers(c, row) /\ c.epoch = epoch /\ c.seq = row.requestSeq
    BY <1>1, <1>3 DEF PanelInv, RowOK, Current, Now, CallFits
  <2>2. PICK found : found = c.answer.found
    OBVIOUS
  <2>3. PICK sel : sel = Selected(row, found)
    OBVIOUS
  <2>4. PICK phase : phase = IF found = {} THEN "none" ELSE IF Cardinality(found) = 1 THEN "single" ELSE "ambiguous"
    OBVIOUS
  <2>5. /\ sel # None => sel \in Matches /\ (sel \in found \/ sel = row.selected) /\ \E n \in found : n.id = sel.id
        /\ found = {} => sel = None
        /\ Cardinality(found) = 1 => sel \in found
        /\ row.selected # None => sel # None /\ sel.id = row.selected.id
    BY <1>1, <1>3, <2>1, <2>2, <2>3, SelectedOK
  <2>6. PICK s : s = [row EXCEPT !.matches = found, !.selected = sel, !.from = c.epoch, !.phase = phase]
    OBVIOUS
  <2>7. row' = s
    BY <1>3, <2>2, <2>3, <2>4, <2>6 DEF PositionsListed
  <2>8. s = [ticker |-> row.ticker, phase |-> phase, matches |-> found, selected |-> sel,
             requestSeq |-> row.requestSeq, asked |-> row.asked, from |-> c.epoch, creating |-> row.creating,
             confirming |-> row.confirming, orders |-> row.orders]
    <3>1. row = [ticker |-> row.ticker, phase |-> row.phase, matches |-> row.matches, selected |-> row.selected,
                 requestSeq |-> row.requestSeq, asked |-> row.asked, from |-> row.from, creating |-> row.creating,
                 confirming |-> row.confirming, orders |-> row.orders]
      BY <2>1, RowRecord
    <3>2. PICK a : a = [row EXCEPT !.matches = found]
      OBVIOUS
    <3>3. PICK b : b = [a EXCEPT !.selected = sel]
      OBVIOUS
    <3>4. PICK d : d = [b EXCEPT !.from = c.epoch]
      OBVIOUS
    <3>5. s = [d EXCEPT !.phase = phase]
      BY <2>6, <3>2, <3>3, <3>4
    <3>6. a = [ticker |-> row.ticker, phase |-> row.phase, matches |-> found, selected |-> row.selected,
               requestSeq |-> row.requestSeq, asked |-> row.asked, from |-> row.from, creating |-> row.creating,
               confirming |-> row.confirming, orders |-> row.orders]
      BY <3>1, <3>2
    <3>7. b = [ticker |-> row.ticker, phase |-> row.phase, matches |-> found, selected |-> sel,
               requestSeq |-> row.requestSeq, asked |-> row.asked, from |-> row.from, creating |-> row.creating,
               confirming |-> row.confirming, orders |-> row.orders]
      BY <3>3, <3>6
    <3>8. d = [ticker |-> row.ticker, phase |-> row.phase, matches |-> found, selected |-> sel,
               requestSeq |-> row.requestSeq, asked |-> row.asked, from |-> c.epoch, creating |-> row.creating,
               confirming |-> row.confirming, orders |-> row.orders]
      BY <3>4, <3>7
    <3> QED  BY <3>5, <3>8
  <2>9. found \subseteq Matches /\ Figures(found) /\ c.epoch \in Nat
    BY <1>1, <2>1, <2>2 DEF CallOK, Figures
  <2>10. phase \in Phases
    BY <2>4 DEF Phases
  <2>11. s \in Rows
    BY <2>1, <2>5, <2>8, <2>9, <2>10 DEF Rows
  <2>12. Figures(ShownBy(s))
    <3>1. ShownBy(s) \subseteq found \cup ShownBy(row)
      BY <2>5, <2>8 DEF ShownBy
    <3>2. Figures(ShownBy(row))
      BY <2>1 DEF RowOK
    <3> QED  BY <2>9, <3>1, <3>2 DEF Figures
  <2>13. /\ phase = "none" => found = {}
         /\ phase = "single" => Cardinality(found) = 1
    BY <2>4
  <2>14. row.orders.version > 0 => row.orders.epoch = epoch /\ row.selected # None /\ row.orders.of = row.selected.id
    BY <2>1 DEF RowOK
  <2>15. row.ticker /\ (row.asked = clock => found = AsItIs) /\ row.asked <= clock
    BY <1>1, <2>1, <2>2 DEF Answers, RowOK
  <2>16. RowOK(s)
    BY <2>1, <2>5, <2>8, <2>11, <2>12, <2>13, <2>14, <2>15 DEF RowOK
  <2>17. ASSUME NEW e \in calls'  PROVE CallFits(e, s)
    <3>1. CallFits(e, row) /\ ~SameRefresh(e, c)
      BY <1>1 DEF PanelInv
    <3>2. (e.kind = "list_positions" /\ e.epoch = epoch) => e.seq # row.requestSeq
      BY <1>1, <2>1, <3>1 DEF SameRefresh
    <3>3. s # None /\ s.requestSeq = row.requestSeq
      BY <2>8, <2>11, PanelAssumption
    <3> QED  BY <3>1, <3>2, <3>3 DEF CallFits
  <2>18. made' \in Nat
    BY <1>1 DEF PanelInv, LedgerOK
  <2> QED  BY <1>1, <2>7, <2>16, <2>17, <2>18, EndInv
<1> QED  BY <1>2, <1>3

\* New orders below the card they were asked for.
LEMMA OrdersOK ==
  ASSUME PanelInv, row # None, NEW orders \in Orders,
         orders.version > 0 => orders.epoch = epoch /\ row.selected # None /\ orders.of = row.selected.id,
         NEW s, s = [row EXCEPT !.orders = orders]
  PROVE  RowOK(s) /\ \A c \in calls : CallFits(c, s)
<1>1. RowOK(row) /\ row \in Rows
  BY DEF PanelInv, RowOK
<1>2. s = [ticker |-> row.ticker, phase |-> row.phase, matches |-> row.matches, selected |-> row.selected,
           requestSeq |-> row.requestSeq, asked |-> row.asked, from |-> row.from, creating |-> row.creating,
           confirming |-> row.confirming, orders |-> orders]
  <2>1. row = [ticker |-> row.ticker, phase |-> row.phase, matches |-> row.matches, selected |-> row.selected,
               requestSeq |-> row.requestSeq, asked |-> row.asked, from |-> row.from, creating |-> row.creating,
               confirming |-> row.confirming, orders |-> row.orders]
    BY <1>1, RowRecord
  <2> QED  BY <2>1
<1>3. s \in Rows /\ ShownBy(s) = ShownBy(row)
  BY <1>1, <1>2 DEF Rows, ShownBy
<1>4. RowOK(s)
  BY <1>1, <1>2, <1>3 DEF RowOK
<1>5. \A c \in calls : CallFits(c, s)
  BY <1>2, <1>3, SameRow DEF PanelInv
<1> QED  BY <1>4, <1>5

LEMMA OrdersListedInv ==
  ASSUME PanelInv, NEW c \in calls, OrdersListed(c)
  PROVE  PanelInv'
<1>1. c.kind = "list_orders" /\ c.answer # None /\ calls' = calls \ {c} /\ UNCHANGED <<ledger, epoch, made, applied>>
  BY DEF OrdersListed, TakeOrders
<1>2. PICK orders : orders = [loading |-> FALSE, of |-> c.of, version |-> c.answer.version, epoch |-> c.epoch]
  OBVIOUS
<1>3. orders \in Orders
  BY <1>1, <1>2 DEF Orders, PanelInv, CallOK
<1>4. row' = IF Now(c) /\ row.selected # None /\ row.selected.id = c.of THEN [row EXCEPT !.orders = orders] ELSE row
  BY <1>2 DEF OrdersListed, TakeOrders
<1>5. CASE Now(c) /\ row.selected # None /\ row.selected.id = c.of
  <2>1. PICK s : s = [row EXCEPT !.orders = orders]
    OBVIOUS
  <2>2. row # None /\ orders.epoch = epoch /\ orders.of = row.selected.id
    BY <1>2, <1>5 DEF Now
  <2>3. RowOK(s) /\ \A d \in calls : CallFits(d, s)
    BY <1>3, <1>5, <2>1, <2>2, OrdersOK
  <2>4. made' \in Nat
    BY <1>1 DEF PanelInv, LedgerOK
  <2> QED  BY <1>1, <1>4, <1>5, <2>1, <2>3, <2>4, EndInv
<1>6. CASE ~(Now(c) /\ row.selected # None /\ row.selected.id = c.of)
  BY <1>1, <1>4, <1>6, FewerCalls
<1> QED  BY <1>5, <1>6

LEMMA AnsweredInv ==
  ASSUME PanelInv, NEW c \in calls, Answered(c)
  PROVE  PanelInv'
<1>0. calls \ {c} \subseteq calls
  OBVIOUS
<1>1. CASE Analyzed(c)
  <2>1. CASE c.epoch # epoch
    BY <1>1, <2>1, FewerCalls DEF Analyzed
  <2>2. CASE c.epoch = epoch
    <3>1. row # None /\ EnsureRow(row) = row
      BY <2>2 DEF PanelInv, CallFits, EnsureRow
    <3>2. RowOK(row) /\ row \in Rows
      BY <3>1 DEF PanelInv, RowOK
    <3>3. PICK r : r = [row EXCEPT !.ticker = TRUE]
      OBVIOUS
    <3>4. r = [ticker |-> TRUE, phase |-> row.phase, matches |-> row.matches, selected |-> row.selected,
               requestSeq |-> row.requestSeq, asked |-> row.asked, from |-> row.from, creating |-> row.creating,
               confirming |-> row.confirming, orders |-> row.orders]
      <4>1. row = [ticker |-> row.ticker, phase |-> row.phase, matches |-> row.matches, selected |-> row.selected,
                   requestSeq |-> row.requestSeq, asked |-> row.asked, from |-> row.from, creating |-> row.creating,
                   confirming |-> row.confirming, orders |-> row.orders]
        BY <3>2, RowRecord
      <4> QED  BY <3>3, <4>1
    <3>5. Edited(r)
      BY <3>1, <3>2, <3>4 DEF Edited, Rows
    <3> QED  BY <1>0, <1>1, <2>2, <3>1, <3>3, <3>5, RefreshInv DEF Analyzed
  <2> QED  BY <2>1, <2>2
<1>2. CASE PositionsListed(c)
  BY <1>2, ListedInv
<1>3. CASE OrdersListed(c)
  BY <1>3, OrdersListedInv
<1>4. CASE PositionCreated(c)
  <2>1. PICK r : r = IF Now(c) THEN [row EXCEPT !.creating = FALSE] ELSE row
    OBVIOUS
  <2>2. (r = None /\ row = None) \/ Edited(r)
    BY <2>1, FlagOK, Itself DEF Now
  <2> QED  BY <1>0, <1>4, <2>1, <2>2, RefreshInv DEF PositionCreated
<1>5. CASE OrderUpdated(c)
  <2>1. PICK r : r = IF Now(c) THEN [row EXCEPT !.confirming = FALSE] ELSE row
    OBVIOUS
  <2>2. (r = None /\ row = None) \/ (Edited(r) /\ RowOK(r))
    BY <2>1, FlagOK, Itself DEF Now
  <2>3. CASE RefreshOrders(r, calls \ {c})
    BY <1>0, <1>5, <2>2, <2>3, RefreshOrdersInv DEF OrderUpdated
  <2>4. CASE row' = r /\ calls' = calls \ {c} /\ UNCHANGED made
    <3>1. \A d \in calls : CallFits(d, r)
      BY <2>2, EditedFits DEF PanelInv
    <3>2. made' \in Nat /\ UNCHANGED <<ledger, epoch, applied>>
      BY <1>5, <2>4 DEF OrderUpdated, PanelInv, LedgerOK
    <3> QED  BY <2>2, <2>4, <3>1, <3>2, EndInv
  <2> QED  BY <1>5, <2>1, <2>3, <2>4 DEF OrderUpdated
<1> QED  BY <1>1, <1>2, <1>3, <1>4, <1>5 DEF Answered

\* An error is shown, the rest of the row stays as it is.
LEMMA FailedOK ==
  ASSUME PanelInv, row # None, NEW c, NEW s, s = Failed(row, c)
  PROVE  RowOK(s) /\ \A d \in calls : CallFits(d, s)
<1>1. RowOK(row) /\ row \in Rows
  BY DEF PanelInv, RowOK
<1>2. CASE s = row
  BY <1>1, <1>2 DEF PanelInv
<1>3. CASE s = [row EXCEPT !.creating = FALSE] \/ s = [row EXCEPT !.confirming = FALSE]
  BY <1>3, FlagOK, EditedFits
<1>4. CASE s = [row EXCEPT !.orders = NoOrders]
  <2>1. NoOrders \in Orders /\ ~(NoOrders.version > 0)
    BY DEF NoOrders, Orders
  <2> QED  BY <1>4, <2>1, OrdersOK
<1>5. CASE s = [row EXCEPT !.phase = "error"]
  <2>1. s = [ticker |-> row.ticker, phase |-> "error", matches |-> row.matches, selected |-> row.selected,
             requestSeq |-> row.requestSeq, asked |-> row.asked, from |-> row.from, creating |-> row.creating,
             confirming |-> row.confirming, orders |-> row.orders]
    <3>1. row = [ticker |-> row.ticker, phase |-> row.phase, matches |-> row.matches, selected |-> row.selected,
                 requestSeq |-> row.requestSeq, asked |-> row.asked, from |-> row.from, creating |-> row.creating,
                 confirming |-> row.confirming, orders |-> row.orders]
      BY <1>1, RowRecord
    <3> QED  BY <1>5, <3>1
  <2>2. s \in Rows /\ ShownBy(s) = ShownBy(row)
    BY <1>1, <2>1 DEF Rows, Phases, ShownBy
  <2>3. RowOK(s)
    BY <1>1, <2>1, <2>2 DEF RowOK
  <2>4. \A d \in calls : CallFits(d, s)
    BY <2>1, <2>2, SameRow DEF PanelInv
  <2> QED  BY <2>3, <2>4
<1> QED  BY <1>2, <1>3, <1>4, <1>5 DEF Failed

LEMMA TimeoutInv ==
  ASSUME PanelInv, NEW c \in calls, TimesOut(c)
  PROVE  PanelInv'
<1>1. row' = (IF Now(c) THEN Failed(row, c) ELSE row) /\ calls' = GivenUp(c) /\ UNCHANGED <<ledger, epoch, made, applied>>
  BY DEF TimesOut
<1>2. PICK s : s = IF Now(c) THEN Failed(row, c) ELSE row
  OBVIOUS
<1>3. /\ s # None => RowOK(s)
      /\ \A d \in calls : CallFits(d, s)
  <2>1. CASE Now(c)
    BY <1>2, <2>1, FailedOK DEF Now
  <2>2. CASE ~Now(c)
    BY <1>2, <2>2 DEF PanelInv
  <2> QED  BY <2>1, <2>2
<1>4. PICK d : d = [c EXCEPT !.heard = FALSE]
  OBVIOUS
<1> DEFINE no == FALSE
<1>5. CallOK(c)
  BY DEF PanelInv
<1>6. d = [kind |-> c.kind, epoch |-> c.epoch, seq |-> c.seq, of |-> c.of, version |-> c.version,
           heard |-> no, read |-> c.read, answer |-> c.answer]
  <2>1. d = [c EXCEPT !.heard = no]
    BY <1>4
  <2> HIDE DEF no
  <2> QED  BY <1>5, <2>1, CallRecord
<1>7. CallOK(d) /\ CallFits(d, s)
  <2>1. Answers(c, s) => Answers(d, s)
    BY <1>6 DEF Answers
  <2>2. CallFits(c, s)
    BY <1>3
  <2> QED  BY <1>5, <1>6, <2>1, <2>2 DEF CallOK, CallFits
<1>8. calls' \subseteq (calls \ {c}) \cup {d}
  BY <1>1, <1>4 DEF GivenUp
<1>9. Grows
  BY <1>1, StillGrows DEF PanelInv, LedgerOK
<1>10. \A e \in calls' : CallOK(e) /\ CallFits(e, s)
  BY <1>3, <1>7, <1>8 DEF PanelInv
<1>11. \A e, f \in calls' : SameRefresh(e, f) => e = f
  <2>1. d.kind = c.kind /\ d.epoch = c.epoch /\ d.seq = c.seq
    BY <1>6
  <2> QED  BY <1>8, <2>1 DEF PanelInv, SameRefresh
<1> QED  BY <1>1, <1>2, <1>3, <1>9, <1>10, <1>11, MoveInv DEF PanelInv, OnlyShownOrdersChanged
-----------------------------------------------------------------------------
(* The theorems *)

LEMMA PanelInitially == Init => PanelInv
<1> SUFFICES ASSUME Init  PROVE PanelInv
  OBVIOUS
<1>1. \A p \in Positions : position[p] = [version |-> 0, closed |-> FALSE, fills |-> 0, order |-> 0, key |-> None]
  BY DEF Init
<1>2. [version |-> 0, closed |-> FALSE, fills |-> 0, order |-> 0, key |-> None] \in Ledgers
  BY DEF Ledgers
<1>3. position \in [Positions -> Ledgers]
  BY <1>2 DEF Init
<1> QED  BY <1>3 DEF Init, PanelInv, LedgerOK, OnlyShownOrdersChanged

LEMMA PanelStep ==
  ASSUME PanelInv, [Next]_vars
  PROVE  PanelInv'
<1>1. CASE Switch
  BY <1>1, SwitchInv
<1>2. CASE Quote
  BY <1>2, QuoteInv
<1>3. CASE ClickRefresh \/ ShowOrders \/ ConfirmCreate \/ ConfirmStatus
  BY <1>3, ClickInv
<1>4. CASE SelectAmbiguousPosition
  BY <1>4, SelectInv
<1>5. ASSUME NEW p \in Positions, Elsewhere(p)  PROVE PanelInv'
  BY <1>5, ElsewhereInv
<1>6. ASSUME NEW c \in calls, Serve(c)  PROVE PanelInv'
  BY <1>6, ServerInv
<1>7. ASSUME NEW c \in calls, Answered(c)  PROVE PanelInv'
  BY <1>7, AnsweredInv
<1>8. ASSUME NEW c \in calls, TimesOut(c)  PROVE PanelInv'
  BY <1>8, TimeoutInv
<1>9. CASE UNCHANGED vars
  <2>1. calls' \subseteq calls /\ UNCHANGED <<ledger, epoch, row, made, applied>>
    BY <1>9 DEF vars, ledger
  <2> QED  BY <2>1, FewerCalls
<1> QED  BY <1>1, <1>2, <1>3, <1>4, <1>5, <1>6, <1>7, <1>8, <1>9 DEF Next

\* A card that was refreshed after the last change shows the position as it is, in
\* whatever order the requests are answered.
THEOREM CardAlwaysCurrent == Spec => []CardCurrent
<1>1. PanelInv => CardCurrent
  <2> SUFFICES ASSUME PanelInv  PROVE CardCurrent
    OBVIOUS
  <2>1. row # None => RowOK(row)
    BY DEF PanelInv
  <2>2. PanelTypeOK
    BY <2>1 DEF PanelInv, CallOK, RowOK, PanelTypeOK
  <2>3. CaughtUp /\ ShownSinceSwitch
    BY <2>1 DEF RowOK, CaughtUp, ShownSinceSwitch
  <2>4. FiguresInOrder
    BY <2>1 DEF RowOK, Figures, ShownBy, FiguresInOrder
  <2> QED  BY <2>2, <2>3, <2>4 DEF CardCurrent
<1> QED  BY <1>1, PanelInitially, PanelStep, PTL DEF Spec

\* The orders below a card are those of its position, and only orders that are still as
\* they were shown are changed.
THEOREM OrdersAlwaysSeen == Spec => []OrdersSeen
<1>1. PanelInv => OrdersSeen
  BY DEF PanelInv, RowOK, OrdersOfTheCard, OrdersSeen
<1> QED  BY <1>1, PanelInitially, PanelStep, PTL DEF Spec

GoesForward ==
    (epoch' = epoch /\ row # None /\ row' # None /\ row.selected # None /\ row'.selected # None
     /\ row'.selected.id = row.selected.id) => row'.selected.version >= row.selected.version

\* Only a list of positions, and a user who has nothing selected, select something else.
LEMMA SelectionKept ==
  ASSUME PanelInv, [Next]_vars, row # None, row.selected # None, row' # None, epoch' = epoch,
         \A c \in calls : ~PositionsListed(c)
  PROVE  row'.selected = row.selected
<1>1. row \in Rows
  BY DEF PanelInv, RowOK
<1>2. row = [ticker |-> row.ticker, phase |-> row.phase, matches |-> row.matches, selected |-> row.selected,
             requestSeq |-> row.requestSeq, asked |-> row.asked, from |-> row.from, creating |-> row.creating,
             confirming |-> row.confirming, orders |-> row.orders]
  BY <1>1, RowRecord
<1>3. ASSUME NEW r, r = [row EXCEPT !.creating = FALSE] \/ r = [row EXCEPT !.confirming = FALSE]
             \/ r = [row EXCEPT !.ticker = TRUE] \/ r = row
      PROVE  r.selected = row.selected /\ r \in Rows /\ r # None
  <2>1. r.selected = row.selected /\ r \in Rows
    BY <1>1, <1>2, <1>3 DEF Rows
  <2> QED  BY <2>1, PanelAssumption
<1>4. ASSUME NEW r \in Rows, r # None, r.selected = row.selected, NEW in, RefreshPosition(r, in) \/ RefreshOrders(r, in)
      PROVE  row'.selected = row.selected
  <2>1. r = [ticker |-> r.ticker, phase |-> r.phase, matches |-> r.matches, selected |-> r.selected,
             requestSeq |-> r.requestSeq, asked |-> r.asked, from |-> r.from, creating |-> r.creating,
             confirming |-> r.confirming, orders |-> r.orders]
    BY RowRecord
  <2>2. EnsureRow(r) = r
    BY <1>4 DEF EnsureRow
  <2>3. \/ row' = r
        \/ row' = [r EXCEPT !.requestSeq = @ + 1, !.phase = "loading", !.asked = clock]
        \/ row' = [r EXCEPT !.orders.loading = TRUE]
    BY <1>4, <2>2 DEF RefreshPosition, RefreshOrders
  <2> QED  BY <1>4, <2>1, <2>3
<1>5. CASE Switch
  BY <1>5 DEF Switch, PanelInv, LedgerOK
<1>6. CASE Quote
  BY <1>6 DEF Quote, EnsureRow
<1>7. CASE ClickRefresh \/ ShowOrders
  BY <1>1, <1>4, <1>7 DEF ClickRefresh, ShowOrders
<1>8. CASE ConfirmCreate \/ ConfirmStatus
  BY <1>2, <1>8 DEF ConfirmCreate, ConfirmStatus
<1>9. ASSUME NEW p \in Positions, Elsewhere(p)  PROVE row' = row
  BY <1>9 DEF Elsewhere
<1>10. ASSUME NEW c \in calls, Serve(c)  PROVE row' = row
  BY <1>10 DEF Serve, ListPositions, ListOrders, CreatePosition, UpdateOrder
<1>11. ASSUME NEW c \in calls, Answered(c)  PROVE row'.selected = row.selected
  <2>1. CASE Analyzed(c)
    <3>1. EnsureRow(row) = row
      BY DEF EnsureRow
    <3> QED  BY <1>3, <1>4, <2>1, <3>1 DEF Analyzed
  <2>2. CASE OrdersListed(c)
    BY <1>2, <2>2 DEF OrdersListed, TakeOrders
  <2>3. CASE PositionCreated(c)
    BY <1>3, <1>4, <2>3 DEF PositionCreated
  <2>4. CASE OrderUpdated(c)
    BY <1>3, <1>4, <2>4 DEF OrderUpdated
  <2> QED  BY <1>11, <2>1, <2>2, <2>3, <2>4 DEF Answered
<1>12. ASSUME NEW c \in calls, TimesOut(c)  PROVE row'.selected = row.selected
  <2>1. row' = row \/ row' = Failed(row, c)
    BY <1>12 DEF TimesOut
  <2> QED  BY <1>2, <2>1 DEF Failed
<1>13. CASE SelectAmbiguousPosition
  BY <1>13 DEF SelectAmbiguousPosition
<1>14. CASE UNCHANGED vars
  BY <1>14 DEF vars
<1> QED  BY <1>5, <1>6, <1>7, <1>8, <1>9, <1>10, <1>11, <1>12, <1>13, <1>14 DEF Next

\* The figures of a card only get newer while the page stays.
THEOREM CardGoesForward == Spec => CardNeverGoesBack
<1>1. ASSUME PanelInv, [Next]_vars  PROVE GoesForward
  <2> SUFFICES ASSUME epoch' = epoch, row # None, row' # None, row.selected # None, row'.selected # None,
                      row'.selected.id = row.selected.id
               PROVE  row'.selected.version >= row.selected.version
    BY DEF GoesForward
  <2>1. row.selected \in Matches /\ row \in Rows
    BY <1>1 DEF PanelInv, RowOK, Rows
  <2>2. CASE row'.selected = row.selected
    BY <2>1, <2>2 DEF Matches
  <2>3. ASSUME NEW c \in calls, PositionsListed(c)
        PROVE  row'.selected.version >= row.selected.version
    <3>1. CASE ~Current(c)
      BY <2>1, <2>3, <3>1 DEF PositionsListed, Matches
    <3>2. CASE Current(c)
      <4>1. PICK sel : sel = Selected(row, c.answer.found)
        OBVIOUS
      <4>2. sel # None => sel \in Matches /\ row.selected.version <= sel.version
        BY <1>1, <2>3, <3>2, <4>1, SelectedOK DEF PositionsListed, Current, Now
      <4>3. row'.selected = sel
        <5>1. row = [ticker |-> row.ticker, phase |-> row.phase, matches |-> row.matches, selected |-> row.selected,
                     requestSeq |-> row.requestSeq, asked |-> row.asked, from |-> row.from, creating |-> row.creating,
                     confirming |-> row.confirming, orders |-> row.orders]
          BY <2>1, RowRecord
        <5> QED  BY <2>3, <3>2, <4>1, <5>1 DEF PositionsListed
      <4> QED  BY <2>1, <4>2, <4>3 DEF Matches
    <3> QED  BY <3>1, <3>2
  <2> QED  BY <1>1, <2>2, <2>3, SelectionKept
<1> QED  BY <1>1, PanelInitially, PanelStep, PTL DEF Spec, CardNeverGoesBack, GoesForward
=============================================================================
