---------------------------- MODULE PanelRefresh ----------------------------
(* The row of one market in the extension's panel (content_script.js), over a   *)
(* ledger that other browsers change.  The page moves to another event and      *)
(* back; calls are answered in any order, or given up by the timer while the    *)
(* server goes on; the service reads positions and their fills one after the    *)
(* other (positions_service.py).                                                *)
EXTENDS Integers, FiniteSets

CONSTANTS
    None,
    Positions,                          \* positions of the market there may be
    MaxChanges, MaxCalls, MaxEpoch      \* of the ledger; that the user starts; of the page

VARIABLES
    position,   \* id -> [version, closed, fills, order, key]; the versions are 0 before there is one
    clock,      \* how many changes the ledger has seen
    epoch,      \* how often the page moved to another event
    seen,       \* whether the market was quoted in this epoch
    row,        \* the row of the panel, or None
    calls,      \* calls the panel made that the server or the panel is not done with
    made,       \* how many it made
    applied     \* the last update of an order that was applied: what was shown, and what it hit

ledger == <<position, clock>>
vars == <<position, clock, epoch, seen, row, calls, made, applied>>

\* A position as it is listed, the orders below a card, and the row of a market.
Matches == [id : Positions, version : Nat, booked : Nat, buys : Nat]
Orders == [loading : BOOLEAN, of : Positions \cup {None}, version : Nat, epoch : Nat]
Phases == {"idle", "loading", "none", "single", "ambiguous", "error"}
Rows == [ticker : BOOLEAN, phase : Phases, matches : SUBSET Matches, selected : Matches \cup {None},
         requestSeq : Nat, asked : Nat, from : Nat, creating : BOOLEAN, confirming : BOOLEAN, orders : Orders]

ASSUME PanelAssumption ==
    IsFiniteSet(Positions) /\ None \notin Positions /\ None \notin Matches /\ None \notin Rows

Created == {p \in Positions : position[p].version > 0}

NoOrders == [loading |-> FALSE, of |-> None, version |-> 0, epoch |-> 0]
\* asked: the clock at the last refresh; from: the epoch of the answer that is shown.
NewRow == [ticker |-> FALSE, phase |-> "idle", matches |-> {}, selected |-> None, requestSeq |-> 0,
           asked |-> 0, from |-> 0, creating |-> FALSE, confirming |-> FALSE, orders |-> NoOrders]
EnsureRow(r) == IF r = None THEN NewRow ELSE r

Init ==
    /\ position = [p \in Positions |-> [version |-> 0, closed |-> FALSE, fills |-> 0, order |-> 0, key |-> None]]
    /\ clock = 0 /\ epoch = 0 /\ seen = FALSE /\ row = None
    /\ calls = {} /\ made = 0 /\ applied = None
-----------------------------------------------------------------------------
(* The ledger, changed by others.  A fill moves its order and its position. *)

Change(p, after) ==
    /\ clock < MaxChanges /\ clock' = clock + 1
    /\ position' = [position EXCEPT ![p] = after]

Elsewhere(p) ==
    /\ LET now == position[p] IN
       \/ p \notin Created /\ Change(p, [now EXCEPT !.version = 1])
       \/ p \in Created /\ ~now.closed /\ now.order = 0 /\ Change(p, [now EXCEPT !.order = 1])
       \/ /\ p \in Created /\ ~now.closed /\ now.order > 0
          /\ \E closed \in BOOLEAN :
                Change(p, [now EXCEPT !.version = @ + 1, !.fills = @ + 1, !.order = @ + 1, !.closed = closed])
    /\ UNCHANGED <<epoch, seen, row, calls, made, applied>>
-----------------------------------------------------------------------------
(* Calls: seq tells two of a kind apart, of and version say what they are about, *)
(* read is what the server has read so far, answer what it answers.              *)

Call(kind, seq, of, version) ==
    [kind |-> kind, epoch |-> epoch, seq |-> seq, of |-> of, version |-> version,
     heard |-> TRUE, read |-> None, answer |-> None]

Send(call, in) == calls' = in \cup {call} /\ made' = made + 1

\* refreshPositionSection: it waits for the ticker.
RefreshPosition(r, in) ==
    IF ~EnsureRow(r).ticker
    THEN row' = EnsureRow(r) /\ calls' = in /\ UNCHANGED made
    ELSE /\ row' = [r EXCEPT !.requestSeq = @ + 1, !.phase = "loading", !.asked = clock]
         /\ Send(Call("list_positions", r.requestSeq + 1, None, 0), in)

\* refreshOrders: the list that is shown stays until the answer.
RefreshOrders(r, in) ==
    IF EnsureRow(r).selected = None
    THEN row' = r /\ calls' = in /\ UNCHANGED made
    ELSE /\ row' = [r EXCEPT !.orders.loading = TRUE]
         /\ Send(Call("list_orders", made, r.selected.id, 0), in)
-----------------------------------------------------------------------------
(* The page and the user *)

\* resetForNewEvent
Switch ==
    /\ epoch < MaxEpoch
    /\ epoch' = epoch + 1 /\ seen' = FALSE /\ row' = None
    /\ UNCHANGED <<ledger, calls, made, applied>>

\* requestAnalysis, the first time the symbol is seen.
Quote ==
    /\ ~seen /\ seen' = TRUE
    /\ row' = EnsureRow(row)
    /\ Send(Call("analyze", 0, None, 0), calls)
    /\ UNCHANGED <<ledger, epoch, applied>>

CardShown == row # None /\ row.ticker /\ row.selected # None /\ row.phase \in {"loading", "single", "ambiguous"}

ClickRefresh ==
    /\ made < MaxCalls
    /\ CardShown \/ (row # None /\ row.phase = "error")
    /\ RefreshPosition(row, calls)
    /\ UNCHANGED <<ledger, epoch, seen, applied>>

SelectAmbiguousPosition ==
    /\ row # None /\ row.phase = "ambiguous" /\ row.selected = None
    /\ \E m \in row.matches : row' = [row EXCEPT !.selected = m, !.orders = NoOrders]
    /\ UNCHANGED <<ledger, epoch, seen, calls, made, applied>>

ShowOrders ==
    /\ made < MaxCalls /\ CardShown
    /\ RefreshOrders(row, calls)
    /\ UNCHANGED <<ledger, epoch, seen, applied>>

ConfirmCreate ==
    /\ made < MaxCalls
    /\ row # None /\ row.phase = "none" /\ ~row.creating
    /\ row' = [row EXCEPT !.creating = TRUE]
    /\ Send(Call("create_position", 0, None, 0), calls)
    /\ UNCHANGED <<ledger, epoch, seen, applied>>

\* The order is the one of the list, the position the one of the card.
ConfirmStatus ==
    /\ made < MaxCalls
    /\ CardShown /\ ~row.confirming /\ ~row.orders.loading /\ row.orders.version > 0
    /\ row' = [row EXCEPT !.confirming = TRUE]
    /\ Send(Call("update_order", 0, [card |-> row.selected.id, order |-> row.orders.of], row.orders.version), calls)
    /\ UNCHANGED <<ledger, epoch, seen, applied>>
-----------------------------------------------------------------------------
(* The server *)

\* Nobody waits for the answer of a call that was given up.
Served(c, d) == calls' = (calls \ {c}) \cup (IF d.answer # None /\ ~d.heard THEN {} ELSE {d})

\* The extension asks for all of them (status=all).
Listed == Created

\* _position_to_response: the figures of the row as read, and those of the fills there are by now.
Response(read) ==
    {[id |-> p, version |-> read[p].version, booked |-> read[p].booked, buys |-> position[p].fills] : p \in DOMAIN read}

ListPositions(c) ==
    /\ c.kind = "list_positions" /\ c.answer = None
    /\ IF c.read = None
       THEN Served(c, [c EXCEPT !.read = [p \in Listed |-> [version |-> position[p].version, booked |-> position[p].fills]]])
       ELSE Served(c, [c EXCEPT !.answer = [found |-> Response(c.read)], !.read = None])
    /\ UNCHANGED <<ledger, epoch, seen, row, made, applied>>

ListOrders(c) ==
    /\ c.kind = "list_orders" /\ c.answer = None
    /\ Served(c, [c EXCEPT !.answer = [version |-> position[c.of].order]])
    /\ UNCHANGED <<ledger, epoch, seen, row, made, applied>>

\* The key of the form is the same as long as its row lives.
CreatePosition(c) ==
    /\ c.kind = "create_position" /\ c.answer = None
    /\ IF \E p \in Created : position[p].key = c.epoch THEN UNCHANGED ledger
       ELSE \E p \in Positions \ Created : Change(p, [position[p] EXCEPT !.version = 1, !.key = c.epoch])
    /\ Served(c, [c EXCEPT !.answer = "ok"])
    /\ UNCHANGED <<epoch, seen, row, made, applied>>

\* Bug variant: the version is not compared.
Accepted_AnyVersion(c) == c.of.order = c.of.card

\* An order of another position, or in another version, is refused.
Accepted(c) == c.of.order = c.of.card /\ position[c.of.order].order = c.version

UpdateOrder(c) ==
    /\ c.kind = "update_order" /\ c.answer = None
    /\ IF Accepted(c)
       THEN /\ Change(c.of.order, [position[c.of.order] EXCEPT !.order = @ + 1])
            /\ applied' = [card |-> c.of.card, listed |-> c.version, hit |-> c.of.order, was |-> position[c.of.order].order]
            /\ Served(c, [c EXCEPT !.answer = "ok"])
       ELSE Served(c, [c EXCEPT !.answer = "refused"]) /\ UNCHANGED <<ledger, applied>>
    /\ UNCHANGED <<epoch, seen, row, made>>

Serve(c) == ListPositions(c) \/ ListOrders(c) \/ CreatePosition(c) \/ UpdateOrder(c)
-----------------------------------------------------------------------------
(* Answers.  A callback of a form writes into the row it was opened in, which    *)
(* nobody sees once the page moved on, but refreshes the row there is now.       *)

Now(c) == c.epoch = epoch /\ row # None

Analyzed(c) ==
    /\ c.kind = "analyze"
    /\ IF c.epoch # epoch THEN calls' = calls \ {c} /\ UNCHANGED <<row, made>>
       ELSE RefreshPosition([EnsureRow(row) EXCEPT !.ticker = TRUE], calls \ {c})
    /\ UNCHANGED <<ledger, epoch, seen, applied>>

\* Bug variant: answers are taken as they come.
Current_AnyOrder(c) == Now(c)

\* The answer to the last refresh of this event.
Current(c) == Now(c) /\ c.seq = row.requestSeq

\* Among two or more, what was selected stays as it was.
Selected(r, found) ==
    CASE found = {} -> None
      [] Cardinality(found) = 1 -> CHOOSE m \in found : TRUE
      [] OTHER -> IF r.selected # None /\ \E m \in found : m.id = r.selected.id THEN r.selected ELSE None

PositionsListed(c) ==
    /\ c.kind = "list_positions" /\ c.heard /\ c.answer # None
    /\ LET found == c.answer.found IN
       row' = IF ~Current(c) THEN row
              ELSE [row EXCEPT !.matches = found, !.selected = Selected(row, found), !.from = c.epoch,
                               !.phase = IF found = {} THEN "none" ELSE IF Cardinality(found) = 1 THEN "single" ELSE "ambiguous"]
    /\ calls' = calls \ {c}
    /\ UNCHANGED <<ledger, epoch, seen, made, applied>>

\* An answer about another position than the one of the card is dropped.
TakeOrders(c, orders) ==
    /\ row' = IF Now(c) /\ row.selected # None /\ row.selected.id = c.of THEN [row EXCEPT !.orders = orders] ELSE row
    /\ calls' = calls \ {c}

OrdersListed(c) ==
    /\ c.kind = "list_orders" /\ c.heard /\ c.answer # None
    /\ TakeOrders(c, [loading |-> FALSE, of |-> c.of, version |-> c.answer.version, epoch |-> c.epoch])
    /\ UNCHANGED <<ledger, epoch, seen, made, applied>>

PositionCreated(c) ==
    /\ c.kind = "create_position" /\ c.heard /\ c.answer # None
    /\ RefreshPosition(IF Now(c) THEN [row EXCEPT !.creating = FALSE] ELSE row, calls \ {c})
    /\ UNCHANGED <<ledger, epoch, seen, applied>>

OrderUpdated(c) ==
    /\ c.kind = "update_order" /\ c.heard /\ c.answer # None
    /\ LET r == IF Now(c) THEN [row EXCEPT !.confirming = FALSE] ELSE row IN
       IF c.answer = "ok" THEN RefreshOrders(r, calls \ {c})
       ELSE row' = r /\ calls' = calls \ {c} /\ UNCHANGED made
    /\ UNCHANGED <<ledger, epoch, seen, applied>>

Answered(c) == Analyzed(c) \/ PositionsListed(c) \/ OrdersListed(c) \/ PositionCreated(c) \/ OrderUpdated(c)
-----------------------------------------------------------------------------
(* The timers: the panel shows an error, the server does what it was asked. *)

GivenUp(c) == (calls \ {c}) \cup (IF c.answer = None /\ c.kind # "analyze" THEN {[c EXCEPT !.heard = FALSE]} ELSE {})

\* Bug variant: an error is not shown.
Failed_Silent(r, c) ==
    CASE c.kind = "create_position" -> [r EXCEPT !.creating = FALSE]
      [] c.kind = "update_order" -> [r EXCEPT !.confirming = FALSE]
      [] OTHER -> r

Failed(r, c) ==
    CASE c.kind = "create_position" -> [r EXCEPT !.creating = FALSE]
      [] c.kind = "update_order" -> [r EXCEPT !.confirming = FALSE]
      [] c.kind = "list_positions" /\ Current(c) -> [r EXCEPT !.phase = "error"]
      [] c.kind = "list_orders" /\ r.selected # None /\ r.selected.id = c.of -> [r EXCEPT !.orders = NoOrders]
      [] OTHER -> r

TimesOut(c) ==
    /\ c.heard
    /\ row' = IF Now(c) THEN Failed(row, c) ELSE row
    /\ calls' = GivenUp(c)
    /\ UNCHANGED <<ledger, epoch, seen, made, applied>>
-----------------------------------------------------------------------------
Next ==
    \/ Switch \/ Quote \/ ClickRefresh \/ SelectAmbiguousPosition \/ ShowOrders \/ ConfirmCreate \/ ConfirmStatus
    \/ \E p \in Positions : Elsewhere(p)
    \/ \E c \in calls : Serve(c) \/ Answered(c) \/ TimesOut(c)

\* Every call ends for the panel, by its answer or by its timer.
Spec == Init /\ [][Next]_vars /\ WF_vars(\E c \in calls : Answered(c) \/ TimesOut(c))
-----------------------------------------------------------------------------
(* Properties *)

\* What is selected is among the matches, and nothing is shown before the ticker is known.
PanelTypeOK ==
    /\ \A c \in calls : c.epoch <= epoch
    /\ row # None =>
        /\ row \in Rows
        /\ row.matches # {} => row.ticker
        /\ row.phase = "none" => row.matches = {} /\ row.selected = None
        /\ row.selected # None => \E m \in row.matches : m.id = row.selected.id
        /\ row.asked <= clock

\* The positions of the market as a single read of the ledger finds them.
AsItIs == {[id |-> p, version |-> position[p].version, booked |-> position[p].fills,
            buys |-> position[p].fills] : p \in Created}

\* A panel that is not waiting, and was refreshed after the last change of the ledger,
\* lists every position of the market as it is, and shows the single one as it is: of two
\* refreshes the older answer never stays (requestSeq).
CaughtUp ==
    (row # None /\ row.ticker /\ row.phase \in {"none", "single", "ambiguous"} /\ row.asked = clock) =>
        /\ row.matches = AsItIs
        /\ row.phase = "single" => row.selected \in row.matches

\* Whatever the row shows was asked for after the page moved to this event, also when the
\* page came back to an event whose answers were still under way (currentEpoch).
ShownSinceSwitch ==
    row # None => /\ row.matches # {} => row.from = epoch
                  /\ row.orders.version > 0 => row.orders.epoch = epoch

\* The figures of one answer come from two reads; those of the fills are never older than
\* those of the row (_position_to_response).
FiguresInOrder == row # None => \A m \in row.matches : m.booked <= m.buys

\* The orders below a card are the orders of its position, although a refresh never clears
\* them (refreshPositionSection, refreshOrders).
OrdersOfTheCard ==
    (row # None /\ row.orders.version > 0) => row.selected # None /\ row.orders.of = row.selected.id

\* An order is only changed by a user who saw it as it was, under its position: however
\* late the list of orders or the update is, the order has not moved (update_order).
OnlyShownOrdersChanged ==
    applied # None => applied.hit = applied.card /\ applied.was = applied.listed

\* While the page stays, the card of a position never goes back to older figures.
CardNeverGoesBack ==
    [][(epoch' = epoch /\ row # None /\ row' # None /\ row.selected # None /\ row'.selected # None
        /\ row'.selected.id = row.selected.id) => row'.selected.version >= row.selected.version]_vars

\* The panel does not stay at "loading", whatever is lost (backendJsonFetch).
PanelSettles == []<>(row = None \/ (row.phase # "loading" /\ ~row.orders.loading))

\* A card shows its position as it is once its requests are answered, in the order they were
\* sent or in any other, and never one of another event (refreshPositionSection).
CardCurrent == PanelTypeOK /\ CaughtUp /\ ShownSinceSwitch /\ FiguresInOrder

\* The orders a user sees below a card, and acts on, are orders of that card as they are now
\* (refreshOrders, update_order).
OrdersSeen == OrdersOfTheCard /\ OnlyShownOrdersChanged
=============================================================================
