-------------------------- MODULE MCSportPipeline --------------------------
(* Small instances of SportPipeline for TLC: two teams, or two players, games  *)
(* that differ from a plain one in one respect, and boards of at most two       *)
(* events. Times are minutes from the start of the run.                         *)
EXTENDS SportPipeline

CONSTANTS junk

MCAbbreviates == {<<"bos", "boston">>}
MCAcronym == "ny" :> <<"new", "york">>

York == <<"new", "york">>
Ny == <<"ny">>
Boston == <<"boston">>
Bos == <<"bos">>
-----------------------------------------------------------------------------
(* Games *)

Mlb == [sport |-> "MLB", id |-> "g1", a |-> York, b |-> Boston, start |-> 100,
        detailed |-> "Scheduled", state |-> "Preview", pitchers |-> {"away", "home"}, round |-> None]
Tennis == [sport |-> "TENNIS", id |-> "g1", a |-> York, b |-> Boston, start |-> 100,
           detailed |-> None, state |-> "pre", pitchers |-> {}, round |-> "round 1"]

Second(g, t) == [g EXCEPT !.id = "g2", !.start = t]
OddMlbGames == {
    [Mlb EXCEPT !.detailed = "Cancelled"], [Mlb EXCEPT !.pitchers = {}],
    [Mlb EXCEPT !.start = None], [Mlb EXCEPT !.a = None], [Mlb EXCEPT !.start = 400],
    [Mlb EXCEPT !.detailed = "Delayed", !.state = "Other"]}
OddTennisMatches == {
    [Tennis EXCEPT !.round = "qualifying", !.start = 900], [Tennis EXCEPT !.round = "final", !.start = 400],
    [Tennis EXCEPT !.start = 400], [Tennis EXCEPT !.b = None]}
-----------------------------------------------------------------------------
(* Boards of the exchange *)

Market == [ticker |-> "m1", yes_sub_title |-> Ny, no_sub_title |-> Bos, readable |-> TRUE,
           ticker_time |-> 100, occurrence |-> 120, close |-> 400, expected |-> 400,
           yes_bid |-> 4800, yes_ask |-> 5000, no_bid |-> 5000, no_ask |-> 5200,
           last_price |-> 4900, volume |-> 40000, open_interest |-> None, absent |-> {}]
Event == [title |-> <<Ny, Bos>>, markets |-> <<Market>>, readable |-> TRUE]
With(m) == [Event EXCEPT !.markets = <<m>>]

OddMarkets == {
    [Market EXCEPT !.yes_ask = 4700], [Market EXCEPT !.yes_ask = 12000],
    [Market EXCEPT !.yes_ask = None, !.no_ask = None], [Market EXCEPT !.yes_ask = 4000, !.yes_bid = 3900],
    [Market EXCEPT !.yes_ask = Junk, !.volume = 100], [Market EXCEPT !.close = 50],
    [Market EXCEPT !.occurrence = None, !.ticker_time = None], [Market EXCEPT !.readable = FALSE]}
OddEvents == {
    [Event EXCEPT !.title = None], [Event EXCEPT !.title = <<Bos, Ny>>],
    [Event EXCEPT !.markets = <<[Market EXCEPT !.yes_sub_title = Bos, !.ticker = "m2"], Market>>],
    [Event EXCEPT !.markets = <<Market, [Market EXCEPT !.readable = FALSE]>>],
    [Event EXCEPT !.markets = <<>>], [Event EXCEPT !.readable = FALSE],
    [Event EXCEPT !.title = <<<<"new", "jersey">>, Bos>>]}

\* The two events of a double header, in the order that is wrong for the first game.
Later == With([Market EXCEPT !.ticker = "m2", !.ticker_time = 500, !.occurrence = 520, !.close = 900, !.expected = 900])
Boards == {<<With(m)>> : m \in OddMarkets} \cup {<<e>> : e \in OddEvents} 
          \cup {<<Later, Event>>, <<[Event EXCEPT !.markets = <<>>], Event>>}

Batch(list, board) == [sport |-> list[1].sport, games |-> list, events |-> board]
MCBatches ==
    {Batch(<<Mlb>>, board) : board \in Boards}
    \cup {Batch(<<g>>, <<Event>>) : g \in OddMlbGames \cup OddTennisMatches}
    \cup {Batch(<<Tennis>>, board) : board \in {<<Event>>, <<Event, Event>>}}
    \cup {Batch(<<Mlb, Second(Mlb, t)>>, board) : t \in {150, 500}, board \in {<<Event>>, <<Later, Event>>}}
    \cup {Batch(<<[Second(Tennis, 150) EXCEPT !.state = "post"], Tennis>>, <<Event>>),
          Batch(<<[Tennis EXCEPT !.round = "group stage"]>>, <<Event, Event>>)}
-----------------------------------------------------------------------------
(* Manifests: the one that is shipped, and one that refuses next to nothing *)

Shipped(sport) ==
    [sport |-> sport, hard_block_rules |-> BlockRules, hard_hold_rules |-> HoldRules,
     weights |-> DEFAULT_WEIGHTS, minimums |-> DEFAULT_MINIMUMS, lineup_minutes |-> 180,
     stale_minutes |-> 60, minimum_liquidity |-> 500, enter |-> One, watch |-> 0]
Lenient(sport) ==
    [Shipped(sport) EXCEPT !.hard_hold_rules = {}, !.minimums = [n \in ComponentNames |-> 0],
                           !.enter = 0]
Unusable == [Lenient("MLB") EXCEPT !.watch = 1]
MCManifests == {Shipped("MLB"), Lenient("MLB"), Unusable, Shipped("TENNIS"), Lenient("TENNIS")}

\* Odds of a favourite, of an outsider, and none.
MCOdds == {150, 320, None}

MCCalibrators == {[version |-> "c1", shift |-> -500]}
MCProbabilities == {4500, 7000}
MCDelays == {-1, 70}
=============================================================================
