---------------------------- MODULE Normalization ----------------------------
(* From what the sources answer to the record the pipelines decide upon:       *)
(* src/normalization, src/quality and apply_kalshi_match. Times are minutes    *)
(* from a fixed instant. The text of a validation error is reduced to the      *)
(* field it names, which is all that a hard rule looks for.                     *)
EXTENDS Matching

CONSTANT Junk   \* a raw value that is neither empty nor a number

Prices == {"yes_bid", "yes_ask", "no_bid", "no_ask"}
MarketTimes == {"market_close_time", "expected_settlement_time"}

\* quality/completeness.py
CORE_FIELDS == {"start_time", "status", "participant_a", "participant_b"} \cup Prices \cup MarketTimes
TENNIS_EXTRA_FIELDS ==
    {"ranking_a", "ranking_b", "surface", "last_5", "h2h", "aces", "first_serve_pct"}
MLB_EXTRA_FIELDS ==
    {"away_pitcher", "home_pitcher", "batting_order", "pitcher_stats", "injuries"}
MARKET_DEPENDENT_FIELDS == Prices \cup MarketTimes

Expected(sport) == CORE_FIELDS \cup (IF sport = "TENNIS" THEN TENNIS_EXTRA_FIELDS ELSE MLB_EXTRA_FIELDS)

\* The order of the missing fields and their repetitions do not matter: the code
\* removes the latter, and a set has none.
CompletenessScore(missing, sport) ==
    One - (One * Cardinality(missing \cap Expected(sport))) \div Cardinality(Expected(sport))
-----------------------------------------------------------------------------
(* Markets *)

Parse(raw) == IF raw = Junk THEN None ELSE raw
Spread(ask, bid) == IF Present(ask) /\ Present(bid) THEN ask - bid ELSE None

\* No fee and no settlement is ever read: the first stays None, the second is
\* always missing as well.
NormalizeKalshiMarket(m) ==
    [market |-> [yes_bid |-> Parse(m.yes_bid), yes_ask |-> Parse(m.yes_ask),
                 no_bid |-> Parse(m.no_bid), no_ask |-> Parse(m.no_ask),
                 last_price |-> Parse(m.last_price),
                 spread_yes |-> Spread(Parse(m.yes_ask), Parse(m.yes_bid)),
                 spread_no |-> Spread(Parse(m.no_ask), Parse(m.no_bid)),
                 volume |-> Parse(m.volume), open_interest |-> Parse(m.open_interest),
                 exchange_fee |-> None],
     market_id |-> m.ticker,
     close |-> Parse(m.close), expected |-> Parse(m.expected), settled |-> None,
     missing |-> {f \in Prices \cup {"last_price"} : Missing(m[f])}
        \cup (IF Missing(m.occurrence) THEN {"start_time"} ELSE {})
        \cup (IF Missing(m.close) THEN {"market_close_time"} ELSE {})
        \cup (IF Missing(m.expected) THEN {"expected_settlement_time"} ELSE {})
        \cup {"fee_type", "actual_settlement_time"}]

NoMarket == [yes_bid |-> None, yes_ask |-> None, no_bid |-> None, no_ask |-> None,
             last_price |-> None, spread_yes |-> None, spread_no |-> None,
             volume |-> None, open_interest |-> None, exchange_fee |-> None]
-----------------------------------------------------------------------------
(* Games and matches *)

MLB_STATUS == [Preview |-> "SCHEDULED", Live |-> "LIVE", Final |-> "FINAL",
               Postponed |-> "POSTPONED", Cancelled |-> "CANCELLED"]
ESPN_STATE == [pre |-> "SCHEDULED", in |-> "LIVE", post |-> "FINAL"]

\* The detailed state counts if it is known, else the abstract one.
MlbStatus(g) ==
    CASE g.detailed \in DOMAIN MLB_STATUS -> MLB_STATUS[g.detailed]
      [] g.detailed \notin DOMAIN MLB_STATUS /\ g.state \in DOMAIN MLB_STATUS -> MLB_STATUS[g.state]
      [] OTHER -> "UNKNOWN"
EspnStatus(g) == IF g.state \in DOMAIN ESPN_STATE THEN ESPN_STATE[g.state] ELSE "UNKNOWN"

Blank(g) ==
    [sport |-> g.sport, event_id |-> g.id, start |-> Parse(g.start), a |-> g.a, b |-> g.b,
     status |-> "UNKNOWN", lineup_or_pitcher |-> None,
     market |-> NoMarket, market_id |-> None, close |-> None, expected |-> None, settled |-> None,
     match_confidence |-> None, match_method |-> None, needs_review |-> FALSE,
     side_selection_confidence |-> None,
     missing |-> {}, validation_errors |-> {}, stamps |-> {}, completeness |-> None]

\* lineup_or_pitcher is a dictionary in any case, of pitchers that may be None.
NormalizeMlbGame(g, boxscore, stats) ==
    [Blank(g) EXCEPT
        !.status = MlbStatus(g),
        !.lineup_or_pitcher = [probable |-> g.pitchers,
                               batting_order |-> boxscore = "orders"],
        !.missing = {"form", "matchup_h2h", "injuries"}
            \cup (IF "away" \in g.pitchers THEN {} ELSE {"away_pitcher"})
            \cup (IF "home" \in g.pitchers THEN {} ELSE {"home_pitcher"})
            \cup (CASE boxscore = "orders" -> {}
                    [] boxscore = "empty" -> {"batting_order"}
                    [] boxscore = "none" -> {"boxscore"})
            \cup (IF stats = {} THEN {"pitcher_stats"} ELSE {})
            \cup {"mlb." \o f : f \in {n \in {"a", "b", "start"} : Missing(g[n])}}]

\* Every tennis variable starts out missing.
NormalizeEspnTennisMatch(g) ==
    [Blank(g) EXCEPT
        !.status = EspnStatus(g),
        !.missing = TENNIS_EXTRA_FIELDS
            \cup {"espn_tennis." \o f : f \in {n \in {"a", "b", "start"} : Missing(g[n])}}]

\* enrich_with_sofascore_stats: what it finds is no longer missing.
EnrichWithSofascore(r, found) == [r EXCEPT !.missing = @ \ found]
-----------------------------------------------------------------------------
(* apply_kalshi_match *)

\* Bug variant: the best candidate is attached however uncertain.
ApplyKalshiMatch_Unconfirmed(r, match) ==
    LET n == NormalizeKalshiMarket(match.market) IN
    IF Missing(match.market)
    THEN [r EXCEPT !.match_confidence = match.result.confidence, !.match_method = match.result.method,
                   !.needs_review = match.result.needs_review, !.missing = @ \cup {"market_id"}]
    ELSE [r EXCEPT !.match_confidence = match.result.confidence, !.match_method = match.result.method,
                   !.needs_review = match.result.needs_review,
                   !.market = n.market, !.market_id = n.market_id, !.close = n.close,
                   !.expected = n.expected, !.settled = n.settled,
                   !.side_selection_confidence = match.side_confidence,
                   !.missing = @ \cup n.missing]

\* validate_schema_sanity names the raw key, which holds the name of its price.
SchemaErrors(m) == m.absent

\* Market data are attached for a confident match alone. A candidate that is not
\* confirmed leaves the fields of the market missing; no candidate does not.
ApplyKalshiMatch(r, match) ==
    LET judged == [r EXCEPT !.match_confidence = match.result.confidence,
                            !.match_method = match.result.method,
                            !.needs_review = match.result.needs_review]
        n == NormalizeKalshiMarket(match.market) IN
    CASE Missing(match.market) -> [judged EXCEPT !.missing = @ \cup {"market_id"}]
      [] Present(match.market) /\ ~IsConfident(match.result) ->
            [judged EXCEPT !.missing = @ \cup {"market_id"} \cup MARKET_DEPENDENT_FIELDS]
      [] OTHER -> [judged EXCEPT !.validation_errors = @ \cup SchemaErrors(match.market),
                                 !.market = n.market, !.market_id = n.market_id,
                                 !.close = n.close, !.expected = n.expected, !.settled = n.settled,
                                 !.side_selection_confidence = match.side_confidence,
                                 !.missing = @ \cup n.missing]

\* Without events of the exchange there is nothing to match against.
WithoutEvents(r) == [r EXCEPT !.needs_review = TRUE, !.missing = @ \cup {"market_id"}]
-----------------------------------------------------------------------------
(* quality/validators.py *)

InUnit(p) == p >= 0 /\ p <= One
PriceErrors(r) == {f \in Prices \cup {"last_price"} : Present(r.market[f]) /\ ~InUnit(r.market[f])}

Crossed(ask, bid) == Present(ask) /\ Present(bid) /\ ask < bid
SpreadErrors(r) ==
    (IF Crossed(r.market.yes_ask, r.market.yes_bid) THEN {"yes_ask"} ELSE {})
    \cup (IF Crossed(r.market.no_ask, r.market.no_bid) THEN {"no_ask"} ELSE {})

Before(t, u) == Present(t) /\ Present(u) /\ t < u
TimeErrors(r) ==
    (IF Before(r.close, r.start) THEN {"market_close_time"} ELSE {})
    \cup (IF Present(r.start) /\ Before(r.expected, r.start - 60)
          THEN {"expected_settlement_time"} ELSE {})

ParticipantErrors(r) ==
    (IF Missing(r.a) THEN {"participant_a"} ELSE {})
    \cup (IF Missing(r.b) THEN {"participant_b"} ELSE {})
    \cup (IF Present(r.a) /\ r.a = r.b THEN {"participant_a"} ELSE {})

Oldest(r) == Min(r.stamps)
StalenessErrors(r, now) == IF r.stamps # {} /\ now - Oldest(r) > 60 THEN {"stale"} ELSE {}

ValidateRecord(r, now) ==
    PriceErrors(r) \cup SpreadErrors(r) \cup TimeErrors(r) \cup ParticipantErrors(r)
    \cup StalenessErrors(r, now)

\* The end of the loop of both pipelines: the errors of the match are replaced.
Finish(r, stamps, now) ==
    LET dated == [r EXCEPT !.stamps = stamps,
                           !.completeness = CompletenessScore(r.missing, r.sport)] IN
        [dated EXCEPT !.validation_errors = ValidateRecord(dated, now)]

\* Bug variant: the first record of each market is left alone.
AnnotateDuplicateMarkets_Later(records) ==
    [i \in DOMAIN records |->
        IF Present(records[i].market_id) /\ \E j \in DOMAIN records : j < i /\ records[j].market_id = records[i].market_id
        THEN [records[i] EXCEPT !.validation_errors = @ \cup {"duplicate"}] ELSE records[i]]

\* Every record whose market another record of the batch has too.
AnnotateDuplicateMarkets(records) ==
    [i \in DOMAIN records |->
        IF Present(records[i].market_id)
           /\ \E j \in DOMAIN records : j # i /\ records[j].market_id = records[i].market_id
        THEN [records[i] EXCEPT !.validation_errors = @ \cup {"duplicate"}] ELSE records[i]]
=============================================================================
