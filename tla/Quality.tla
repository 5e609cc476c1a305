------------------------------- MODULE Quality -------------------------------
(* What a record and a prediction are worth: prices, edges and payoff, the     *)
(* quality score with the profile and the health made of it, calibration,      *)
(* evidence and explanation. Percentages are in hundredths, as scores are.     *)
EXTENDS Normalization
-----------------------------------------------------------------------------
(* Prices and signals *)

\* market_price_yes and market_price_no: no price under review, none out of range.
MarketPrice(r, side) ==
    LET ask == IF side = "YES" THEN r.market.yes_ask ELSE r.market.no_ask IN
        IF r.needs_review \/ Missing(ask) \/ ~InUnit(ask) THEN None ELSE ask

ModelProbability(p_yes, side) == IF side = "YES" THEN p_yes ELSE One - p_yes

Edge(r, p_yes, side) ==
    IF Missing(p_yes) \/ Missing(MarketPrice(r, side)) THEN None
    ELSE ModelProbability(p_yes, side) - MarketPrice(r, side)

\* compute_ev_yes_bruto and compute_ev_no_bruto: p (1 - q) - (1 - p) q.
EvBruto(r, p_yes, side) ==
    IF Missing(p_yes) \/ Missing(MarketPrice(r, side)) THEN None
    ELSE LET p == ModelProbability(p_yes, side)
             q == MarketPrice(r, side) IN (p * (One - q) - (One - p) * q) \div One

\* With a fee the net value is not implemented: it raises, and the builder of
\* the signal notes a fee that nobody expected.
NetRaises(r, ev) == Present(r.market.exchange_fee) /\ Present(ev)

\* The calibrated probability stands in for the raw one if there is one.
BuildSignalInputs(r, p_raw, p_calibrated, side) ==
    LET p == IF Present(p_calibrated) THEN p_calibrated ELSE p_raw
        ev == EvBruto(r, p, side) IN
        [event_id |-> r.event_id, sport |-> r.sport, side |-> side, p_model |-> p,
         market_price |-> MarketPrice(r, side), edge |-> Edge(r, p, side),
         ev_bruto |-> ev, ev_neto |-> None, fee_unexpected |-> NetRaises(r, ev)]

\* No fee schedule is evidenced, so that the net value is unknown throughout.
EstimatePayoff(r, side) ==
    [entry_price |-> MarketPrice(r, side), loss |-> MarketPrice(r, side),
     breakeven_probability |-> MarketPrice(r, side), payout |-> One,
     spread |-> IF side = "YES" THEN r.market.spread_yes ELSE r.market.spread_no,
     entry_fee |-> r.market.exchange_fee, ev_to_settlement |-> None]
-----------------------------------------------------------------------------
(* no_vig.py and odds_consensus.py *)

\* Odds are decimal, in hundredths. One over each is divided by the sum of both:
\* what is fair of a side is the share of the other side's odds.
Devig(yes, no) ==
    IF Missing(yes) \/ Missing(no) \/ yes <= 0 \/ no <= 0 THEN None
    ELSE [yes |-> (One * no) \div (yes + no), no |-> (One * yes) \div (yes + no)]

SourceQuality(count) == CASE count >= 3 -> "OK" [] count \in 1 .. 2 -> "PARTIAL" [] OTHER -> "FAILED"

\* The sources in the order of what they find fair for YES, those without odds left out.
ByFair(fair) ==
    LET counted == {k \in DOMAIN fair : Present(fair[k])} IN
    InOrder(counted, {p \in counted \X counted :
        \/ fair[p[1]].yes < fair[p[2]].yes
        \/ fair[p[1]].yes = fair[p[2]].yes /\ p[1] < p[2]})

\* A bookmaker counts only for a confident match and with both odds.
Consensus(configured, source, r, books) ==
    LET match == MatchEvent(source, [a |-> r.a, b |-> r.b, start |-> r.start], 90)
        fair == [k \in DOMAIN books |-> Devig(books[k].yes, books[k].no)]
        order == ByFair(fair)
        n == Len(order) IN
    CASE ~configured -> [yes |-> None, count |-> 0, quality |-> "NOT_CONFIGURED"]
      [] configured /\ ~IsConfident(match) -> [yes |-> None, count |-> 0, quality |-> "FAILED"]
      [] OTHER -> [yes |-> IF n = 0 THEN None
                           ELSE (fair[order[(n + 1) \div 2]].yes + fair[order[n \div 2 + 1]].yes) \div 2,
                   count |-> n, quality |-> SourceQuality(n)]
-----------------------------------------------------------------------------
(* quality_score.py, confidence_profile_builder.py, analysis_health.py *)

WEIGHTS == [data_completeness |-> 18, match_confidence_gap |-> 22, missing_critical |-> 18,
            bookmaker_dispersion |-> 15, sample_size |-> 10, market_liquidity |-> 7, freshness |-> 10]

Basis(r) == IF Present(r.market.volume) THEN r.market.volume ELSE r.market.open_interest

\* The pipelines pass no consensus: dispersion and sample size stay unknown.
Components(r, now) ==
    [data_completeness |-> r.completeness,
     match_confidence_gap |-> IF Missing(r.match_confidence) THEN None
        ELSE Clip((One * (r.match_confidence - EVENT_NAME_MATCH_MIN_CONFIDENCE))
                    \div (One - EVENT_NAME_MATCH_MIN_CONFIDENCE), 0, One),
     missing_critical |-> One - (One * Cardinality(r.missing \cap CORE_FIELDS)) \div Cardinality(CORE_FIELDS),
     bookmaker_dispersion |-> None,
     sample_size |-> None,
     market_liquidity |-> IF Missing(Basis(r)) THEN None ELSE Min({Basis(r) \div 5, One}),
     freshness |-> IF r.stamps = {} THEN None ELSE Clip(One - (One * (now - Oldest(r))) \div 60, 0, One)]

\* The weights of the components that are known are scaled up to the whole.
Weighted(values, weights) ==
    IF Total(weights, PresentIn(values)) <= 0 THEN None
    ELSE Total([n \in PresentIn(values) |-> weights[n] * values[n]], PresentIn(values))
            \div Total(weights, PresentIn(values))

QualityScore(r, now) ==
    [components |-> Components(r, now), confidence |-> Weighted(Components(r, now), WEIGHTS)]

MeanOfAvailable(values) ==
    IF PresentIn(values) = {} THEN None
    ELSE Total(values, PresentIn(values)) \div Cardinality(PresentIn(values))

\* Nothing rates the model yet; risk is what safety leaves.
ConfidenceProfile(q) ==
    [data_quality |-> q.components.data_completeness, model_reliability |-> None,
     market_quality |-> MeanOfAvailable([n \in {"bookmaker_dispersion", "sample_size", "market_liquidity"}
                                            |-> q.components[n]]),
     operational_safety |-> q.components.freshness,
     operational_risk |-> IF Missing(q.components.freshness) THEN None ELSE One - q.components.freshness,
     aggregate_confidence |-> q.confidence]

\* A stamp after now is refused when the health is built.
Staleness(r, now) == IF r.stamps = {} THEN None ELSE now - Oldest(r)
HealthRefused(r, now) == Present(Staleness(r, now)) /\ Staleness(r, now) < 0

AnalysisHealth(r, q, evidence, now) ==
    [completeness_signal |-> q.components.data_completeness,
     consistency_signal |-> q.components.bookmaker_dispersion,
     evidence_density |-> Cardinality(evidence), staleness |-> Staleness(r, now),
     warnings |-> (IF r.stamps = {} THEN {"no_timestamps"} ELSE {})
                    \cup (IF evidence = {} THEN {"no_evidence"} ELSE {})]
-----------------------------------------------------------------------------
(* calibration_layer.py, evidence_engine.py, explainability_engine.py *)

\* A calibrator moves the probability; without one, or without a probability,
\* nothing is calibrated and no version is claimed.
Calibrate(p_raw, calibrator) ==
    IF Missing(calibrator) \/ Missing(p_raw)
    THEN [p_model_raw |-> p_raw, p_model_calibrated |-> None, calibration_version |-> None]
    ELSE [p_model_raw |-> p_raw, p_model_calibrated |-> Clip(p_raw + calibrator.shift, 0, One),
          calibration_version |-> calibrator.version]

Evidence(field, direction) == [source_field |-> field, direction |-> direction]

CollectEvidence(r, calibration, profile, consensus) ==
    {e \in {Evidence("lineup_or_pitcher", "FOR"), Evidence("match_confidence", "AGAINST"),
            Evidence("model_reliability", "FOR"), Evidence("consensus", "AGAINST")} :
        CASE e.source_field = "lineup_or_pitcher" -> Present(r.lineup_or_pitcher)
          [] e.source_field = "match_confidence" -> Present(r.match_confidence) /\ r.match_confidence \in 7200 .. 8199
          [] e.source_field = "model_reliability" -> Present(profile.model_reliability) /\ profile.model_reliability > 5000
          [] e.source_field = "consensus" ->
                /\ Present(consensus) /\ Present(calibration.p_model_calibrated)
                /\ \/ calibration.p_model_calibrated - consensus > 1000
                   \/ consensus - calibration.p_model_calibrated > 1000}

Explain(decision, evidence, calibration_version, net_ev_unknown) ==
    [reasons |-> decision.reasons,
     for |-> {e.source_field : e \in {x \in evidence : x.direction = "FOR"}},
     against |-> {e.source_field : e \in {x \in evidence : x.direction = "AGAINST"}},
     disclaimers |-> (IF Missing(calibration_version) THEN {"uncalibrated"} ELSE {})
                        \cup (IF net_ev_unknown THEN {"net_ev_unknown"} ELSE {})]
=============================================================================
