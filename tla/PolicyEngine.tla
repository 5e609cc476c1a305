---------------------------- MODULE PolicyEngine ----------------------------
(* The decision on one side of one record: src/policy. Hard rules and          *)
(* eligibility first, then the score; whatever raises on the way is a decision  *)
(* too. Scores and minimums are in ten-thousandths, weights in hundredths.      *)
EXTENDS Quality

BlockRules == {"unsafe_matching", "invalid_event", "invalid_or_closed_market",
               "incompatible_contract", "corrupted_critical_data", "known_result",
               "non_recoverable_inconsistency"}
HoldRules == {"pending_lineup", "unconfirmed_pitcher", "temporarily_stale_data",
              "temporarily_insufficient_liquidity", "recoverable_missing_information",
              "unresolved_side_mapping"}

CriticalComponents == {"ev_neto_strength", "confidence_aggregate", "data_quality_floor",
                       "operational_safety_floor"}
ComponentNames == CriticalComponents \cup {"edge_strength"}

DEFAULT_WEIGHTS == [edge_strength |-> 20, ev_neto_strength |-> 30, confidence_aggregate |-> 30,
                    data_quality_floor |-> 10, operational_safety_floor |-> 10]
DEFAULT_MINIMUMS == [ev_neto_strength |-> Percent(50), confidence_aggregate |-> Percent(50),
                     data_quality_floor |-> Percent(40), operational_safety_floor |-> Percent(60)]

\* {**defaults, **given}
Over(given, defaults) ==
    [n \in DOMAIN defaults |-> IF n \in DOMAIN given THEN given[n] ELSE defaults[n]]
-----------------------------------------------------------------------------
(* validate_policy_manifest and the validator of PolicyManifest *)

ManifestValid(m) ==
    /\ m.hard_block_rules \subseteq BlockRules /\ m.hard_hold_rules \subseteq HoldRules
    /\ DOMAIN m.weights \subseteq ComponentNames /\ DOMAIN m.minimums \subseteq ComponentNames
    /\ \A n \in DOMAIN m.minimums : InUnit(m.minimums[n])
    /\ \A n \in DOMAIN m.weights : m.weights[n] >= 0
    /\ DOMAIN m.weights # {} => Total(m.weights, DOMAIN m.weights) > 0
    /\ m.lineup_minutes >= 0 /\ m.stale_minutes >= 0 /\ m.minimum_liquidity >= 0
    /\ InUnit(m.enter) /\ InUnit(m.watch) /\ m.enter >= m.watch
-----------------------------------------------------------------------------
(* hard_rules.py and eligibility.py *)

\* Bug variant: a result counts whenever it was recorded.
KnownResults_Any(r, cutoff, results) == {i \in DOMAIN results : results[i] = r.event_id}

\* The results of the event that were recorded up to the cutoff; one index per
\* result, in the order they were recorded.
KnownResults(r, cutoff, results) == {i \in DOMAIN results : i <= cutoff /\ results[i] = r.event_id}

Blocks(rule, r, cutoff, results) ==
    CASE rule = "unsafe_matching" ->
            \/ r.match_method \in {"NEEDS_REVIEW", "NO_MATCH"}
            \/ Present(r.match_confidence) /\ r.match_confidence < EVENT_NAME_MATCH_MIN_CONFIDENCE
      [] rule = "invalid_event" -> r.status = "CANCELLED"
      [] rule = "invalid_or_closed_market" ->
            \/ Missing(MarketPrice(r, "YES")) /\ Missing(MarketPrice(r, "NO"))
            \/ Present(r.settled)
      [] rule = "corrupted_critical_data" -> r.validation_errors \cap CORE_FIELDS # {}
      [] rule = "known_result" -> KnownResults(r, cutoff, results) # {}
      [] OTHER -> FALSE   \* incompatible_contract never; the last one is for exceptions

Holds(rule, r, health, now, m) ==
    CASE rule = "pending_lineup" ->
            /\ Missing(r.lineup_or_pitcher) /\ Present(r.start)
            /\ r.start >= now /\ r.start - now <= m.lineup_minutes
      [] rule = "unconfirmed_pitcher" -> r.sport = "MLB" /\ Missing(r.lineup_or_pitcher)
      [] rule = "temporarily_stale_data" -> Present(health.staleness) /\ health.staleness > m.stale_minutes
      [] rule = "temporarily_insufficient_liquidity" -> Present(Basis(r)) /\ Basis(r) < m.minimum_liquidity
      [] rule = "recoverable_missing_information" -> r.missing \ CORE_FIELDS # {}
      [] rule = "unresolved_side_mapping" ->
            \/ Missing(r.side_selection_confidence)
            \/ r.side_selection_confidence < EVENT_NAME_MATCH_MIN_CONFIDENCE

Ineligible(signal) == {f \in {"event_id", "sport", "side"} : Missing(signal[f])}
-----------------------------------------------------------------------------
(* soft_score.py *)

NormalizeSigned(x) == IF Missing(x) THEN None ELSE ((Clip(x, -3000, 3000) + 3000) * One) \div 6000

RawValues(signal, payoff, profile) ==
    [edge_strength |-> NormalizeSigned(signal.edge),
     ev_neto_strength |-> NormalizeSigned(payoff.ev_to_settlement),
     confidence_aggregate |-> MeanOfAvailable(
        [n \in {"data_quality", "model_reliability", "market_quality", "operational_safety"} |-> profile[n]]),
     data_quality_floor |-> profile.data_quality,
     operational_safety_floor |-> profile.operational_safety]

\* A minimum is passed only by a value that is known.
CriticalFailures(values, minimums) ==
    {n \in CriticalComponents : Missing(values[n]) \/ values[n] < minimums[n]}
-----------------------------------------------------------------------------
(* decision.py *)

Dispositions == {"NO_VALUE", "INSUFFICIENT_EVIDENCE", "INVALID_ANALYSIS", "MARKET_UNAVAILABLE",
                 "POLICY_REJECTED"}

Decision(signal, disposition, code, sources, triggered, aggregate) ==
    [signal_type |-> signal, disposition |-> disposition, code |-> code, reasons |-> sources,
     triggered |-> triggered, aggregate |-> aggregate]

InvalidAnalysis(source, triggered) ==
    Decision("PASS", "INVALID_ANALYSIS", "HARD_BLOCK", source, triggered, None)

\* ENTER and WATCH carry no disposition, PASS carries one; no decision is bare.
WellFormed(d) ==
    /\ d.reasons # {}
    /\ d.signal_type = "PASS" <=> Present(d.disposition)
    /\ d.signal_type = "ENTER" => d.triggered \cap BlockRules = {}

Score(signal, payoff, profile, m) ==
    LET values == RawValues(signal, payoff, profile)
        aggregate == Weighted(values, Over(m.weights, DEFAULT_WEIGHTS))
        failures == CriticalFailures(values, Over(m.minimums, DEFAULT_MINIMUMS))
        enough(threshold) == Present(aggregate) /\ aggregate >= threshold
        unknown == \E n \in failures : Missing(values[n])
        below == IF failures # {} /\ unknown THEN "INSUFFICIENT_EVIDENCE" ELSE "NO_VALUE" IN
    CASE enough(m.enter) /\ failures = {} ->
            Decision("ENTER", None, "ELIGIBLE_AND_SCORED", {"soft_score"}, {}, aggregate)
      [] ~(enough(m.enter) /\ failures = {}) /\ enough(m.watch) ->
            Decision("WATCH", None, IF failures # {} THEN "CRITICAL_MINIMUM_NOT_MET"
                                    ELSE "SOFT_SCORE_BELOW_GLOBAL", {"soft_score"}, {}, aggregate)
      [] OTHER -> Decision("PASS", below, IF failures # {} THEN "CRITICAL_MINIMUM_NOT_MET"
                                    ELSE "SOFT_SCORE_BELOW_GLOBAL", {"soft_score"}, {}, aggregate)

\* One block rejects; else one hold makes it WATCH; else the score decides.
DecideInner(r, signal, payoff, profile, health, cutoff, results, m, now) ==
    LET blocked == {rule \in m.hard_block_rules : Blocks(rule, r, cutoff, results)}
        held == {rule \in m.hard_hold_rules : Holds(rule, r, health, now, m)} IN
    CASE Ineligible(signal) # {} -> InvalidAnalysis({"eligibility"}, {})
      [] Ineligible(signal) = {} /\ blocked # {} ->
            Decision("PASS", "POLICY_REJECTED", "HARD_BLOCK", blocked, blocked, None)
      [] Ineligible(signal) = {} /\ blocked = {} /\ held # {} ->
            Decision("WATCH", None, "HARD_HOLD", held, held, None)
      [] OTHER -> Score(signal, payoff, profile, m)

\* decide never raises: a manifest that is not valid or of another sport, or a
\* history that cannot be read (results = None), gives a decision that says so.
Decide(r, signal, payoff, profile, health, cutoff, results, m, now) ==
    LET raised == InvalidAnalysis({"non_recoverable_inconsistency"}, {"non_recoverable_inconsistency"})
        d == DecideInner(r, signal, payoff, profile, health, cutoff, results, m, now) IN
    CASE ~ManifestValid(m) \/ m.sport # r.sport -> raised
      [] ManifestValid(m) /\ m.sport = r.sport /\ Missing(results) /\ Ineligible(signal) = {} -> raised
      [] OTHER -> IF WellFormed(d) THEN d ELSE raised
=============================================================================
