---------------------------- MODULE SportPipeline ----------------------------
(* One run for one sport: run_mlb_pipeline or run_tennis_pipeline, then         *)
(* run_decision_pipeline on the records it made. The sources answer or fail,    *)
(* results are recorded, calibrators promoted and time passes meanwhile; an     *)
(* exception that nothing catches, or a crash, aborts the run.                  *)
EXTENDS PolicyEngine

CONSTANTS
    Batches,        \* what a schedule and the exchange may hold: [sport, games, events]
    Manifests,      \* the policy manifests
    Calibrators,    \* [version, shift]: the calibrators that may be promoted
    Probabilities,  \* what the model may predict for YES
    Odds,           \* what a bookmaker may offer on a side
    Limit,          \* the run takes the first Limit games
    Delays,         \* how far the clock may move at once
    MaxDisturbances \* how many delays, results, promotions and failures one run may meet

\* What the program relies on in the answers of others: names are lists of tokens, times and
\* prices are numbers once parsed, an event has a list of markets, a ticker is of one event.
IsList(s) == Len(s) \in Nat /\ s = [i \in 1 .. Len(s) |-> s[i]]
IsName(name) == name = None \/ IsList(name)
IsNumber(t) == t \in Int \cup {None}

MarketSound(m) ==
    /\ m # None /\ m.ticker # None
    /\ IsName(m.yes_sub_title) /\ IsName(m.no_sub_title)
    /\ IsNumber(m.ticker_time) /\ IsNumber(m.occurrence)
    /\ IsNumber(Parse(m.yes_ask)) /\ IsNumber(Parse(m.no_ask))

EventSound(e) ==
    /\ e.title = None \/ (IsName(e.title[1]) /\ IsName(e.title[2]))
    /\ IsList(e.markets) /\ \A i \in DOMAIN e.markets : MarketSound(e.markets[i])

BatchSound(b) ==
    /\ IsList(b.games) /\ \A i \in DOMAIN b.games :
        IsName(b.games[i].a) /\ IsName(b.games[i].b) /\ IsNumber(Parse(b.games[i].start))
    /\ IsList(b.events) /\ \A i \in DOMAIN b.events : EventSound(b.events[i])
    /\ \A e, f \in ToSet(b.events) :
        \A m \in ToSet(e.markets), n \in ToSet(f.markets) : m.ticker = n.ticker => e = f

ASSUME PipelineAssumption ==
    /\ \A b \in Batches : BatchSound(b)
    /\ Limit \in Nat
    /\ Probabilities \subseteq Int /\ \A c \in Calibrators : c.shift \in Int
    /\ Odds \ {None} \subseteq Int
    /\ None \notin Dispositions \cup {"model"} /\ None \notin Int
    /\ None \notin {<<"a">>, <<"b">>} /\ None \notin [yes : Int, no : Int]

VARIABLES
    batch, manifest,
    stage,          \* what the run does next; "done", or "aborted" by an exception
    games, events,  \* the games to go through; what the exchange listed, None if it failed
    records,        \* the records made so far, one per game
    cutoffs,        \* how many results were recorded when the features of each were captured
    rows,           \* for each record the rows committed: its record, its snapshot, its features
    artifact,       \* the version of the model, if one is trained
    now, known,     \* the time of the decision and the number of results then
    next,           \* the record and the side to decide upon; side "context" comes first
    probability, calibration,   \* the context of the record
    memo,           \* the calibrators loaded in this run, by model version
    summary,        \* [created, errors, before, no_market]
    evaluations,    \* what was saved, in order
    clock, results, promoted,   \* the world: the time, the results on record, the calibrator
    disturbances    \* how many it met so far

input == <<batch, manifest, games, events>>
made == <<records, cutoffs>>
context == <<probability, calibration, memo>>
decided == <<summary, evaluations>>
world == <<clock, results, promoted>>
vars == <<input, stage, made, rows, artifact, now, known, next, context, decided, world, disturbances>>

Running == stage \notin {"done", "aborted"}
Disturbed == disturbances < MaxDisturbances /\ disturbances' = disturbances + 1
-----------------------------------------------------------------------------
Init ==
    /\ batch \in Batches
    /\ manifest \in {m \in Manifests : m.sport = batch.sport}
    /\ stage = "schedule"
    /\ games = <<>> /\ events = None
    /\ records = <<>> /\ cutoffs = <<>> /\ rows = <<>>
    /\ artifact = None /\ now = None /\ known = None
    /\ next = [record |-> 1, side |-> "context"]
    /\ probability = None
    /\ calibration = Calibrate(None, None)
    /\ memo = [v \in {} |-> None]
    /\ summary = [created |-> 0, errors |-> 0, before |-> 0, no_market |-> 0]
    /\ evaluations = <<>>
    /\ clock = 0 /\ results = <<>>
    /\ promoted \in Calibrators \cup {None}
    /\ disturbances = 0
-----------------------------------------------------------------------------
(* The schedule and the exchange *)

\* Tennis lists what is still to be played, or is being played, first.
IsUpcoming(g) == g.state \in {"pre", "in"}
ListedBefore(b, i, j) ==
    IF b.sport = "TENNIS" /\ IsUpcoming(b.games[i]) # IsUpcoming(b.games[j])
    THEN IsUpcoming(b.games[i]) ELSE i < j
Orders(b) ==
    {p \in [DOMAIN b.games -> DOMAIN b.games] :
        \A i, j \in DOMAIN b.games : i < j => ListedBefore(b, p[i], p[j])}

\* Without a schedule the run makes no record, and there is nothing to decide.
FetchSchedule ==
    /\ stage = "schedule"
    /\ \/ /\ \E p \in Orders(batch) :
                games' = [k \in 1 .. Min({Limit, Len(batch.games)}) |-> batch.games[p[k]]]
          /\ stage' = "events" /\ UNCHANGED disturbances
       \/ /\ Disturbed
          /\ stage' = "load" /\ UNCHANGED games
    /\ UNCHANGED <<batch, manifest, events, made, rows, artifact, now, known, next, context, decided, world>>

\* No answer of the exchange leaves no events, and the run goes on.
FetchEvents ==
    /\ stage = "events"
    /\ \/ events' = batch.events /\ UNCHANGED disturbances
       \/ Disturbed /\ events' = <<>>
    /\ stage' = "records"
    /\ UNCHANGED <<batch, manifest, games, made, rows, artifact, now, known, next, context, decided, world>>
-----------------------------------------------------------------------------
(* One game at a time: fetch, normalise, match, judge *)

IsQualifying(g) == g.round = "qualifying"
UsesStructuralPair(g) == g.sport = "TENNIS" /\ (IsQualifying(g) \/ g.round = "group stage")
Tolerance(g) ==
    CASE g.sport = "MLB" -> 90
      [] g.sport = "TENNIS" /\ (g.round \in {"quarterfinal", "semifinal", "final"} \/ IsQualifying(g)) -> 330
      [] OTHER -> 240

\* What the box score and the pitchers' statistics answer; tennis asks for
\* statistics of which it keeps nothing.
Answers(g) == IF g.sport = "MLB" THEN {<<"orders", g.pitchers>>, <<"none", {}>>} ELSE {<<"none", {}>>}
Normalized(g, answer) ==
    IF g.sport = "MLB" THEN NormalizeMlbGame(g, answer[1], answer[2])
    ELSE EnrichWithSofascore(NormalizeEspnTennisMatch(g), {})

Candidate(g, r) ==
    LET source == [a |-> r.a, b |-> r.b, start |-> r.start] IN
    IF UsesStructuralPair(g) THEN ResolvePairByStructure(source, events)
    ELSE FindBestKalshiEvent(source, events, Tolerance(g))

\* Whether a market of the chosen event has no shape that can be read.
ChoiceRaises(r, candidate) ==
    events # <<>> /\ Present(candidate.event) /\ SelectionRaises(candidate.event, r.a)

Prepared(r, candidate) ==
    Finish(IF events = <<>> THEN WithoutEvents(r) ELSE ApplyKalshiMatch(r, candidate), {0}, clock)

Current == games[Len(records) + 1]

PrepareRecord ==
    /\ stage = "records" /\ Len(records) < Len(games)
    /\ \E r \in {Normalized(Current, answer) : answer \in Answers(Current)} :
        LET candidate == Candidate(Current, r) IN
        \/ /\ ChoiceRaises(r, candidate)
           /\ stage' = "aborted" /\ UNCHANGED made
        \/ /\ ~ChoiceRaises(r, candidate)
           /\ records' = Append(records, Prepared(r, candidate))
           /\ cutoffs' = Append(cutoffs, Len(results))
           /\ UNCHANGED stage
    /\ UNCHANGED <<input, rows, artifact, now, known, next, context, decided, world, disturbances>>

AnnotateRecords ==
    /\ stage = "records" /\ Len(records) = Len(games)
    /\ records' = AnnotateDuplicateMarkets(records)
    /\ rows' = [i \in DOMAIN records |-> 0]
    /\ stage' = "persist"
    /\ UNCHANGED <<input, cutoffs, artifact, now, known, next, context, decided, world, disturbances>>
-----------------------------------------------------------------------------
(* Persistence: each record has its row, then its snapshot, then its features *)

Complete == 3
Unwritten == {i \in DOMAIN rows : rows[i] < Complete}

\* Baseball commits every row on its own.
PersistMlb ==
    /\ stage = "persist" /\ batch.sport = "MLB" /\ Unwritten # {}
    /\ rows' = [rows EXCEPT ![Min(Unwritten)] = @ + 1]
    /\ UNCHANGED <<input, stage, made, artifact, now, known, next, context, decided, world, disturbances>>

\* Tennis commits them all in one transaction.
PersistTennis ==
    /\ stage = "persist" /\ batch.sport = "TENNIS" /\ Unwritten # {}
    /\ rows' = [i \in DOMAIN rows |-> Complete]
    /\ UNCHANGED <<input, stage, made, artifact, now, known, next, context, decided, world, disturbances>>

Persisted ==
    /\ stage = "persist" /\ Unwritten = {}
    /\ stage' = "load"
    /\ UNCHANGED <<input, made, rows, artifact, now, known, next, context, decided, world, disturbances>>
-----------------------------------------------------------------------------
(* run_decision_pipeline *)

\* One instant serves every decision of the run.
LoadArtifact ==
    /\ stage = "load"
    /\ artifact' \in {None, "model"}
    /\ now' = clock /\ known' = Len(results)
    /\ stage' = "decide"
    /\ UNCHANGED <<input, made, rows, next, context, decided, world, disturbances>>

Record == records[next.record]
HasRecord == stage = "decide" /\ next.record \in DOMAIN records
NextRecord == [record |-> next.record + 1, side |-> "context"]

SkipWithoutMarket ==
    /\ HasRecord /\ next.side = "context" /\ Missing(Record.market_id)
    /\ summary' = [summary EXCEPT !.no_market = @ + 1]
    /\ next' = NextRecord
    /\ UNCHANGED <<input, stage, made, rows, artifact, now, known, context, evaluations, world, disturbances>>

\* Bug variant: the calibrator is loaded for every record.
Calibrator_Reloaded == promoted

\* What calibrates the prediction of this model: what the run loaded before, or
\* else what is promoted now.
Calibrator == IF artifact \in DOMAIN memo THEN memo[artifact] ELSE promoted

BuildContext ==
    /\ HasRecord /\ next.side = "context" /\ Present(Record.market_id)
    /\ \E p \in IF Missing(artifact) THEN {None} ELSE Probabilities :
        /\ probability' = p
        /\ calibration' = Calibrate(p, IF Missing(artifact) THEN None ELSE Calibrator)
    /\ memo' = IF Missing(artifact) THEN memo
               ELSE [v \in DOMAIN memo \cup {artifact} |-> IF v = artifact THEN Calibrator ELSE memo[v]]
    /\ next' = [next EXCEPT !.side = "YES"]
    /\ UNCHANGED <<input, stage, made, rows, artifact, now, known, decided, world, disturbances>>

\* The model, or the store of calibrators, raises: this record is left out.
ContextRaises ==
    /\ HasRecord /\ next.side = "context" /\ Present(Record.market_id)
    /\ Disturbed
    /\ summary' = [summary EXCEPT !.before = @ + 1]
    /\ next' = NextRecord
    /\ UNCHANGED <<input, stage, made, rows, artifact, now, known, context, evaluations, world>>

AfterSide == IF next.side = "YES" THEN [next EXCEPT !.side = "NO"] ELSE NextRecord

\* evaluate_opportunity up to the decision; history is None if it cannot be read.
Evaluation(side, history) ==
    LET r == Record
        quality == QualityScore(r, now)
        profile == ConfidenceProfile(quality)
        signal == BuildSignalInputs(r, probability, calibration.p_model_calibrated, side)
        payoff == EstimatePayoff(r, side)
        evidence == CollectEvidence(r, calibration, profile, None)
        health == AnalysisHealth(r, quality, evidence, now)
        decision == Decide(r, signal, payoff, profile, health, cutoffs[next.record], history, manifest, now) IN
    [record |-> next.record, side |-> side, signal |-> signal, decision |-> decision,
     model_version |-> artifact, calibration_version |-> calibration.calibration_version,
     explanation |-> Explain(decision, evidence, calibration.calibration_version,
                             Missing(payoff.ev_to_settlement))]

EvaluateSide ==
    /\ HasRecord /\ next.side # "context" /\ ~HealthRefused(Record, now)
    /\ \E history \in {results, None} :
        /\ evaluations' = Append(evaluations, Evaluation(next.side, history))
        /\ IF history = None THEN Disturbed ELSE UNCHANGED disturbances
    /\ summary' = [summary EXCEPT !.created = @ + 1]
    /\ next' = AfterSide
    /\ UNCHANGED <<input, stage, made, rows, artifact, now, known, context, world>>

\* Bug variant: a side counts as saved although it was not.
SideRaises_Created ==
    /\ HasRecord /\ next.side # "context"
    /\ \/ HealthRefused(Record, now) /\ UNCHANGED disturbances
       \/ ~HealthRefused(Record, now) /\ Disturbed
    /\ summary' = [summary EXCEPT !.created = @ + 1]
    /\ next' = AfterSide
    /\ UNCHANGED <<input, stage, made, rows, artifact, now, known, context, evaluations, world>>

\* The clock was set back since the sources answered, or a write fails.
SideRaises ==
    /\ HasRecord /\ next.side # "context"
    /\ \/ HealthRefused(Record, now) /\ UNCHANGED disturbances
       \/ ~HealthRefused(Record, now) /\ Disturbed
    /\ summary' = [summary EXCEPT !.errors = @ + 1]
    /\ next' = AfterSide
    /\ UNCHANGED <<input, stage, made, rows, artifact, now, known, context, evaluations, world>>

Finished ==
    /\ stage = "decide" /\ next.record \notin DOMAIN records
    /\ stage' = "done"
    /\ UNCHANGED <<input, made, rows, artifact, now, known, next, context, decided, world, disturbances>>
-----------------------------------------------------------------------------
(* The world *)

Abort ==
    /\ Running /\ Disturbed
    /\ stage' = "aborted"
    /\ UNCHANGED <<input, made, rows, artifact, now, known, next, context, decided, world>>

\* The synchronisation of results records one of an event of the batch.
RecordResult ==
    /\ Running /\ Disturbed
    /\ \E g \in ToSet(batch.games) : results' = Append(results, g.id)
    /\ UNCHANGED <<input, stage, made, rows, artifact, now, known, next, context, decided, clock, promoted>>

\* An operator promotes a calibrator, or withdraws the one there is.
Promote ==
    /\ Running /\ Disturbed
    /\ promoted' \in (Calibrators \cup {None}) \ {promoted}
    /\ UNCHANGED <<input, stage, made, rows, artifact, now, known, next, context, decided, clock, results>>

\* The calls take time; the clock may also be set back.
Wait ==
    /\ Running /\ Disturbed
    /\ \E d \in Delays : clock' = clock + d
    /\ UNCHANGED <<input, stage, made, rows, artifact, now, known, next, context, decided, results, promoted>>

Ended == ~Running /\ UNCHANGED vars

Next ==
    \/ FetchSchedule \/ FetchEvents \/ PrepareRecord \/ AnnotateRecords
    \/ PersistMlb \/ PersistTennis \/ Persisted
    \/ LoadArtifact \/ SkipWithoutMarket \/ BuildContext \/ ContextRaises
    \/ EvaluateSide \/ SideRaises \/ Finished
    \/ Abort \/ RecordResult \/ Promote \/ Wait \/ Ended

Spec == Init /\ [][Next]_vars
-----------------------------------------------------------------------------
(* Properties *)

\* The state is well formed (run_mlb_pipeline, run_tennis_pipeline,
\* run_decision_pipeline): one cutoff per record, one counter of rows for each
\* record that is persisted, only known versions, only decisions that are whole.
PipelineTypeOK ==
    /\ stage \in {"schedule", "events", "records", "persist", "load", "decide", "done", "aborted"}
    /\ Len(cutoffs) = Len(records) /\ Len(records) <= Len(games)
    /\ rows = <<>> \/ (DOMAIN rows = DOMAIN records /\ \A i \in DOMAIN rows : rows[i] \in 0 .. Complete)
    /\ DOMAIN memo \subseteq {"model"} /\ \A v \in DOMAIN memo : memo[v] \in Calibrators \cup {None}
    /\ \A i \in DOMAIN evaluations :
        /\ evaluations[i].record \in DOMAIN records /\ WellFormed(evaluations[i].decision)

\* Whatever was listed, a record that is evaluated is on a market of an event
\* whose two names agree with its own, each in at least the required measure,
\* and no other event of the answer agrees better at an admissible time
\* (find_best_kalshi_event, apply_kalshi_match).
EvaluatedOnTheBestMatch ==
    \A i \in DOMAIN evaluations :
        LET r == records[evaluations[i].record]
            g == games[evaluations[i].record]
            score(e) == ParticipantsSimilarity(r.a, r.b, Target(e).a, Target(e).b).score
            admissible(e) == UsesStructuralPair(g) \/ TimeOk(r.start, Target(e).start, Tolerance(g)) IN
        \E e \in ToSet(events) :
            /\ r.market_id \in {m.ticker : m \in ToSet(e.markets)}
            /\ score(e) >= EVENT_NAME_MATCH_MIN_CONFIDENCE /\ admissible(e)
            /\ \A f \in ToSet(events) : Readable(f) /\ admissible(f) => score(f) <= score(e)

\* A game whose names and time agree with an event that can be read gets a
\* market: an event of the same teams at another time, listed before, does not
\* hide the right one (the halved confidence of match_event). Only an event that
\* was listed without markets could, were it to agree as well.
RightEventNotHidden ==
    \A i \in DOMAIN records :
        LET r == records[i]
            right(e) ==
                /\ Readable(e) /\ e.markets # <<>>
                /\ TimeOk(r.start, Target(e).start, Tolerance(games[i]))
                /\ ParticipantsSimilarity(r.a, r.b, Target(e).a, Target(e).b).score
                        >= EVENT_NAME_MATCH_MIN_CONFIDENCE IN
        /\ ~UsesStructuralPair(games[i])
        /\ \E e \in ToSet(events) : right(e)
        /\ \A e \in ToSet(events) : Readable(e) => e.markets # <<>>
        => r.market_id # None

\* The two games of a double header never share a market when they start more
\* than twice the tolerance apart and the start of the event is known, although
\* each is matched on its own and their names are the same (match_event).
FarApartNeverShareAMarket ==
    \A i, j \in DOMAIN records :
        /\ records[i].start # None /\ records[j].start # None
        /\ records[i].start - records[j].start > Tolerance(games[i]) + Tolerance(games[j])
        /\ ~UsesStructuralPair(games[i]) /\ ~UsesStructuralPair(games[j])
        /\ records[i].market_id # None
        /\ \A e \in ToSet(events) : EventStart(e) # None
        => records[i].market_id # records[j].market_id

\* Of two records on one market both are marked once the run goes on to persist
\* them: the validation of the later one does not wipe the mark of the earlier
\* (annotate_duplicate_markets).
SharedMarketsMarked ==
    stage \in {"persist", "load", "decide", "done"} =>
        \A i, j \in DOMAIN records :
            i # j /\ records[i].market_id # None /\ records[i].market_id = records[j].market_id
                => "duplicate" \in records[i].validation_errors

\* A game whose result was on record when its features were captured is never
\* offered: both sides are PASS, although the results are read again, later,
\* when the side is decided (check_known_result, data_cutoff_timestamp).
KnownResultNeverOffered ==
    \A k \in DOMAIN evaluations :
        LET i == evaluations[k].record IN
        (\E n \in DOMAIN results : n <= cutoffs[i] /\ results[n] = records[i].event_id)
        /\ "known_result" \in manifest.hard_block_rules
            => evaluations[k].decision.signal_type = "PASS"

\* A result recorded after the features were captured does not reject the
\* record: the decision looks at nothing younger than its own data.
LaterResultNotUsed ==
    \A k \in DOMAIN evaluations :
        "known_result" \in evaluations[k].decision.triggered =>
            \E n \in DOMAIN results :
                n <= cutoffs[evaluations[k].record] /\ results[n] = records[evaluations[k].record].event_id

\* As long as the net value of a position is unknown, no manifest lets a run
\* say ENTER, however lenient its minimums and thresholds are (decide_soft).
NeverEnter == \A k \in DOMAIN evaluations : evaluations[k].decision.signal_type # "ENTER"

\* Both sides of one record are judged on one probability: they can both seem
\* worth more than they cost only if the two asks together cost less than what
\* the market pays (compute_edge_yes, compute_edge_no).
EdgesCoherent ==
    \A k, l \in DOMAIN evaluations :
        /\ evaluations[k].record = evaluations[l].record
        /\ evaluations[k].side = "YES" /\ evaluations[l].side = "NO"
        /\ evaluations[k].signal.edge # None /\ evaluations[l].signal.edge # None
        /\ evaluations[k].signal.edge > 0 /\ evaluations[l].signal.edge > 0
        => evaluations[k].signal.market_price + evaluations[l].signal.market_price < One

\* All records that one run predicts with one model are calibrated alike,
\* although calibrators are promoted and withdrawn meanwhile (calibrator_memo).
OneCalibrationPerModel ==
    \A k, l \in DOMAIN evaluations :
        evaluations[k].model_version = evaluations[l].model_version =>
            evaluations[k].calibration_version = evaluations[l].calibration_version

\* What cannot be bought or must not be judged is rejected even if there is a
\* reason to wait as well: a block goes before a hold (_decide_inner).
BlockedNeverHeld ==
    \A k \in DOMAIN evaluations :
        LET r == records[evaluations[k].record] IN
        manifest.hard_block_rules = BlockRules /\
        (r.status = "CANCELLED" \/ r.validation_errors \cap CORE_FIELDS # {}
            \/ (r.market.yes_ask = None /\ r.market.no_ask = None))
            => evaluations[k].decision.signal_type = "PASS"

\* Wherever a run stops, tennis has left all the rows of its batch or none, and
\* baseball has left whole games, one begun at most, and none after that one.
RowsTogether ==
    /\ batch.sport = "TENNIS" => Cardinality(ToSet(rows)) <= 1
    /\ \A i, j \in DOMAIN rows : i < j /\ rows[j] > 0 => rows[i] = Complete

\* What the run reports adds up: every record is counted once, as one without a
\* market, as one left out, or by its two sides, saved or not.
SummaryBalances ==
    stage = "done" =>
        /\ summary.created + summary.errors + 2 * (summary.before + summary.no_market) = 2 * Len(records)
        /\ summary.created = Len(evaluations)

\* The consensus of up to three bookmakers lies among what each of them thinks
\* fair, and names the same favourite if the sides change places; what it says
\* of the sides adds up to the whole (compute_consensus_no_vig). No run calls it,
\* so it is looked at where the run of one batch starts.
ConsensusAgrees ==
    disturbances = 0 /\ stage = "schedule" /\ batch = (CHOOSE b \in Batches : TRUE)
    => \A books \in [1 .. 3 -> [yes : Odds, no : Odds]] :
        LET plain == [a |-> <<"a">>, b |-> <<"b">>, start |-> 0]
            said == Consensus(TRUE, plain, plain, books).yes
            turned == Consensus(TRUE, plain, plain, [k \in 1 .. 3 |-> [yes |-> books[k].no, no |-> books[k].yes]]).yes
            fair == {Devig(books[k].yes, books[k].no) : k \in 1 .. 3} \ {None} IN
        /\ fair = {} <=> said = None
        /\ fair # {} => /\ \E f \in fair : f.yes <= said
                        /\ \E f \in fair : f.yes >= said
                        /\ said + turned \in One - 2 .. One

\* Games of the same teams are told apart: the event of one is not hidden by another, games
\* far apart never get the same market, and where two records do get one, both are marked
\* (match_event, annotate_duplicate_markets).
MarketsApart == RightEventNotHidden /\ FarApartNeverShareAMarket /\ SharedMarketsMarked

\* A decision rests on what was known at the cutoff, no less and no more, a block goes before
\* a hold, and nothing is entered while the net value is unknown (hard_rules, decide).
DecisionsSound == KnownResultNeverOffered /\ LaterResultNotUsed /\ BlockedNeverHeld /\ NeverEnter

\* The probabilities of one run fit together: those of the two sides of a record, those of
\* one model in all its records, and the consensus of the bookmakers with each of them.
ProbabilitiesCoherent == EdgesCoherent /\ OneCalibrationPerModel /\ ConsensusAgrees

\* Whatever raises and wherever a run stops, the rows of a record are there together, and
\* what the run reports counts each record once.
RunAccounted == PipelineTypeOK /\ RowsTogether /\ SummaryBalances
=============================================================================
