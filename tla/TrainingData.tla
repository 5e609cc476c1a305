---------------------------- MODULE TrainingData ----------------------------
(* What the models learn from: the append-only history that runs of the         *)
(* pipelines and synchronisations of results write while events start, end and  *)
(* are put off; the data sets, splits, folds and ratings read from it; and the  *)
(* training of the tennis baseline and of its calibrator while it grows.        *)
EXTENDS Features, TLC

CONSTANTS
    Live,           \* the events of the day, numbers
    Starts,         \* the moments, in minutes, they may be listed for
    Past,           \* for each sport the rows written on earlier days
    FeatureVersions, \* the versions of the features, the current one and older ones
    Syncs,          \* the processes that synchronise results
    Tick,           \* the minutes between two moments
    MaxClock,       \* the last moment
    MaxRuns,        \* how many runs of the pipeline the day may have
    ValidationFraction, TrainFraction,  \* percentages
    MinSamples, MinPartition,           \* what a training asks for
    CvFolds,        \* the folds of the calibrator
    MinTrain, TestBlock,                \* what a walk-forward test asks for
    Promise         \* what a difference of ratings promises, from some differences on

VARIABLES
    sport, clock,
    world,          \* [start, phase, began, winners] of each event of the day
    snapshots,      \* rows [event, sport, captured_at, start, status]
    features,       \* rows [event, sport, snapshot, version, cutoff, computed_at, rest]
    results,        \* rows [event, sport, result, recorded_at]
    seen,           \* what the run has fetched of each event and not saved yet
    sync,           \* what a synchronisation is about to record, or None
    base,           \* the tennis baseline: the events of its parts and its status, or None
    calibrated      \* the events its calibrator was fitted on, or None

history == <<snapshots, features, results>>
models == <<base, calibrated>>
vars == <<sport, clock, world, history, seen, sync, models>>

Sports == {"MLB", "TENNIS"}
EventStatus == {"SCHEDULED", "LIVE", "FINAL", "POSTPONED", "CANCELLED", "UNKNOWN"}
VALID_RESULTS == {"PARTICIPANT_A_WON", "PARTICIPANT_B_WON"}

\* The rows of the three tables.
SnapshotRow == [event : Int, sport : Sports, captured_at : Int, start : Int \cup {None}, status : EventStatus]
FeatureRow ==
    [event : Int, sport : Sports, snapshot : Nat, version : FeatureVersions, cutoff : Int, computed_at : Int,
     rest : Int \cup {None}]
ResultRow == [event : Int, sport : Sports, result : VALID_RESULTS \cup {"POSTPONED"}, recorded_at : Int]

\* Each row of features refers to a snapshot of its event, and was computed after it.
RowsRefer(snapshot_rows, feature_rows) ==
    \A i \in DOMAIN feature_rows :
        LET row == feature_rows[i] IN
        /\ row.snapshot \in DOMAIN snapshot_rows
        /\ snapshot_rows[row.snapshot].event = row.event
        /\ row.cutoff <= row.computed_at /\ snapshot_rows[row.snapshot].captured_at <= row.computed_at

ASSUME TrainingAssumption ==
    /\ IsFiniteSet(Live) /\ Live \subseteq Int /\ Starts \subseteq Int /\ IsFiniteSet(Syncs)
    /\ CURRENT_FEATURE_SET_VERSION \in FeatureVersions
    /\ Tick \in Nat /\ MaxClock \in Nat /\ MinTrain \in Nat /\ TestBlock \in Nat
    /\ ValidationFraction \in 0 .. 100 /\ TrainFraction \in 0 .. 100
    /\ IsFiniteSet(DOMAIN Promise) /\ DOMAIN Promise \subseteq Int
    /\ \A d \in DOMAIN Promise : Promise[d] \in 0 .. One

\* The earlier days wrote rows as this day does, of other events.
ASSUME PastAssumption ==
    /\ DOMAIN Past \subseteq Sports
    /\ \A s \in DOMAIN Past :
        /\ Past[s].snapshots \in Seq(SnapshotRow)
        /\ Past[s].features \in Seq(FeatureRow)
        /\ Past[s].results \in Seq(ResultRow)
        /\ RowsRefer(Past[s].snapshots, Past[s].features)
        /\ \A row \in UNION {ToSet(Past[s][table]) : table \in {"snapshots", "features", "results"}} : row.event \notin Live
        /\ \A row \in ToSet(Past[s].features) : Present(row.rest) => row.rest > 0
-----------------------------------------------------------------------------
Init ==
    /\ sport \in DOMAIN Past
    /\ clock = 0
    /\ world \in [Live -> [start : Starts, phase : {"pre"}, began : {None}, winners : {{}}]]
    /\ snapshots = Past[sport].snapshots
    /\ features = Past[sport].features
    /\ results = Past[sport].results
    /\ seen = <<>>
    /\ sync = [p \in Syncs |-> None]
    /\ base = None /\ calibrated = None

Later == clock + Tick <= MaxClock /\ clock' = clock + Tick
Wait == Later /\ UNCHANGED <<sport, world, history, seen, sync, models>>
-----------------------------------------------------------------------------
(* The events, as the sources report them *)

Becomes(e, w) == world' = [world EXCEPT ![e] = w]

\* A match waits for the one before it; nothing is moved to an earlier hour.
Reschedule(e) ==
    /\ world[e].phase = "pre"
    /\ \E t \in Starts : t > world[e].start /\ Becomes(e, [world[e] EXCEPT !.start = t])
    /\ UNCHANGED <<sport, clock, history, seen, sync, models>>

Begin(e) ==
    /\ world[e].phase = "pre" /\ clock >= world[e].start
    /\ Becomes(e, [world[e] EXCEPT !.phase = "live", !.began = clock])
    /\ UNCHANGED <<sport, clock, history, seen, sync, models>>

\* The source flags a winner, or nobody, or both.
End(e) ==
    /\ world[e].phase = "live"
    /\ \E w \in SUBSET Sides : Becomes(e, [world[e] EXCEPT !.phase = "over", !.winners = w])
    /\ UNCHANGED <<sport, clock, history, seen, sync, models>>

\* A game is put off, or a match is broken off.
PutOff(e) ==
    /\ world[e].phase = IF sport = "MLB" THEN "pre" ELSE "live"
    /\ Becomes(e, [world[e] EXCEPT !.phase = "off"])
    /\ UNCHANGED <<sport, clock, history, seen, sync, models>>

\* A game that was put off has a new hour.
Resume(e) ==
    /\ world[e].phase = "off" /\ sport = "MLB"
    /\ \E t \in Starts : t > clock /\ Becomes(e, [world[e] EXCEPT !.phase = "pre", !.start = t])
    /\ UNCHANGED <<sport, clock, history, seen, sync, models>>
-----------------------------------------------------------------------------
(* A run of the pipeline, one at a time: fetch every event, then save each *)

Status(phase) ==
    CASE phase = "pre" -> "SCHEDULED" [] phase = "live" -> "LIVE" [] phase = "over" -> "FINAL"
      [] phase = "off" -> IF sport = "MLB" THEN "POSTPONED" ELSE "FINAL"

\* The starts of the other matches on record. One player plays all of them.
HistoryIndex(e) ==
    {snapshots[i].start : i \in {k \in DOMAIN snapshots : snapshots[k].sport = "TENNIS" /\ snapshots[k].event # e}} \ {None}

Rest(w, e, cutoff) ==
    IF sport = "MLB" THEN None
    ELSE ComputeTennisFeatures([start |-> w.start, status |-> Status(w.phase), round |-> None],
            [side \in Sides |-> HistoryIndex(e)], cutoff).rest_days["participant_a"]

Fetch ==
    /\ seen = <<>> /\ Len(snapshots) < Len(Past[sport].snapshots) + MaxRuns * Cardinality(Live)
    /\ seen' = [e \in Live |-> [start |-> world[e].start, status |-> Status(world[e].phase),
                                cutoff |-> clock, rest |-> Rest(world[e], e, clock)]]
    /\ Later
    /\ UNCHANGED <<sport, world, history, sync, models>>

EventSnapshot(e) ==
    [event |-> e, sport |-> sport, captured_at |-> clock, start |-> seen[e].start, status |-> seen[e].status]

FeatureSnapshot(e, snapshot) ==
    [event |-> e, sport |-> sport, snapshot |-> snapshot, version |-> CURRENT_FEATURE_SET_VERSION,
     cutoff |-> seen[e].cutoff, computed_at |-> clock, rest |-> seen[e].rest]

\* Tennis saves all its rows in one transaction, baseball game after game.
Batch == Ascending(IF sport = "MLB" THEN {Min(DOMAIN seen)} ELSE DOMAIN seen)

SaveEventSnapshots == snapshots' = snapshots \o [i \in DOMAIN Batch |-> EventSnapshot(Batch[i])]

Save ==
    /\ seen # <<>>
    /\ SaveEventSnapshots
    /\ features' = features \o [i \in DOMAIN Batch |-> FeatureSnapshot(Batch[i], Len(snapshots) + i)]
    /\ seen' = Restrict(seen, DOMAIN seen \ ToSet(Batch))
    /\ UNCHANGED <<sport, clock, world, results, sync, models>>

\* The run dies: what it fetched is lost. A baseball run may die between the two
\* commits of a game, and leave a snapshot without features.
Die ==
    /\ seen # <<>> /\ seen' = <<>>
    /\ UNCHANGED snapshots \/ (sport = "MLB" /\ SaveEventSnapshots)
    /\ UNCHANGED <<sport, clock, world, features, results, sync, models>>
-----------------------------------------------------------------------------
(* A synchronisation of results: read the source and the history, then record *)

Sole(winners) ==
    CASE winners = {"participant_a"} -> "PARTICIPANT_A_WON"
      [] winners = {"participant_b"} -> "PARTICIPANT_B_WON"
      [] OTHER -> None

\* Bug variant: the first side that is flagged has won.
MapResult_FirstFlag(w) ==
    CASE w.phase = "over" /\ "participant_a" \in w.winners -> "PARTICIPANT_A_WON"
      [] w.phase = "over" /\ w.winners = {"participant_b"} -> "PARTICIPANT_B_WON"
      [] w.phase = "off" /\ sport = "MLB" -> "POSTPONED"
      [] OTHER -> None

\* Only a sole winner is a result; baseball also records what was put off.
MapResult(w) ==
    CASE w.phase = "over" -> Sole(w.winners)
      [] w.phase = "off" /\ sport = "MLB" -> "POSTPONED"
      [] OTHER -> None

GetResults(e) == {i \in DOMAIN results : results[i].event = e}

\* The source shows a result, and the history has none.
SyncLook(p, e) ==
    /\ sync[p] = None /\ MapResult(world[e]) # None /\ GetResults(e) = {}
    /\ sync' = [sync EXCEPT ![p] = [event |-> e, result |-> MapResult(world[e])]]
    /\ UNCHANGED <<sport, clock, world, history, seen, models>>

SyncWrite(p) ==
    /\ Present(sync[p])
    /\ results' = Append(results, [event |-> sync[p].event, sport |-> sport, result |-> sync[p].result,
                                   recorded_at |-> clock])
    /\ sync' = [sync EXCEPT ![p] = None]
    /\ UNCHANGED <<sport, clock, world, snapshots, features, seen, models>>
-----------------------------------------------------------------------------
(* Data sets. A sample is the number of its row of features *)

\* The result recorded last; of two of one moment, the first.
LatestResult(e) ==
    LET at == {results[i].recorded_at : i \in GetResults(e)} IN
    IF at = {} THEN None ELSE results[Min({i \in GetResults(e) : results[i].recorded_at = Max(at)})]

\* What both builders ask of a row of features, in their order.
Labelled(i, of) ==
    LET row == features[i]
        result == LatestResult(row.event) IN
    CASE row.sport # of -> "wrong_sport"
      [] row.sport = of /\ row.version # CURRENT_FEATURE_SET_VERSION -> "wrong_version"
      [] OTHER -> CASE Missing(result) -> "no_result"
                    [] Present(result) /\ row.computed_at >= result.recorded_at -> "leakage"
                    [] OTHER -> IF result.result \in VALID_RESULTS THEN "valid" ELSE "non_binary_result"

Violations(i) ==
    LET row == features[i]
        context == snapshots[row.snapshot] IN
    PreeventViolations(context.start, context.status, row.cutoff, row.computed_at,
                       context.captured_at, MIN_SNAPSHOT_LEAD_MINUTES)

\* Where tennis puts a row that has a label.
Preevent(i) ==
    LET v == Violations(i) IN
    CASE v = {} -> IF Present(features[i].rest) /\ features[i].rest < 0 THEN "negative_rest_days" ELSE "valid"
      [] "MISSING_START_TIME" \in v -> "missing_start_time"
      [] "STATUS_NOT_SCHEDULED" \in v -> "status_not_scheduled"
      [] v = {"INSUFFICIENT_LEAD"} -> "insufficient_lead"
      [] OTHER -> "not_before_event_start"

\* The last one computed of each event, by number if they are of one moment.
SelectOneSnapshotPerEvent(rows) ==
    {i \in rows : \A k \in rows : features[k].event = features[i].event =>
        \/ features[k].computed_at < features[i].computed_at
        \/ features[k].computed_at = features[i].computed_at /\ k <= i}

Fate(i) ==
    IF Labelled(i, sport) # "valid" \/ sport = "MLB" THEN Labelled(i, sport) ELSE Preevent(i)

\* Bug variant: what is put aside for its event is not counted.
BuildDataset_NotCounted ==
    LET valid == {i \in DOMAIN features : Fate(i) = "valid"}
        samples == IF sport = "MLB" THEN valid ELSE SelectOneSnapshotPerEvent(valid) IN
    [samples |-> samples,
     exclusions |-> [r \in {Fate(i) : i \in DOMAIN features} \ {"valid"} |->
                        Cardinality({i \in DOMAIN features : Fate(i) = r})],
     superseded_same_event |-> 0]

\* build_mlb_training_dataset and build_tennis_training_dataset.
BuildDataset ==
    LET valid == {i \in DOMAIN features : Fate(i) = "valid"}
        samples == IF sport = "MLB" THEN valid ELSE SelectOneSnapshotPerEvent(valid) IN
    [samples |-> samples,
     exclusions |-> [r \in {Fate(i) : i \in DOMAIN features} \ {"valid"} |->
                        Cardinality({i \in DOMAIN features : Fate(i) = r})],
     superseded_same_event |-> Cardinality(valid \ samples)]

Label(i) == IF LatestResult(features[i].event).result = "PARTICIPANT_A_WON" THEN 1 ELSE 0
EventsOf(samples) == {features[i].event : i \in samples}
SamplesOf(samples, events) == {i \in samples : features[i].event \in events}

\* backtesting/dataset.py takes both sports by the rules of baseball.
BacktestRows == {i \in DOMAIN features : Labelled(i, features[i].sport) = "valid"}
-----------------------------------------------------------------------------
(* Splits *)

\* Python rounds a half to the even neighbour.
RoundPercent(n, percent) ==
    LET product == n * percent
        low == product \div 100
        rest == product % 100 IN
    IF rest > 50 \/ (rest = 50 /\ low % 2 = 1) THEN low + 1 ELSE low

\* The events of the samples in the order of key, then of their numbers.
EventOrder(samples, key) ==
    LET events == EventsOf(samples)
        first == [e \in events |-> Min({key[i] : i \in SamplesOf(samples, {e})})] IN
    InOrder(events, {p \in events \X events :
        first[p[1]] < first[p[2]] \/ (first[p[1]] = first[p[2]] /\ p[1] < p[2])})

ComputedAt == [i \in DOMAIN features |-> features[i].computed_at]
EventStart == [i \in DOMAIN features |-> snapshots[features[i].snapshot].start]

\* The events that entered the history last are held out, one at least.
SplitDatasetTemporally(samples) ==
    LET order == EventOrder(samples, ComputedAt)
        n == Len(order)
        held == IF n > 1 THEN Clip(RoundPercent(n, ValidationFraction), 1, n - 1) ELSE 0 IN
    [train |-> SamplesOf(samples, ToSet(SubSeq(order, 1, n - held))),
     validation |-> SamplesOf(samples, ToSet(SubSeq(order, n - held + 1, n)))]

Sizes(n) ==
    [train |-> RoundPercent(n, TrainFraction), validation |-> RoundPercent(n, ValidationFraction),
     test |-> n - RoundPercent(n, TrainFraction) - RoundPercent(n, ValidationFraction)]

SplitPossible(n) == \A part \in DOMAIN Sizes(n) : Sizes(n)[part] >= 1

\* Three parts, by the start of the events.
SplitEventsTemporally(samples) ==
    LET order == EventOrder(samples, EventStart)
        size == Sizes(Len(order))
        Part(first, n) == SamplesOf(samples, ToSet(SubSeq(order, first, first + n - 1))) IN
    [train |-> Part(1, size.train), validation |-> Part(size.train + 1, size.validation),
     test |-> Part(size.train + size.validation + 1, size.test)]
-----------------------------------------------------------------------------
(* Walk-forward folds: training up to a boundary, a test on the block after it *)

Ordered ==
    LET Key(i) == <<ComputedAt[i], features[i].event, i>>
        Below(u, v) == u[1] < v[1] \/ (u[1] = v[1] /\ (u[2] < v[2] \/ (u[2] = v[2] /\ u[3] < v[3]))) IN
    InOrder(BacktestRows, {p \in BacktestRows \X BacktestRows : Below(Key(p[1]), Key(p[2]))})

\* Bug variant: rows of one moment fall on both sides.
Widened_Not(rows, end) == end

\* The end moves on until rows of one moment are on one side.
Widened(rows, end) ==
    IF end = 0 \/ end >= Len(rows) THEN end
    ELSE CHOOSE w \in end .. Len(rows) :
            /\ \A k \in end .. w - 1 : ComputedAt[rows[k + 1]] = ComputedAt[rows[k]]
            /\ w = Len(rows) \/ ComputedAt[rows[w + 1]] # ComputedAt[rows[w]]

\* Where the training of each fold ends, from the first fold on.
TrainEnds(rows) ==
    LET n == Len(rows)
        step[k \in 0 .. n] ==
            IF k = 0 THEN Widened(rows, MinTrain)
            ELSE IF step[k - 1] >= n THEN n
            ELSE Widened(rows, Widened(rows, Min({step[k - 1] + TestBlock, n}))) IN
    {step[k] : k \in 0 .. n} \ {end \in 0 .. Max({n, MinTrain}) : end >= n}

\* A fold without a row to train on ends the walk.
Folds ==
    LET rows == Ordered IN
    {[train |-> ToSet(SubSeq(rows, 1, end)),
      test |-> ToSet(SubSeq(rows, end + 1, Widened(rows, Min({end + TestBlock, Len(rows)})))),
      boundary |-> ComputedAt[rows[end]]] : end \in TrainEnds(rows) \ {0}}

\* The rows of the history that the repository of a fold has.
ScopedSnapshots(boundary) == {i \in DOMAIN snapshots : snapshots[i].captured_at <= boundary}
ScopedFeatures(boundary) ==
    {i \in DOMAIN features : features[i].computed_at <= boundary /\ features[i].snapshot \in ScopedSnapshots(boundary)}
ScopedResults(boundary) == {i \in DOMAIN results : results[i].recorded_at <= boundary}
-----------------------------------------------------------------------------
(* Elo ratings: baseball only, each event once, by its first snapshot *)

INITIAL_RATING == 1500
K == 20
HOME_ADVANTAGE == 25

EloGames ==
    LET first == [e \in {snapshots[i].event : i \in {k \in DOMAIN snapshots : snapshots[k].sport = "MLB"}} |->
                     snapshots[Min({i \in DOMAIN snapshots : snapshots[i].event = e})]]
        usable == {e \in DOMAIN first :
                     /\ Present(LatestResult(e)) /\ Present(first[e].start)
                     /\ LatestResult(e).result \in VALID_RESULTS} IN
    InOrder(usable, {p \in usable \X usable :
        first[p[1]].start < first[p[2]].start \/ (first[p[1]].start = first[p[2]].start /\ p[1] < p[2])})

\* The teams of an event: two teams that meet again and again, at home by turns.
Away(e) == IF e % 2 = 0 THEN "x" ELSE "y"
Home(e) == IF e % 2 = 0 THEN "y" ELSE "x"

\* The promise grows with the difference.
Expected(d) ==
    LET reached == {t \in DOMAIN Promise : t <= d} IN
    IF reached = {} THEN 0 ELSE Promise[Max(reached)]

\* What the visitors gain is what the home team loses.
Rated(ratings, e) ==
    LET home == ratings[Home(e)] + HOME_ADVANTAGE
        actual == IF LatestResult(e).result = "PARTICIPANT_A_WON" THEN One ELSE 0
        delta == (K * (actual - Expected(ratings[Away(e)] - home))) \div One IN
    [ratings EXCEPT ![Away(e)] = @ + delta, ![Home(e)] = @ - delta]

EloRatings ==
    LET games == EloGames
        after[n \in 0 .. Len(games)] ==
            IF n = 0 THEN [t \in {"x", "y"} |-> INITIAL_RATING] ELSE Rated(after[n - 1], games[n]) IN
    after[Len(games)]
-----------------------------------------------------------------------------
(* Training of the tennis baseline and of its calibrator *)

\* Enough events, three parts that are large enough, both outcomes to learn.
Trainable(samples) ==
    /\ Cardinality(samples) >= MinSamples
    /\ SplitPossible(Cardinality(EventsOf(samples)))
    /\ LET split == SplitEventsTemporally(samples) IN
        /\ \A part \in DOMAIN split : Cardinality(split[part]) >= MinPartition
        /\ {Label(i) : i \in split.train} = {0, 1}

\* Whether it beats the rate of the training on the test decides its status.
TrainTennisBaseline ==
    /\ sport = "TENNIS" /\ base = None
    /\ Trainable(BuildDataset.samples)
    /\ LET split == SplitEventsTemporally(BuildDataset.samples) IN
       \E beats_baseline \in BOOLEAN :
        base' = [train |-> EventsOf(split.train), validation |-> EventsOf(split.validation),
                 test |-> EventsOf(split.test),
                 candidate_status |-> IF beats_baseline THEN "PROMOTION_ELIGIBLE" ELSE "REJECTED_CANDIDATE"]
    /\ UNCHANGED <<sport, clock, world, history, seen, sync, calibrated>>

\* The events that the artifact names, as the history shows them now.
ValidationSamples == SamplesOf(BuildDataset.samples, base.validation)

\* A model that did not beat the baseline is never loaded.
TrainTennisCalibrator ==
    /\ Present(base) /\ base.candidate_status = "PROMOTION_ELIGIBLE" /\ calibrated = None
    /\ Cardinality(EventsOf(ValidationSamples)) >= CvFolds
    /\ {Label(i) : i \in ValidationSamples} = {0, 1}
    /\ calibrated' = EventsOf(ValidationSamples)
    /\ UNCHANGED <<sport, clock, world, history, seen, sync, base>>
-----------------------------------------------------------------------------
(* Reports on the history *)

\* Events that have several results: different ones, or one again and again.
ConflictingResults ==
    {e \in {results[i].event : i \in DOMAIN results} : Cardinality({results[i].result : i \in GetResults(e)}) > 1}

ExactDuplicates ==
    LET alike == {results[i].event : i \in DOMAIN results} \ ConflictingResults IN
    Total([e \in alike |-> Cardinality(GetResults(e)) - 1], alike)

GateReport ==
    [feature_snapshots_total |-> Cardinality({i \in DOMAIN features :
        features[i].sport = sport /\ features[i].version = CURRENT_FEATURE_SET_VERSION}),
     coverage_labeled_count |-> Cardinality(BuildDataset.samples)]
-----------------------------------------------------------------------------
Next ==
    \/ \E e \in Live : Reschedule(e) \/ Begin(e) \/ End(e) \/ PutOff(e) \/ Resume(e)
    \/ Fetch \/ Save \/ Die
    \/ \E p \in Syncs : SyncWrite(p) \/ \E e \in Live : SyncLook(p, e)
    \/ TrainTennisBaseline \/ TrainTennisCalibrator
    \/ Wait

Spec == Init /\ [][Next]_vars
-----------------------------------------------------------------------------
(* Properties *)

Samples == BuildDataset.samples

\* The rows refer to rows that are there, and the moments of a row are in the order
\* in which a run reaches them (history_repository.py; its foreign keys).
TrainingTypeOK ==
    /\ clock \in 0 .. MaxClock
    /\ \A e \in Live : world[e].phase \in {"pre", "live", "over", "off"} /\ world[e].winners \subseteq Sides
    /\ RowsRefer(snapshots, features)
    /\ \A i \in DOMAIN results : results[i].result \in VALID_RESULTS \cup {"POSTPONED"}
    /\ \A p \in Syncs : Present(sync[p]) => sync[p].event \in Live

\* A tennis model learns one sample of an event, and whatever was rescheduled since, the
\* sample was computed before the match began: build_tennis_training_dataset judges the
\* row by the start that was known then.
TennisLearnsFromBefore ==
    sport = "TENNIS" => \A i \in Samples :
        /\ \A k \in Samples : features[k].event = features[i].event => k = i
        /\ features[i].event \in Live =>
            Missing(world[features[i].event].began) \/ features[i].computed_at < world[features[i].event].began

\* What a sample is labelled with is what happened: exactly one side was flagged and
\* it is the one (_map_match_result, _map_game_result and both builders), however often
\* an event was put off before and however many synchronisations recorded it.
LabelsTrue ==
    \A i \in Samples : features[i].event \in Live =>
        world[features[i].event].winners = {IF Label(i) = 1 THEN "participant_a" ELSE "participant_b"}

\* The gate report (gate_report.py) says how many rows of the current version there are:
\* each is a sample, or is excluded for one reason, or gave way to a later one.
ReportBalances ==
    LET data == BuildDataset
        counted == Total(data.exclusions, DOMAIN data.exclusions \ {"wrong_sport", "wrong_version"}) IN
    GateReport.feature_snapshots_total =
        GateReport.coverage_labeled_count + counted + data.superseded_same_event

\* The split of baseball keeps an event on one side with all its samples, puts something
\* on each side, and holds out the events that entered the history last
\* (split_dataset_temporally: an event has a sample for every hour it was listed).
SplitKeepsEventsWhole ==
    LET split == SplitDatasetTemporally(Samples)
        Entered(e) == Min({ComputedAt[i] : i \in SamplesOf(Samples, {e})}) IN
    /\ split.train \cup split.validation = Samples
    /\ Cardinality(EventsOf(Samples)) > 1 => split.train # {} /\ split.validation # {}
    /\ EventsOf(split.train) \cap EventsOf(split.validation) = {}
    /\ \A e \in EventsOf(split.train), f \in EventsOf(split.validation) : Entered(e) <= Entered(f)

\* The three parts of tennis share no event and no match of a later part starts before
\* one of an earlier part (split_events_temporally).
PartsInOrder ==
    (sport = "TENNIS" /\ SplitPossible(Cardinality(EventsOf(Samples)))) =>
        LET split == SplitEventsTemporally(Samples)
            Before(first, second) ==
                /\ EventsOf(first) \cap EventsOf(second) = {}
                /\ \A i \in first, k \in second : EventStart[i] <= EventStart[k] IN
        /\ Before(split.train, split.validation) /\ Before(split.validation, split.test)
        /\ split.train \cup split.validation \cup split.test = Samples

\* Where every event has one result, a fold (walk_forward_splits) is blind: its
\* repository holds no row it is tested on and no result of an event it is tested on,
\* and it holds every row the fold counts as training.
FoldsBlind ==
    (\A e \in {results[i].event : i \in DOMAIN results} : Cardinality(GetResults(e)) = 1) =>
        \A fold \in Folds :
            /\ fold.test \cap ScopedFeatures(fold.boundary) = {}
            /\ fold.train \subseteq ScopedFeatures(fold.boundary)
            /\ \A i \in ScopedResults(fold.boundary) : results[i].event \notin EventsOf(fold.test)

\* The calibrator is fitted on events of the validation part of its base model, however
\* the history grew between the two trainings (_resolve_validation_samples).
CalibratorUnseen ==
    Present(calibrated) =>
        /\ calibrated \subseteq base.validation
        /\ calibrated \cap (base.train \cup base.test) = {}

\* Two synchronisations without a lock record a result twice, at most once each
\* (sync_mlb_results.py, sync_tennis_results.py: they look before they insert).
OneResultPerSync ==
    \A e \in Live : Cardinality(GetResults(e)) <= Cardinality(Syncs)

\* The audit of labels (label_quality_audit.py) finds what they left: where the rows
\* are more than the events, it reports a conflict or counts a duplicate.
DuplicatesReported ==
    Len(results) > Cardinality({results[i].event : i \in DOMAIN results}) =>
        ConflictingResults # {} \/ ExactDuplicates > 0

\* A result moves points from one team to the other and makes none (mlb_elo.py).
EloZeroSum == EloRatings["x"] + EloRatings["y"] = 2 * INITIAL_RATING

\* The previous match is earlier: no row has rest days that are zero or negative, so the
\* data set never has to exclude one for it (compute_rest_days).
RestPositive ==
    \A i \in DOMAIN features : Present(features[i].rest) => features[i].rest > 0

\* Bounded inputs of the features of a pitcher: logs of up to four starts.
Start(date, earned, outs) == [date |-> date, earned |-> earned, outs |-> outs, innings |-> None, on_base |-> earned]
Logs == LET game == {Start(d, r, 18) : d \in -2 .. 0, r \in {0, 2}} IN UNION {[1 .. n -> game] : n \in 3 .. 4}
Raw(payload, at) == [payload |-> payload, captured_at |-> at]
PitcherStart == [date : Int, earned : Int, outs : Int, innings : {None}, on_base : Int]

ASSUME MissingAssumption ==
    /\ None \notin Int \cup VALID_RESULTS /\ None \notin Seq(PitcherStart)
    /\ None \notin [payload : Seq(PitcherStart), captured_at : Int]

Earlier(log, date) ==
    LET kept == Ascending({i \in DOMAIN log : log[i].date < date}) IN [n \in DOMAIN kept |-> log[kept[n]]]

\* The form of a pitcher is what it was the day before: the games of the day of the
\* cutoff, among them the one to predict, change nothing, and what is captured at the
\* cutoff or after it is not used (compute_pitcher_form_last5, _extract_game_log_entries).
FeaturesFromThePast ==
    history = <<Past[sport].snapshots, Past[sport].features, Past[sport].results>> /\ clock = 0 =>
        \A log \in Logs :
            /\ Form(Raw(log, -1), 0) = Form(Raw(Earlier(log, 0), -1), 0)
            /\ BullpenEra([r \in {"r"} |-> Raw(log, 0)], 0) = None

\* No row is lost between the tables and the reports: what a data set takes in or leaves out
\* adds up to the rows it read, and results recorded twice are few and reported.
ResultsCounted == ReportBalances /\ OneResultPerSync /\ DuplicatesReported

\* What a model, a fold or a calibrator is tested on was not seen by it: no event lies on both
\* sides of a split, and the history that grew between two trainings moves none across.
NothingTestedIsSeen == SplitKeepsEventsWhole /\ PartsInOrder /\ FoldsBlind /\ CalibratorUnseen

\* The features a training reads are those of the days before: neither the rest days nor the
\* form of a pitcher contain the game they are to predict, and a rating only moves points.
InputsSound == TrainingTypeOK /\ RestPositive /\ FeaturesFromThePast /\ EloZeroSum
=============================================================================
