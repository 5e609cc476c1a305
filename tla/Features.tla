------------------------------ MODULE Features ------------------------------
(* What the models are fed: the features of a game or a match, computed from   *)
(* what was captured before a cutoff, and the columns they become. Rates are in *)
(* ten-thousandths, innings are counted in outs, times in minutes.              *)
EXTENDS Values, SequencesExt

Day == 1440
Sides == {"participant_a", "participant_b"}
CURRENT_FEATURE_SET_VERSION == "phase2_registry_v1"
-----------------------------------------------------------------------------
(* preevent_snapshots.py *)

MIN_SNAPSHOT_LEAD_MINUTES == 60

\* Bug variant: a match that has begun is as good as one that has not.
PreeventViolations_AnyTime(start, status, cutoff, computed_at, captured_at, lead) ==
    IF Missing(start) THEN {"MISSING_START_TIME"}
    ELSE {v \in {"STATUS_NOT_SCHEDULED"} : status # "SCHEDULED"}

\* Without a start there is nothing else to say; a moment that is None is not judged.
PreeventViolations(start, status, cutoff, computed_at, captured_at, lead) ==
    LET Late(t) == Present(t) /\ t >= start
        broken == [STATUS_NOT_SCHEDULED |-> status # "SCHEDULED",
                   CUTOFF_NOT_BEFORE_START |-> Late(cutoff),
                   COMPUTED_AT_NOT_BEFORE_START |-> Late(computed_at),
                   CAPTURED_AT_NOT_BEFORE_START |-> Late(captured_at),
                   INSUFFICIENT_LEAD |-> /\ Present(lead) /\ Present(computed_at)
                                         /\ ~Late(computed_at) /\ start - computed_at < lead] IN
    IF Missing(start) THEN {"MISSING_START_TIME"} ELSE {v \in DOMAIN broken : broken[v]}
-----------------------------------------------------------------------------
(* mlb_features.py. A raw answer is [payload, captured_at], or None *)

Usable(raw, cutoff) == Present(raw) /\ Present(raw.payload) /\ Present(raw.captured_at) /\ raw.captured_at < cutoff

\* The statistics of a season are kept for a pitcher who started a game.
SeasonStat(raw, cutoff) == IF Usable(raw, cutoff) /\ raw.payload.games_started > 0 THEN raw.payload ELSE None
SeasonFigure(raw, cutoff, name) ==
    IF Missing(SeasonStat(raw, cutoff)) THEN None ELSE SeasonStat(raw, cutoff)[name]

\* Strikeouts, or bases on balls, per batter faced.
SeasonRate(raw, cutoff, name) ==
    LET stat == SeasonStat(raw, cutoff) IN
    IF Missing(stat) THEN None
    ELSE IF Missing(stat[name]) \/ Missing(stat.batters) \/ stat.batters = 0 THEN None
    ELSE (stat[name] * One) \div stat.batters

\* Outs, or else innings as <<whole, thirds>>.
Innings(stat) ==
    CASE Present(stat.outs) -> stat.outs
      [] Missing(stat.outs) /\ Present(stat.innings) /\ stat.innings[2] \in 0 .. 2 -> 3 * stat.innings[1] + stat.innings[2]
      [] OTHER -> None

\* Entries of a log by date; those of one date stay as they were.
ByDate(log, entries) ==
    LET order == InOrder(entries, {p \in entries \X entries :
                    \/ log[p[1]].date < log[p[2]].date
                    \/ log[p[1]].date = log[p[2]].date /\ p[1] < p[2]}) IN
    [n \in DOMAIN order |-> log[order[n]]]

Dated(log) == {i \in DOMAIN log : Present(log[i].date)}

\* Bug variant: the games of the day of the cutoff count, the one to predict among them.
GameLog_Today(raw, cutoff) ==
    IF ~Usable(raw, cutoff) THEN <<>>
    ELSE ByDate(raw.payload, {i \in Dated(raw.payload) : raw.payload[i].date <= cutoff \div Day})

\* The games of earlier days, by date.
GameLog(raw, cutoff) ==
    IF ~Usable(raw, cutoff) THEN <<>>
    ELSE ByDate(raw.payload, {i \in Dated(raw.payload) : raw.payload[i].date < cutoff \div Day})

MIN_STARTS_FOR_FORM == 3
BULLPEN_LOOKBACK_APPEARANCES == 15

Latest(log, n) == SubSeq(log, Max({1, Len(log) - n + 1}), Len(log))
Counted(log) == {i \in DOMAIN log : Present(log[i].earned) /\ Present(Innings(log[i]))}
Runs(log) == MapThenSumSet(LAMBDA i : log[i].earned, Counted(log))
Outs(log) == MapThenSumSet(LAMBDA i : Innings(log[i]), Counted(log))
OnBase(log) == MapThenSumSet(LAMBDA i : log[i].on_base, Counted(log))
PerOuts(n, outs) == (n * One) \div outs

\* The last five starts, of which three must tell the runs and the innings.
Form(raw, cutoff) ==
    LET log == Latest(GameLog(raw, cutoff), 5) IN
    IF Cardinality(Counted(log)) < MIN_STARTS_FOR_FORM \/ Outs(log) <= 0 THEN None
    ELSE [era |-> PerOuts(27 * Runs(log), Outs(log)),
          whip |-> IF \E i \in Counted(log) : Missing(log[i].on_base) THEN None
                   ELSE PerOuts(3 * OnBase(log), Outs(log)),
          starts_used |-> Cardinality(Counted(log))]

\* The relievers of a team together, each over his last appearances.
BullpenEra(logs, cutoff) ==
    LET recent == [p \in DOMAIN logs |-> Latest(GameLog(logs[p], cutoff), BULLPEN_LOOKBACK_APPEARANCES)]
        runs == MapThenSumSet(LAMBDA p : Runs(recent[p]), DOMAIN logs)
        outs == MapThenSumSet(LAMBDA p : Outs(recent[p]), DOMAIN logs) IN
    IF outs <= 0 THEN None ELSE PerOuts(27 * runs, outs)

\* What the pitcher allows to batters of the hand most opponents bat with.
HandednessOps(raw, hand, cutoff) ==
    IF hand \notin {"L", "R"} \/ ~Usable(raw, cutoff) THEN None
    ELSE IF hand = "L" THEN raw.payload.vl ELSE raw.payload.vr

TeamOps(raw, cutoff) == IF Usable(raw, cutoff) THEN raw.payload ELSE None

\* The share of games won that the league reports, or that its numbers give.
RecordPct(record) ==
    IF Missing(record) THEN None
    ELSE CASE Present(record.pct) -> record.pct
           [] Missing(record.pct) /\ Present(record.wins) /\ Present(record.losses)
                /\ record.wins + record.losses > 0 -> (record.wins * One) \div (record.wins + record.losses)
           [] OTHER -> None

HomeAway(game, side) ==
    IF Missing(game.home_team_id) \/ Missing(game.away_team_id) THEN None
    ELSE IF side = "participant_a" THEN "AWAY" ELSE "HOME"

\* Whether one of the key players is on the list of the injured.
IlFlag(raw, key_players, cutoff) ==
    IF key_players = {} \/ ~Usable(raw, cutoff) THEN None ELSE raw.payload \cap key_players # {}

\* Every feature of one side; inputs of a side are a record of raw answers.
MlbSide(game, inputs, side, cutoff) ==
    LET i == inputs[side] IN
    [pitcher_era_season |-> SeasonFigure(i.season, cutoff, "era"),
     pitcher_whip_season |-> SeasonFigure(i.season, cutoff, "whip"),
     pitcher_k_pct |-> SeasonRate(i.season, cutoff, "strikeouts"),
     pitcher_bb_pct |-> SeasonRate(i.season, cutoff, "walks"),
     pitcher_ip_season |-> IF Missing(SeasonStat(i.season, cutoff)) THEN None
                           ELSE Innings(SeasonStat(i.season, cutoff)),
     pitcher_form_last5 |-> Form(i.log, cutoff),
     pitcher_vs_opponent_handedness_ops |-> HandednessOps(i.splits, i.hand, cutoff),
     bullpen_era_recent |-> BullpenEra(i.relievers, cutoff),
     team_ops_season |-> TeamOps(i.hitting, cutoff),
     il_flag_key_players |-> IlFlag(i.injured, i.key_players, cutoff),
     team_record_pct |-> RecordPct(game.records[side]),
     home_away |-> HomeAway(game, side)]

ComputeMlbFeatures(game, inputs, cutoff) ==
    LET features == [side \in Sides |-> MlbSide(game, inputs, side, cutoff)] IN
    [features |-> features,
     missing |-> UNION {{<<name, side>> : name \in DOMAIN features[side] \ PresentIn(features[side])} : side \in Sides}]
-----------------------------------------------------------------------------
(* mlb_baseline.py: the columns. NaN is None *)

\* A side plays at home or away: the column has 1 or 0 for "home" or "away",
\* and the feature says "HOME" or "AWAY".
HomeAwayColumn(value) == CASE value = "home" -> 1 [] value = "away" -> 0 [] OTHER -> None

VectorizeMlb(features) ==
    [side \in Sides |->
        LET f == features[side] IN
        [name \in (DOMAIN f \ {"pitcher_form_last5", "home_away"}) \cup {"form_era", "form_whip", "home_away"} |->
            CASE name = "home_away" -> HomeAwayColumn(f.home_away)
              [] name = "form_era" -> IF Missing(f.pitcher_form_last5) THEN None ELSE f.pitcher_form_last5.era
              [] name = "form_whip" -> IF Missing(f.pitcher_form_last5) THEN None ELSE f.pitcher_form_last5.whip
              [] OTHER -> f[name]]]
-----------------------------------------------------------------------------
(* tennis_features.py *)

\* The time since the last match known to have begun before the cutoff, and
\* before the match itself.
RestDays(start, priors, cutoff) ==
    LET eligible == {t \in priors : t < cutoff /\ t < start} IN
    IF Missing(start) \/ eligible = {} THEN None ELSE start - Max(eligible)

\* What is not known before the match starts gives no rest days.
ComputeTennisFeatures(match, priors, cutoff) ==
    LET violations == PreeventViolations(match.start, match.status, cutoff, None, None, None) IN
    [rest_days |-> [side \in Sides |->
                        IF violations # {} THEN None ELSE RestDays(match.start, priors[side], cutoff)],
     round |-> match.round]

\* One column for each round that the training saw; a round it did not see
\* leaves them all 0.
VectorizeTennis(features, categories) ==
    [rest_days |-> features.rest_days, round |-> [c \in categories |-> IF features.round = c THEN 1 ELSE 0]]
=============================================================================
