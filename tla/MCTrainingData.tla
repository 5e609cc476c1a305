--------------------------- MODULE MCTrainingData ---------------------------
(* A small instance of TrainingData for TLC: what earlier days left behind in  *)
(* each sport, and the day of one or two events.                               *)
EXTENDS TrainingData

\* A match or a game of an earlier day that started at t, its features and its result.
Row(e, s, t, n, version, rest) ==
    [event |-> e, sport |-> s, snapshot |-> n, version |-> version, cutoff |-> t - 120,
     computed_at |-> t - 90, rest |-> rest]
Snapshot(e, s, t) == [event |-> e, sport |-> s, captured_at |-> t - 90, start |-> t, status |-> "SCHEDULED"]
Result(e, s, t, result) == [event |-> e, sport |-> s, result |-> result, recorded_at |-> t + 180]

\* games is a sequence of <<number, start, result>>. The first one has an older row too.
Days(s, games) ==
    LET n == Len(games) IN
    [snapshots |-> [i \in 1 .. n |-> Snapshot(games[i][1], s, games[i][2])],
     features |-> <<Row(games[1][1], s, games[1][2], 1, "phase2_registry_v0", None)>>
        \o [i \in 1 .. n |-> Row(games[i][1], s, games[i][2], i, CURRENT_FEATURE_SET_VERSION, None)],
     results |-> [i \in 1 .. n |-> Result(games[i][1], s, games[i][2], games[i][3])]]

\* One more run saw event e, which starts at t, at the moment given.
SeenAgain(days, e, s, t, at) ==
    [days EXCEPT !.snapshots = Append(@, [Snapshot(e, s, t) EXCEPT !.captured_at = at]),
                 !.features = Append(@, [Row(e, s, t, Len(days.snapshots) + 1, CURRENT_FEATURE_SET_VERSION, None)
                                            EXCEPT !.cutoff = at - 30, !.computed_at = at])]

\* Two games of baseball have rows of one moment, and one of them has a second row.
\* A match of tennis is listed that is still to come.
MCPast == [
    MLB |-> SeenAgain(Days("MLB", <<<<2, -3000, "PARTICIPANT_A_WON">>, <<3, -2000, "PARTICIPANT_B_WON">>,
                                    <<4, -2000, "PARTICIPANT_A_WON">>>>), 4, "MLB", -2000, -2030),
    TENNIS |-> SeenAgain(Days("TENNIS",
        <<<<5, -4000, "PARTICIPANT_A_WON">>, <<3, -3000, "PARTICIPANT_B_WON">>,
          <<2, -2000, "PARTICIPANT_A_WON">>, <<4, -1500, "PARTICIPANT_B_WON">>>>), 6, "TENNIS", 900, -600)]

CONSTANTS p, q
MCSyncs == {p, q}
Symmetry == Permutations(MCSyncs)

\* The promise of a difference of ratings, in steps of 50 points.
MCPromise == [d \in {50 * n : n \in -9 .. 9} |-> 5000 + 10 * d]
=============================================================================
