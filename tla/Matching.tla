------------------------------ MODULE Matching ------------------------------
(* How a game or match finds its market: src/matching. A name is the sequence  *)
(* of its tokens after normalize_name; a score is in ten-thousandths.          *)
EXTENDS Values, SequencesExt

CONSTANTS
    Abbreviates,    \* the pairs <<short, long>> of tokens, short a prefix of long
    Acronym         \* the words that the letters of a token begin, if any

EVENT_NAME_MATCH_MIN_CONFIDENCE == 7200
TENNIS_PAIR_MATCH_MIN_CONFIDENCE == 9700

ConfidentMethods == {"SOURCE_ID", "EXACT_NAME_TIME", "FUZZY_NAME_TIME",
                     "TENNIS_STRUCTURAL_PAIR_UNIQUE"}
-----------------------------------------------------------------------------
(* Names *)

TokensAlign(t, u) == t = u \/ <<t, u>> \in Abbreviates \/ <<u, t>> \in Abbreviates

\* The words at the head of pool that token is the acronym of, or <<>>.
AcronymMatch(token, pool) ==
    IF token \in DOMAIN Acronym /\ IsPrefix(Acronym[token], pool) THEN Acronym[token] ELSE <<>>

\* Each token of shorter takes the first it aligns with among those left, or
\* else the words it is the acronym of; how many find a partner.
TakePartner(state, token) ==
    LET first == SelectInSeq(state.pool, LAMBDA u : TokensAlign(token, u))
        words == Len(AcronymMatch(token, state.pool)) IN
        CASE first > 0 -> [pool |-> RemoveAt(state.pool, first), matched |-> state.matched + 1]
          [] first = 0 /\ words > 0 -> [pool |-> SubSeq(state.pool, words + 1, Len(state.pool)),
                                        matched |-> state.matched + 1]
          [] OTHER -> state

Covered(shorter, longer) ==
    /\ shorter # <<>>
    /\ FoldLeft(TakePartner, [pool |-> longer, matched |-> 0], shorter).matched = Len(shorter)

Jaccard(A, B) == (One * Cardinality(A \cap B)) \div Cardinality(A \cup B)

NameSimilarity(a, b) ==
    IF Missing(a) \/ Missing(b) THEN 0
    ELSE LET swap == Len(a) > Len(b) IN
         IF a = b \/ Covered(IF swap THEN b ELSE a, IF swap THEN a ELSE b) THEN One
         ELSE Jaccard(ToSet(a), ToSet(b))

\* The weaker of the two names counts; the order is the one that scores higher.
PairScore(a, b, c, d) == Min({NameSimilarity(a, c), NameSimilarity(b, d)})
BetterOrder(direct, swapped) == [score |-> Max({direct, swapped}), swapped |-> swapped > direct]
ParticipantsSimilarity(a, b, c, d) == BetterOrder(PairScore(a, b, c, d), PairScore(a, b, d, c))

\* The first of those with the highest score.
FirstOfBest(score) == CHOOSE i \in DOMAIN score :
    \A j \in DOMAIN score : score[j] < score[i] \/ (score[j] = score[i] /\ i <= j)
-----------------------------------------------------------------------------
(* match_event *)

Result(confidence, method) ==
    [confidence |-> confidence, method |-> method, needs_review |-> method \notin ConfidentMethods]
NoMatch == Result(0, "NO_MATCH")

IsConfident(r) == ~r.needs_review /\ r.method \in ConfidentMethods

\* A start time that is not known does not speak against a match.
TimeOk(t, u, tolerance) ==
    Missing(t) \/ Missing(u) \/ (t - u <= tolerance /\ u - t <= tolerance)

\* A match at another time counts half, and is never confident.
Graded(score, ok) ==
    Result(IF ok THEN score ELSE score \div 2,
           CASE ok /\ score >= 9700 -> "EXACT_NAME_TIME"
             [] ok /\ score \in EVENT_NAME_MATCH_MIN_CONFIDENCE .. 9699 -> "FUZZY_NAME_TIME"
             [] OTHER -> "NEEDS_REVIEW")

MatchEvent(source, target, tolerance) ==
    IF \E x \in {source.a, source.b, target.a, target.b} : Missing(x) THEN NoMatch
    ELSE Graded(ParticipantsSimilarity(source.a, source.b, target.a, target.b).score,
                TimeOk(source.start, target.start, tolerance))
-----------------------------------------------------------------------------
(* Events of the exchange: a title that names both sides or none, and markets. *)
(* An event, or a market of it, may not have the shape the code expects.        *)

\* Whether the participants and the start time can be read: without a title the
\* names are those of the first two markets, and the time is in the first.
ReadsMarkets(e) == IF Missing(e.title) THEN 1 .. Min({2, Len(e.markets)})
                   ELSE 1 .. Min({1, Len(e.markets)})
Readable(e) == e.readable /\ \A i \in ReadsMarkets(e) : e.markets[i].readable

\* A title decides; else the YES side of two markets, or both sides of one.
EventParticipants(e) ==
    CASE Present(e.title) -> e.title
      [] Missing(e.title) /\ Len(e.markets) >= 2 -> <<e.markets[1].yes_sub_title, e.markets[2].yes_sub_title>>
      [] Missing(e.title) /\ Len(e.markets) = 1 -> <<e.markets[1].yes_sub_title, e.markets[1].no_sub_title>>
      [] OTHER -> <<None, None>>

\* The time in the ticker of the first market is the game's; occurrence_datetime
\* is the market's and only stands in for it.
EventStart(e) ==
    CASE e.markets = <<>> -> None
      [] e.markets # <<>> /\ Present(e.markets[1].ticker_time) -> e.markets[1].ticker_time
      [] OTHER -> e.markets[1].occurrence

Target(e) == [a |-> EventParticipants(e)[1], b |-> EventParticipants(e)[2], start |-> EventStart(e)]

\* The market whose YES side is most like participant_a, the first of equals.
SelectMarket(e, a) ==
    LET score == [i \in DOMAIN e.markets |-> NameSimilarity(a, e.markets[i].yes_sub_title)]
        best == FirstOfBest(score) IN
        CASE e.markets = <<>> -> [market |-> None, confidence |-> None]
          [] e.markets # <<>> /\ Missing(a) -> [market |-> e.markets[1], confidence |-> None]
          [] OTHER -> [market |-> e.markets[best], confidence |-> score[best]]

\* The choice reads every market of the event, and nothing catches what it raises.
SelectionRaises(e, a) == Present(a) /\ \E i \in DOMAIN e.markets : ~e.markets[i].readable

Unmatched(result) == [event |-> None, result |-> result, market |-> None, side_confidence |-> None]
Matched(source, e, result) ==
    LET chosen == SelectMarket(e, source.a) IN
        [event |-> e, result |-> result, market |-> chosen.market,
         side_confidence |-> chosen.confidence]
BestMatched(source, events, matches) ==
    LET best == FirstOfBest([i \in DOMAIN matches |-> matches[i].confidence]) IN
        Matched(source, events[best], matches[best])

\* The event of highest confidence. One that cannot be read is skipped. No event at
\* all: no match.
FindBestKalshiEvent(source, events, tolerance) ==
    LET sound == {i \in DOMAIN events : Readable(events[i])} IN
        IF sound = {} THEN Unmatched(NoMatch)
        ELSE BestMatched(source, events,
                [i \in sound |-> MatchEvent(source, Target(events[i]), tolerance)])

\* This resolver looks at a market only for the names.
PairReadable(e) == e.readable /\ (Missing(e.title) => Readable(e))

\* Qualifying and group stages: the names alone, and only one event with them.
ResolvePairByStructure(source, events) ==
    LET score(e) == ParticipantsSimilarity(source.a, source.b, Target(e).a, Target(e).b).score
        passed == {i \in DOMAIN events :
            /\ PairReadable(events[i]) /\ Present(Target(events[i]).a) /\ Present(Target(events[i]).b)
            /\ score(events[i]) >= TENNIS_PAIR_MATCH_MIN_CONFIDENCE} IN
        CASE Missing(source.a) \/ Missing(source.b) \/ passed = {} -> Unmatched(NoMatch)
          [] Present(source.a) /\ Present(source.b) /\ Cardinality(passed) > 1 ->
                Unmatched(Result(Max({score(events[i]) : i \in passed}), "NEEDS_REVIEW"))
          [] OTHER -> LET only == events[CHOOSE i \in passed : TRUE] IN
                Matched(source, only, Result(score(only), "TENNIS_STRUCTURAL_PAIR_UNIQUE"))
=============================================================================
