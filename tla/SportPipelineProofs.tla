------------------------- MODULE SportPipelineProofs -------------------------
(***************************************************************************)
(* Theorems about one run of a sport pipeline, for any schedules, boards,  *)
(* manifests and disturbances.                                             *)
(***************************************************************************)
EXTENDS SportPipeline, FiniteSetTheorems, SequenceTheorems, WellFoundedInduction, TLAPS

-----------------------------------------------------------------------------
(* Sequences of anything *)

Listed(s) == \E S : s \in Seq(S)

LEMMA ListedIs ==
  ASSUME NEW s, Listed(s)
  PROVE  Len(s) \in Nat /\ DOMAIN s = 1 .. Len(s)
BY DEF Listed

LEMMA ListedAppend ==
  ASSUME NEW s, Listed(s), NEW e, NEW t, t = Append(s, e)
  PROVE  /\ Listed(t) /\ Len(t) = Len(s) + 1
         /\ DOMAIN t = DOMAIN s \cup {Len(t)} /\ t[Len(t)] = e
         /\ \A i \in DOMAIN s : i # Len(t) /\ t[i] = s[i]
<1>1. PICK S : s \in Seq(S)
  BY DEF Listed
<1>2. t \in Seq(S \cup {e}) /\ Len(t) = Len(s) + 1 /\ t[Len(s) + 1] = e
  BY <1>1
<1>3. \A i \in 1 .. Len(s) : t[i] = s[i]
  BY <1>1
<1> QED  BY <1>1, <1>2, <1>3 DEF Listed

LEMMA ListedEmpty == Listed(<<>>)
<1>1. <<>> \in Seq({})
  OBVIOUS
<1> QED  BY <1>1 DEF Listed

LEMMA ListedMap ==
  ASSUME NEW s, Listed(s), NEW t, DOMAIN t = DOMAIN s, t = [i \in DOMAIN s |-> t[i]]
  PROVE  Listed(t) /\ Len(t) = Len(s)
<1>1. Len(s) \in Nat /\ DOMAIN s = 1 .. Len(s)
  BY ListedIs
<1>2. PICK S : S = {t[i] : i \in DOMAIN s}
  OBVIOUS
<1>3. t \in [1 .. Len(s) -> S]
  BY <1>1, <1>2
<1>4. t \in Seq(S)
  BY <1>1, <1>3
<1>5. Len(t) = Len(s)
  BY <1>1, <1>4
<1> QED  BY <1>4, <1>5 DEF Listed

LEMMA LeastIsThere ==
  ASSUME NEW S, S \subseteq Nat, S # {}
  PROVE  Min(S) \in S /\ \A y \in S : Min(S) <= y
<1>1. PICK x \in S : \A y \in S : ~ (<<y, x>> \in OpToRel(<, Nat))
  <2> QED  BY NatLessThanWellFounded, WFMin
<1>2. ASSUME NEW y \in S  PROVE x <= y
  <2>1. ~(y < x)
    BY <1>1 DEF OpToRel
  <2> QED  BY <2>1
<1> QED  BY <1>2 DEF Min
-----------------------------------------------------------------------------
(* Decisions *)

\* Whatever is decided is whole.
LEMMA DecideIsWhole ==
  ASSUME NEW r, NEW signal, NEW payoff, NEW profile, NEW health, NEW cutoff, NEW history, NEW m, NEW t
  PROVE  WellFormed(Decide(r, signal, payoff, profile, health, cutoff, history, m, t))
<1>1. WellFormed(InvalidAnalysis({"non_recoverable_inconsistency"}, {"non_recoverable_inconsistency"}))
  BY PipelineAssumption DEF WellFormed, InvalidAnalysis, Decision, Present, Dispositions
<1> QED  BY <1>1 DEF Decide

\* Where a block applies, or the history cannot be read, nothing but PASS is said.
LEMMA BlockedIsPass ==
  ASSUME NEW r, NEW signal, NEW payoff, NEW profile, NEW health, NEW cutoff, NEW history, NEW m, NEW t,
         \/ \E rule \in m.hard_block_rules : Blocks(rule, r, cutoff, history)
         \/ history = None
  PROVE  Decide(r, signal, payoff, profile, health, cutoff, history, m, t).signal_type = "PASS"
<1> PICK d : d = DecideInner(r, signal, payoff, profile, health, cutoff, history, m, t)
  OBVIOUS
<1>1. Ineligible(signal) # {} => d.signal_type = "PASS"
  BY DEF DecideInner, InvalidAnalysis, Decision
<1>2. (Ineligible(signal) = {} /\ \E rule \in m.hard_block_rules : Blocks(rule, r, cutoff, history))
        => d.signal_type = "PASS"
  BY DEF DecideInner, Decision
<1> QED  BY <1>1, <1>2 DEF Decide, InvalidAnalysis, Decision, Missing

\* A known result is named only if it blocks.
LEMMA TriggeredMeansBlocked ==
  ASSUME NEW r, NEW signal, NEW payoff, NEW profile, NEW health, NEW cutoff, NEW history, NEW m, NEW t,
         "known_result" \in Decide(r, signal, payoff, profile, health, cutoff, history, m, t).triggered
  PROVE  Blocks("known_result", r, cutoff, history) /\ history # None
<1> PICK d : d = DecideInner(r, signal, payoff, profile, health, cutoff, history, m, t)
  OBVIOUS
<1>1. ManifestValid(m) /\ m.sport = r.sport /\ ~(Missing(history) /\ Ineligible(signal) = {})
      /\ "known_result" \in d.triggered
  BY DEF Decide, InvalidAnalysis, Decision
<1>2. Ineligible(signal) = {}
  BY <1>1 DEF DecideInner, InvalidAnalysis, Decision
<1>3. "known_result" \notin m.hard_hold_rules
  BY <1>1 DEF ManifestValid, HoldRules
<1>4. \A v, w, x, y : "known_result" \notin Score(v, w, x, y).triggered
  BY DEF Score, Decision
<1>5. "known_result" \in {rule \in m.hard_block_rules : Blocks(rule, r, cutoff, history)}
  BY <1>1, <1>2, <1>3, <1>4 DEF DecideInner, InvalidAnalysis, Decision
<1> QED  BY <1>1, <1>2, <1>5 DEF Missing

\* Nothing is entered while the net value is unknown.
LEMMA UnknownIsNotEntered ==
  ASSUME NEW r, NEW signal, NEW payoff, NEW profile, NEW health, NEW cutoff, NEW history, NEW m, NEW t,
         payoff.ev_to_settlement = None
  PROVE  Decide(r, signal, payoff, profile, health, cutoff, history, m, t).signal_type # "ENTER"
<1> PICK d : d = DecideInner(r, signal, payoff, profile, health, cutoff, history, m, t)
  OBVIOUS
<1>1. RawValues(signal, payoff, profile).ev_neto_strength = None
  BY DEF RawValues, NormalizeSigned, Missing
<1>2. \A minimums : CriticalFailures(RawValues(signal, payoff, profile), minimums) # {}
  BY <1>1 DEF CriticalFailures, CriticalComponents, Missing
<1>3. Score(signal, payoff, profile, m).signal_type # "ENTER"
  BY <1>2 DEF Score, Decision
<1>4. d.signal_type # "ENTER"
  BY <1>3 DEF DecideInner, InvalidAnalysis, Decision
<1> QED  BY <1>4 DEF Decide, InvalidAnalysis, Decision
-----------------------------------------------------------------------------
(* The invariant *)

Deciding == {"decide", "done", "aborted"}

Lists ==
    /\ Listed(records) /\ Listed(cutoffs) /\ Listed(evaluations) /\ Listed(results)
    /\ Len(games) \in Nat /\ Len(cutoffs) = Len(records) /\ Len(records) <= Len(games)
    /\ \A i \in DOMAIN cutoffs : cutoffs[i] \in Nat /\ cutoffs[i] <= Len(results)

Stages == {"schedule", "events", "records", "persist", "load", "decide", "done", "aborted"}

\* Rows are written from the first record to the last.
RowsOK ==
    /\ \/ rows = <<>>
       \/ rows \in [DOMAIN records -> 0 .. Complete] /\ stage \notin {"schedule", "events", "records"}
    /\ \A i, j \in DOMAIN rows : i < j /\ rows[j] > 0 => rows[i] = Complete
    /\ batch.sport = "TENNIS" => \A i, j \in DOMAIN rows : rows[i] = rows[j]
    /\ stage \in {"schedule", "events"} => records = <<>>

MemoOK == DOMAIN memo \subseteq {"model"} /\ \A v \in DOMAIN memo : memo[v] \in Calibrators \cup {None}

\* The sides that were counted, and those that were gone through.
Passed(sum) == sum.created + sum.errors + 2 * (sum.before + sum.no_market)
Gone(place) == 2 * (place.record - 1) + (IF place.side = "NO" THEN 1 ELSE 0)

Counted ==
    /\ next = [record |-> next.record, side |-> next.side]
    /\ next.record \in 1 .. Len(records) + 1 /\ next.side \in {"context", "YES", "NO"}
    /\ next.side # "context" => next.record \in DOMAIN records
    /\ summary = [created |-> summary.created, errors |-> summary.errors,
                  before |-> summary.before, no_market |-> summary.no_market]
    /\ summary.created \in Nat /\ summary.errors \in Nat
    /\ summary.before \in Nat /\ summary.no_market \in Nat
    /\ summary.created = Len(evaluations)
    /\ Passed(summary) = Gone(next)
    /\ stage = "done" => next.record = Len(records) + 1 /\ next.side = "context"
    /\ stage \notin Deciding => evaluations = <<>> /\ next.record = 1 /\ next.side = "context"

Saved ==
    \A k \in DOMAIN evaluations :
        evaluations[k].record \in DOMAIN records /\ WellFormed(evaluations[k].decision)

Started ==
    /\ stage \in Stages /\ batch \in Batches
    /\ artifact \in {None, "model"}

PromotedOK == promoted \in Calibrators \cup {None}

RunInv == Started /\ Lists /\ RowsOK /\ MemoOK /\ PromotedOK /\ Counted /\ Saved

LEMMA RunFirst == Init => RunInv
<1> SUFFICES ASSUME Init  PROVE RunInv
  OBVIOUS
<1>1. Listed(<<>>) /\ Len(<<>>) = 0 /\ DOMAIN <<>> = {}
  BY ListedEmpty
<1>2. Started
  BY DEF Init, Started, Stages
<1>3. Lists
  BY <1>1 DEF Init, Lists
<1>4. RowsOK
  BY <1>1 DEF Init, RowsOK
<1>5. MemoOK
  BY DEF Init, MemoOK
<1>6. Counted /\ PromotedOK
  BY <1>1 DEF Init, Counted, PromotedOK, Passed, Gone
<1>7. Saved
  BY <1>1 DEF Init, Saved
<1> QED  BY <1>2, <1>3, <1>4, <1>5, <1>6, <1>7 DEF RunInv

\* What a step leaves alone stays as it is.
LEMMA RestStays ==
  ASSUME RunInv
  PROVE  /\ UNCHANGED <<batch, stage, artifact>> => Started'
         /\ UNCHANGED <<games, made, evaluations, results>> => Lists'
         /\ UNCHANGED <<batch, stage, rows, records>> => RowsOK'
         /\ UNCHANGED memo => MemoOK'
         /\ (UNCHANGED promoted \/ UNCHANGED world) => PromotedOK'
         /\ UNCHANGED <<next, records, summary, evaluations, stage>> => Counted'
         /\ UNCHANGED <<evaluations, records>> => Saved'
<1>1. UNCHANGED <<batch, stage, artifact>> => Started'
  BY DEF RunInv, Started
<1>2. UNCHANGED <<games, made, evaluations, results>> => Lists'
  BY DEF RunInv, Lists, made
<1>3. UNCHANGED <<batch, stage, rows, records>> => RowsOK'
  BY DEF RunInv, RowsOK
<1>4. UNCHANGED memo => MemoOK'
  BY DEF RunInv, MemoOK
<1>5. UNCHANGED <<next, records, summary, evaluations, stage>> => Counted'
  BY DEF RunInv, Counted
<1>6. UNCHANGED <<evaluations, records>> => Saved'
  BY DEF RunInv, Saved
<1>7. (UNCHANGED promoted \/ UNCHANGED world) => PromotedOK'
  BY DEF RunInv, PromotedOK, world
<1> QED  BY <1>1, <1>2, <1>3, <1>4, <1>5, <1>6, <1>7

LEMMA FetchesRun ==
  ASSUME RunInv, FetchSchedule \/ FetchEvents
  PROVE  RunInv'
<1>1. CASE FetchSchedule
  <2>1. /\ stage = "schedule" /\ stage' \in {"events", "load"}
        /\ UNCHANGED <<batch, made, rows, artifact, memo, next, summary, evaluations, results, promoted, records, cutoffs>>
    BY <1>1 DEF FetchSchedule, context, decided, world, made
  <2>2. Len(games') \in Nat
    <3>1. Min({Limit, Len(batch.games)}) \in Nat
      <4>1. Limit \in Nat /\ Len(batch.games) \in Nat
        BY PipelineAssumption DEF RunInv, Started, BatchSound, IsList
      <4> QED  BY <4>1, LeastIsThere
    <3>2. PICK n \in Nat : n = Min({Limit, Len(batch.games)})
      BY <3>1
    <3>3. games' = games \/ \E p : games' = [k \in 1 .. n |-> batch.games[p[k]]]
      BY <1>1, <3>2 DEF FetchSchedule
    <3>4. \A p : Len([k \in 1 .. n |-> batch.games[p[k]]]) = n
      OBVIOUS
    <3> QED  BY <3>3, <3>4 DEF RunInv, Lists
  <2>3. rows = <<>> /\ records = <<>>
    BY <2>1 DEF RunInv, RowsOK
  <2>4. Lists'
    BY <2>1, <2>2, <2>3, ListedEmpty DEF RunInv, Lists
  <2>5. RowsOK'
    BY <2>1, <2>3 DEF RunInv, RowsOK
  <2>6. Counted'
    BY <2>1, <2>3 DEF RunInv, Counted, Deciding
  <2> QED  BY <2>1, <2>4, <2>5, <2>6, RestStays DEF RunInv, Started, Stages
<1>2. CASE FetchEvents
  <2>1. /\ stage = "events" /\ stage' = "records"
        /\ UNCHANGED <<batch, games, made, rows, artifact, memo, next, summary, evaluations, results, promoted, records, cutoffs>>
    BY <1>2 DEF FetchEvents, context, decided, world, made
  <2>2. RowsOK'
    BY <2>1 DEF RunInv, RowsOK
  <2>3. Counted'
    BY <2>1 DEF RunInv, Counted, Deciding
  <2> QED  BY <2>1, <2>2, <2>3, RestStays DEF RunInv, Started, Stages
<1> QED  BY <1>1, <1>2

LEMMA PrepareRun ==
  ASSUME RunInv, PrepareRecord
  PROVE  RunInv'
<1>1. /\ stage = "records" /\ Len(records) < Len(games)
      /\ UNCHANGED <<batch, games, rows, artifact, memo, next, summary, evaluations, results, promoted>>
  BY DEF PrepareRecord, input, context, decided, world
<1>2. CASE stage' = "aborted" /\ UNCHANGED made
  <2>1. UNCHANGED <<records, cutoffs>>
    BY <1>2 DEF made
  <2>2. RowsOK'
    BY <1>1, <1>2, <2>1 DEF RunInv, RowsOK
  <2>3. Counted'
    BY <1>1, <1>2, <2>1 DEF RunInv, Counted, Deciding
  <2> QED  BY <1>1, <1>2, <2>1, <2>2, <2>3, RestStays DEF RunInv, Started, Stages
<1>3. ASSUME stage' = stage, NEW r, records' = Append(records, r), cutoffs' = Append(cutoffs, Len(results))
      PROVE  RunInv'
  <2>1. /\ Listed(records) /\ Len(records) \in Nat /\ DOMAIN records = 1 .. Len(records)
        /\ Listed(cutoffs) /\ Len(cutoffs) \in Nat /\ DOMAIN cutoffs = 1 .. Len(cutoffs)
        /\ Len(results) \in Nat
    BY ListedIs DEF RunInv, Lists
  <2>2. /\ Listed(records') /\ Len(records') = Len(records) + 1 /\ DOMAIN records \subseteq DOMAIN records'
    <3>1. records' = Append(records, r) /\ Listed(records)
      BY <1>3, <2>1
    <3>2. Listed(records') /\ Len(records') = Len(records) + 1
      BY <3>1, ListedAppend
    <3>3. DOMAIN records \subseteq DOMAIN records'
      BY <3>1, ListedAppend
    <3> QED  BY <3>2, <3>3
  <2>3. /\ Listed(cutoffs') /\ Len(cutoffs') = Len(cutoffs) + 1
        /\ \A i \in DOMAIN cutoffs' : cutoffs'[i] \in Nat /\ cutoffs'[i] <= Len(results)
    <3>1. PICK s, e, c : s = cutoffs /\ e = Len(results) /\ c = cutoffs'
      OBVIOUS
    <3>2. c = Append(s, e) /\ Listed(s)
      BY <1>3, <2>1, <3>1
    <3>3. Listed(c) /\ Len(c) = Len(s) + 1
      BY <3>2, ListedAppend
    <3>4. DOMAIN c = DOMAIN s \cup {Len(c)} /\ c[Len(c)] = e
      BY <3>2, ListedAppend
    <3>5. \A i \in DOMAIN s : c[i] = s[i]
      BY <3>2, ListedAppend
    <3> QED  BY <2>1, <3>1, <3>3, <3>4, <3>5 DEF RunInv, Lists
  <2>4. Lists'
    BY <1>1, <2>1, <2>2, <2>3 DEF RunInv, Lists
  <2>5. rows = <<>>
    BY <1>1 DEF RunInv, RowsOK
  <2>6. RowsOK'
    BY <1>1, <1>3, <2>5 DEF RunInv, RowsOK
  <2>7. evaluations = <<>>
    BY <1>1 DEF RunInv, Counted, Deciding
  <2>8. Counted'
    <3>1. /\ next.record = 1 /\ next.side = "context" /\ stage' \notin Deciding
          /\ UNCHANGED <<next, summary, evaluations>> /\ Len(records') \in Nat
      BY <1>1, <1>3, <2>1, <2>2 DEF RunInv, Counted, Deciding
    <3>2. next.record \in 1 .. Len(records') + 1 /\ stage' # "done"
      BY <3>1 DEF Deciding
    <3> QED  BY <2>7, <3>1, <3>2 DEF RunInv, Counted
  <2>9. Saved'
    BY <1>1, <2>2 DEF RunInv, Saved
  <2> QED  BY <1>1, <1>3, <2>4, <2>6, <2>8, <2>9, RestStays DEF RunInv
<1> QED  BY <1>2, <1>3 DEF PrepareRecord

LEMMA AnnotateRun ==
  ASSUME RunInv, AnnotateRecords
  PROVE  RunInv'
<1>1. /\ stage = "records" /\ stage' = "persist"
      /\ records' = AnnotateDuplicateMarkets(records) /\ rows' = [i \in DOMAIN records |-> 0]
      /\ UNCHANGED <<batch, games, cutoffs, artifact, memo, next, summary, evaluations, results, promoted>>
  BY DEF AnnotateRecords, input, context, decided, world
<1>2. Listed(records) /\ DOMAIN records \subseteq Nat
  BY ListedIs DEF RunInv, Lists
<1>3. DOMAIN records' = DOMAIN records /\ records' = [i \in DOMAIN records |-> records'[i]]
  BY <1>1 DEF AnnotateDuplicateMarkets
<1>4. Listed(records') /\ Len(records') = Len(records)
  BY <1>2, <1>3, ListedMap
<1>5. Lists'
  BY <1>1, <1>4 DEF RunInv, Lists
<1>6. RowsOK'
  BY <1>1, <1>2, <1>3 DEF RunInv, RowsOK, Complete
<1>7. Counted'
  BY <1>1, <1>3, <1>4 DEF RunInv, Counted, Deciding
<1>8. Saved'
  BY <1>1, <1>3 DEF RunInv, Saved
<1> QED  BY <1>1, <1>5, <1>6, <1>7, <1>8, RestStays DEF RunInv, Started, Stages

LEMMA PersistRun ==
  ASSUME RunInv, PersistMlb \/ PersistTennis \/ Persisted
  PROVE  RunInv'
<1>1. /\ stage = "persist"
      /\ UNCHANGED <<batch, games, records, cutoffs, artifact, memo, next, summary, evaluations, results, promoted>>
  BY DEF PersistMlb, PersistTennis, Persisted, input, made, context, decided, world
<1>2. DOMAIN records \subseteq Nat
  BY ListedIs DEF RunInv, Lists
<1>3. rows = <<>> \/ rows \in [DOMAIN records -> 0 .. 3]
  BY DEF RunInv, RowsOK, Complete
<1>4. CASE PersistMlb
  <2>1. batch.sport # "TENNIS" /\ Unwritten # {} /\ Unwritten \subseteq DOMAIN rows
        /\ stage' = stage /\ rows' = [rows EXCEPT ![Min(Unwritten)] = rows[Min(Unwritten)] + 1]
    BY <1>4 DEF PersistMlb, Unwritten
  <2>2. rows \in [DOMAIN records -> 0 .. 3]
    BY <1>3, <2>1
  <2>3. PICK n : n = Min(Unwritten)
    OBVIOUS
  <2>4. /\ n \in Unwritten /\ \A i \in Unwritten : n <= i
    BY <1>2, <2>1, <2>2, <2>3, LeastIsThere
  <2>5. /\ n \in DOMAIN rows /\ rows[n] \in 0 .. 2
        /\ \A i \in DOMAIN rows : i < n => rows[i] = 3
    BY <1>2, <2>2, <2>4 DEF Unwritten, Complete
  <2>6. rows' = [rows EXCEPT ![n] = rows[n] + 1]
    BY <2>1, <2>3
  <2>7. rows' \in [DOMAIN records -> 0 .. 3]
    BY <2>2, <2>5, <2>6
  <2>8. ASSUME NEW i \in DOMAIN rows', NEW j \in DOMAIN rows', i < j, rows'[j] > 0
        PROVE  rows'[i] = 3
    <3>1. i \in DOMAIN rows /\ j \in DOMAIN rows /\ i \in Nat /\ j \in Nat /\ n \in Nat
      BY <1>2, <2>2, <2>5, <2>6, <2>8
    <3>2. CASE j = n
      BY <2>5, <2>6, <2>8, <3>1, <3>2
    <3>3. CASE j # n
      <4>1. rows[i] = 3
        BY <2>6, <2>8, <3>1, <3>3 DEF RunInv, RowsOK, Complete
      <4> QED  BY <2>5, <2>6, <3>1, <4>1
    <3> QED  BY <3>2, <3>3
  <2>9. RowsOK'
    BY <1>1, <2>1, <2>7, <2>8 DEF RowsOK, Complete
  <2> QED  BY <1>1, <2>1, <2>9, RestStays DEF RunInv, made
<1>5. CASE PersistTennis
  <2>1. Unwritten # {} /\ Unwritten \subseteq DOMAIN rows /\ stage' = stage /\ rows' = [i \in DOMAIN rows |-> 3]
    BY <1>5 DEF PersistTennis, Unwritten, Complete
  <2>2. rows' \in [DOMAIN records -> 0 .. 3]
    BY <1>3, <2>1
  <2>3. RowsOK'
    BY <1>1, <2>1, <2>2 DEF RowsOK, Complete
  <2> QED  BY <1>1, <2>1, <2>3, RestStays DEF RunInv, made
<1>6. CASE Persisted
  <2>1. stage' = "load" /\ rows' = rows
    BY <1>6 DEF Persisted
  <2>2. RowsOK'
    BY <1>1, <2>1 DEF RunInv, RowsOK
  <2>3. Counted'
    BY <1>1, <2>1 DEF RunInv, Counted, Deciding
  <2> QED  BY <1>1, <2>1, <2>2, <2>3, RestStays DEF RunInv, made, Started, Stages
<1> QED  BY <1>4, <1>5, <1>6

LEMMA LoadRun ==
  ASSUME RunInv, LoadArtifact
  PROVE  RunInv'
<1>1. /\ stage = "load" /\ stage' = "decide" /\ artifact' \in {None, "model"}
      /\ UNCHANGED <<batch, games, made, records, rows, memo, next, summary, evaluations, results, promoted>>
  BY DEF LoadArtifact, input, made, context, decided, world
<1>2. RowsOK'
  BY <1>1 DEF RunInv, RowsOK
<1>3. Counted'
  BY <1>1 DEF RunInv, Counted, Deciding
<1> QED  BY <1>1, <1>2, <1>3, RestStays DEF RunInv, Started, Stages

\* Where the run goes next.
LEMMA WhereNext ==
  ASSUME RunInv, HasRecord
  PROVE  /\ stage = "decide" /\ Len(records) \in Nat /\ next.record \in 1 .. Len(records)
         /\ NextRecord.record = next.record + 1 /\ NextRecord.side = "context"
         /\ NextRecord = [record |-> NextRecord.record, side |-> NextRecord.side]
         /\ AfterSide = [record |-> AfterSide.record, side |-> AfterSide.side]
         /\ next.side = "YES" => AfterSide.record = next.record /\ AfterSide.side = "NO"
         /\ next.side = "NO" => AfterSide.record = next.record + 1 /\ AfterSide.side = "context"
<1>1. DOMAIN records = 1 .. Len(records) /\ Len(records) \in Nat
  BY ListedIs DEF RunInv, Lists
<1>2. next = [record |-> next.record, side |-> next.side]
  BY DEF RunInv, Counted
<1> QED  BY <1>1, <1>2 DEF HasRecord, NextRecord, AfterSide

\* A record is passed by.
LEMMA PassedBy ==
  ASSUME RunInv, HasRecord, next.side = "context", next' = NextRecord,
         UNCHANGED <<batch, games, made, stage, records, rows, artifact, memo, evaluations, results, promoted>>,
         \/ summary' = [summary EXCEPT !.no_market = summary.no_market + 1]
         \/ summary' = [summary EXCEPT !.before = summary.before + 1]
  PROVE  RunInv'
<1>1. /\ stage = "decide" /\ Len(records) \in Nat /\ next.record \in 1 .. Len(records)
      /\ next' = [record |-> next'.record, side |-> next'.side]
      /\ next'.record = next.record + 1 /\ next'.side = "context"
  BY WhereNext
<1>2. PICK old, new : old = summary /\ new = summary'
  OBVIOUS
<1>3. /\ old = [created |-> old.created, errors |-> old.errors, before |-> old.before, no_market |-> old.no_market]
      /\ old.created \in Nat /\ old.errors \in Nat /\ old.before \in Nat /\ old.no_market \in Nat
  BY <1>2 DEF RunInv, Counted
<1>4. \/ new = [old EXCEPT !.no_market = old.no_market + 1]
      \/ new = [old EXCEPT !.before = old.before + 1]
  BY <1>2
<1>5. /\ new.created = old.created /\ new.errors = old.errors
      /\ new.before \in Nat /\ new.no_market \in Nat
      /\ new.before + new.no_market = old.before + old.no_market + 1
      /\ new = [created |-> new.created, errors |-> new.errors, before |-> new.before, no_market |-> new.no_market]
  BY <1>3, <1>4
<1>6. Passed(new) = Passed(old) + 2
  BY <1>3, <1>5 DEF Passed
<1>7. Passed(old) = Gone(next) /\ Gone(next) = 2 * (next.record - 1)
  BY <1>1, <1>2 DEF RunInv, Counted, Gone
<1>8. Gone(next') = 2 * next.record
  BY <1>1 DEF Gone
<1>9. Passed(summary') = Gone(next')
  BY <1>1, <1>2, <1>6, <1>7, <1>8
<1>10. Counted'
  BY <1>1, <1>2, <1>3, <1>5, <1>9 DEF RunInv, Counted, Deciding
<1> QED  BY <1>10, RestStays DEF RunInv

LEMMA ContextRun ==
  ASSUME RunInv, SkipWithoutMarket \/ BuildContext \/ ContextRaises
  PROVE  RunInv'
<1>1. /\ HasRecord /\ next.side = "context"
      /\ UNCHANGED <<batch, games, made, stage, records, rows, artifact, evaluations, results, promoted>>
  BY DEF SkipWithoutMarket, BuildContext, ContextRaises, input, made, decided, world
<1>2. CASE SkipWithoutMarket \/ ContextRaises
  <2>1. memo' = memo /\ next' = NextRecord
    BY <1>2 DEF SkipWithoutMarket, ContextRaises, context
  <2>2. \/ summary' = [summary EXCEPT !.no_market = summary.no_market + 1]
        \/ summary' = [summary EXCEPT !.before = summary.before + 1]
    BY <1>2 DEF SkipWithoutMarket, ContextRaises
  <2> QED  BY <1>1, <2>1, <2>2, PassedBy
<1>3. CASE BuildContext
  <2>1. /\ summary' = summary /\ next' = [next EXCEPT !.side = "YES"]
        /\ memo' = IF Missing(artifact) THEN memo
                   ELSE [v \in DOMAIN memo \cup {artifact} |-> IF v = artifact THEN Calibrator ELSE memo[v]]
    BY <1>3 DEF BuildContext, decided
  <2>2. /\ next' = [record |-> next'.record, side |-> next'.side]
        /\ next'.record = next.record /\ next'.side = "YES"
    BY <2>1 DEF RunInv, Counted
  <2>3. next.record \in DOMAIN records /\ stage = "decide"
    BY <1>1 DEF HasRecord
  <2>4. Counted'
    <3>1. Gone(next') = Gone(next)
      BY <1>1, <2>2 DEF Gone
    <3>2. Passed(summary') = Gone(next')
      BY <2>1, <3>1 DEF RunInv, Counted
    <3> QED  BY <1>1, <2>1, <2>2, <2>3, <3>2 DEF RunInv, Counted, Deciding
  <2>5. Calibrator \in Calibrators \cup {None}
    BY DEF RunInv, MemoOK, PromotedOK, Calibrator
  <2>6. artifact \in {None, "model"}
    BY DEF RunInv, Started
  <2>7. MemoOK'
    BY <2>1, <2>5, <2>6 DEF RunInv, MemoOK, Missing
  <2> QED  BY <1>1, <2>4, <2>7, RestStays DEF RunInv
<1> QED  BY <1>2, <1>3

LEMMA SideRaisesRun ==
  ASSUME RunInv, SideRaises
  PROVE  RunInv'
<1>1. /\ HasRecord /\ next.side # "context" /\ next' = AfterSide
      /\ summary' = [summary EXCEPT !.errors = summary.errors + 1]
      /\ UNCHANGED <<batch, games, made, stage, records, rows, artifact, memo, evaluations, results, promoted>>
  BY DEF SideRaises, input, made, context, world
<1>2. /\ stage = "decide" /\ Len(records) \in Nat /\ next.record \in 1 .. Len(records) /\ next.side \in {"YES", "NO"}
      /\ DOMAIN records = 1 .. Len(records)
      /\ next' = [record |-> next'.record, side |-> next'.side]
      /\ next.side = "YES" => next'.record = next.record /\ next'.side = "NO"
      /\ next.side = "NO" => next'.record = next.record + 1 /\ next'.side = "context"
  BY <1>1, WhereNext, ListedIs DEF RunInv, Counted, Lists
<1>3. /\ summary'.errors = summary.errors + 1 /\ summary'.created = summary.created
      /\ summary'.before = summary.before /\ summary'.no_market = summary.no_market
      /\ summary' = [created |-> summary'.created, errors |-> summary'.errors,
                     before |-> summary'.before, no_market |-> summary'.no_market]
      /\ Passed(summary') = Gone(next')
  <2>1. PICK old, new : old = summary /\ new = summary'
    OBVIOUS
  <2>2. /\ old = [created |-> old.created, errors |-> old.errors, before |-> old.before, no_market |-> old.no_market]
        /\ old.created \in Nat /\ old.errors \in Nat /\ old.before \in Nat /\ old.no_market \in Nat
    BY <2>1 DEF RunInv, Counted
  <2>3. new = [old EXCEPT !.errors = old.errors + 1]
    BY <1>1, <2>1
  <2>4. /\ new.errors = old.errors + 1 /\ new.created = old.created
        /\ new.before = old.before /\ new.no_market = old.no_market
        /\ new = [created |-> new.created, errors |-> new.errors, before |-> new.before, no_market |-> new.no_market]
    BY <2>2, <2>3
  <2>5. Passed(new) = Passed(old) + 1 /\ Passed(old) \in Nat
    BY <2>2, <2>4 DEF Passed
  <2>6. Passed(old) = Gone(next)
    BY <2>1 DEF RunInv, Counted
  <2>7. Gone(next') = Gone(next) + 1
    BY <1>2 DEF Gone
  <2> QED  BY <2>1, <2>4, <2>5, <2>6, <2>7
<1>4. Counted'
  BY <1>1, <1>2, <1>3 DEF RunInv, Counted, Deciding
<1> QED  BY <1>1, <1>4, RestStays DEF RunInv

\* A saved decision is one on the record in hand.
LEMMA NewEvaluation ==
  ASSUME RunInv, EvaluateSide
  PROVE  \E history \in {results, None} :
            LET e == Evaluation(next.side, history) IN
            /\ Listed(evaluations') /\ Len(evaluations') = Len(evaluations) + 1
            /\ DOMAIN evaluations' = DOMAIN evaluations \cup {Len(evaluations')}
            /\ evaluations'[Len(evaluations')] = e
            /\ \A k \in DOMAIN evaluations : evaluations'[k] = evaluations[k]
<1>1. PICK history \in {results, None} : evaluations' = Append(evaluations, Evaluation(next.side, history))
  BY DEF EvaluateSide
<1>2. PICK s, t, e : s = evaluations /\ t = evaluations' /\ e = Evaluation(next.side, history)
  OBVIOUS
<1>3. t = Append(s, e) /\ Listed(s)
  BY <1>1, <1>2 DEF RunInv, Lists
<1>4. Listed(t) /\ Len(t) = Len(s) + 1
  BY <1>3, ListedAppend
<1>5. DOMAIN t = DOMAIN s \cup {Len(t)} /\ t[Len(t)] = e
  BY <1>3, ListedAppend
<1>6. \A k \in DOMAIN s : t[k] = s[k]
  BY <1>3, ListedAppend
<1> QED  BY <1>2, <1>4, <1>5, <1>6

LEMMA EvaluationIs ==
  ASSUME NEW side, NEW history
  PROVE  LET e == Evaluation(side, history) IN
         /\ e.record = next.record /\ e.side = side /\ e.model_version = artifact
         /\ e.calibration_version = calibration.calibration_version
         /\ \E signal, payoff, profile, health :
               /\ payoff.ev_to_settlement = None
               /\ e.decision = Decide(Record, signal, payoff, profile, health, cutoffs[next.record],
                                      history, manifest, now)
BY DEF Evaluation, EstimatePayoff

LEMMA EvaluateRun ==
  ASSUME RunInv, EvaluateSide
  PROVE  RunInv'
<1>1. /\ HasRecord /\ next.side # "context" /\ next' = AfterSide
      /\ summary' = [summary EXCEPT !.created = summary.created + 1]
      /\ UNCHANGED <<batch, games, made, stage, records, cutoffs, rows, artifact, memo, results, promoted>>
  BY DEF EvaluateSide, input, made, context, world
<1>2. /\ stage = "decide" /\ Len(records) \in Nat /\ next.record \in 1 .. Len(records) /\ next.side \in {"YES", "NO"}
      /\ DOMAIN records = 1 .. Len(records)
      /\ next' = [record |-> next'.record, side |-> next'.side]
      /\ next.side = "YES" => next'.record = next.record /\ next'.side = "NO"
      /\ next.side = "NO" => next'.record = next.record + 1 /\ next'.side = "context"
  BY <1>1, WhereNext, ListedIs DEF RunInv, Counted, Lists
<1>3. /\ summary'.created = summary.created + 1 /\ summary'.errors = summary.errors
      /\ summary'.before = summary.before /\ summary'.no_market = summary.no_market
      /\ summary' = [created |-> summary'.created, errors |-> summary'.errors,
                     before |-> summary'.before, no_market |-> summary'.no_market]
      /\ Passed(summary') = Gone(next')
  <2>1. PICK old, new : old = summary /\ new = summary'
    OBVIOUS
  <2>2. /\ old = [created |-> old.created, errors |-> old.errors, before |-> old.before, no_market |-> old.no_market]
        /\ old.created \in Nat /\ old.errors \in Nat /\ old.before \in Nat /\ old.no_market \in Nat
    BY <2>1 DEF RunInv, Counted
  <2>3. new = [old EXCEPT !.created = old.created + 1]
    BY <1>1, <2>1
  <2>4. /\ new.created = old.created + 1 /\ new.errors = old.errors
        /\ new.before = old.before /\ new.no_market = old.no_market
        /\ new = [created |-> new.created, errors |-> new.errors, before |-> new.before, no_market |-> new.no_market]
    BY <2>2, <2>3
  <2>5. Passed(new) = Passed(old) + 1 /\ Passed(old) \in Nat
    BY <2>2, <2>4 DEF Passed
  <2>6. Passed(old) = Gone(next)
    BY <2>1 DEF RunInv, Counted
  <2>7. Gone(next') = Gone(next) + 1
    BY <1>2 DEF Gone
  <2> QED  BY <2>1, <2>4, <2>5, <2>6, <2>7
<1>4. PICK history \in {results, None} :
        /\ Listed(evaluations') /\ Len(evaluations') = Len(evaluations) + 1
        /\ DOMAIN evaluations' = DOMAIN evaluations \cup {Len(evaluations')}
        /\ evaluations'[Len(evaluations')] = Evaluation(next.side, history)
        /\ \A k \in DOMAIN evaluations : evaluations'[k] = evaluations[k]
  BY NewEvaluation
<1>5. Counted'
  <2>1. summary'.created = Len(evaluations')
    BY <1>3, <1>4 DEF RunInv, Counted
  <2> QED  BY <1>1, <1>2, <1>3, <2>1 DEF RunInv, Counted, Deciding
<1>6. Saved'
  <2>1. /\ Evaluation(next.side, history).record \in DOMAIN records
        /\ WellFormed(Evaluation(next.side, history).decision)
    BY <1>2, EvaluationIs, DecideIsWhole
  <2> QED  BY <1>1, <1>4, <2>1 DEF RunInv, Saved
<1>7. Lists'
  BY <1>1, <1>4 DEF RunInv, Lists
<1> QED  BY <1>1, <1>5, <1>6, <1>7, RestStays DEF RunInv

LEMMA EndRun ==
  ASSUME RunInv, Finished \/ Abort
  PROVE  RunInv'
<1>1. UNCHANGED <<batch, games, made, records, rows, artifact, memo, next, summary, evaluations, results, promoted>>
  BY DEF Finished, Abort, input, made, context, decided, world
<1>2. CASE Finished
  <2>1. stage = "decide" /\ next.record \notin DOMAIN records /\ stage' = "done"
    BY <1>2 DEF Finished
  <2>2. DOMAIN records = 1 .. Len(records) /\ Len(records) \in Nat
    BY ListedIs DEF RunInv, Lists
  <2>3. RowsOK'
    BY <1>1, <2>1 DEF RunInv, RowsOK
  <2>4. Counted'
    BY <1>1, <2>1, <2>2 DEF RunInv, Counted, Deciding
  <2> QED  BY <1>1, <2>1, <2>3, <2>4, RestStays DEF RunInv, Started, Stages
<1>3. CASE Abort
  <2>1. stage' = "aborted"
    BY <1>3 DEF Abort
  <2>2. RowsOK'
    BY <1>1, <2>1 DEF RunInv, RowsOK
  <2>3. Counted'
    BY <1>1, <2>1 DEF RunInv, Counted, Deciding
  <2> QED  BY <1>1, <2>1, <2>2, <2>3, RestStays DEF RunInv, Started, Stages
<1> QED  BY <1>2, <1>3

LEMMA WorldRun ==
  ASSUME RunInv, RecordResult \/ Promote \/ Wait \/ UNCHANGED vars
  PROVE  RunInv'
<1>1. UNCHANGED <<batch, games, stage, made, records, cutoffs, rows, artifact, memo, next, summary, evaluations>>
  BY DEF RecordResult, Promote, Wait, vars, input, made, context, decided, world
<1>2. Lists' /\ PromotedOK'
  <2>1. CASE RecordResult
    <3>1. PICK id : results' = Append(results, id)
      BY <2>1 DEF RecordResult
    <3>2. Listed(results) /\ Len(results) \in Nat
      BY ListedIs DEF RunInv, Lists
    <3>3. Listed(results') /\ Len(results') = Len(results) + 1
      BY <3>1, <3>2, ListedAppend
    <3>4. promoted' = promoted
      BY <2>1 DEF RecordResult
    <3> QED  BY <1>1, <3>2, <3>3, <3>4 DEF RunInv, Lists, PromotedOK
  <2>2. CASE Promote \/ Wait \/ UNCHANGED vars
    <3>1. results' = results /\ promoted' \in Calibrators \cup {None}
      BY <2>2 DEF Promote, Wait, vars, world, RunInv, PromotedOK
    <3> QED  BY <1>1, <3>1 DEF RunInv, Lists, PromotedOK
  <2> QED  BY <2>1, <2>2
<1> QED  BY <1>1, <1>2, RestStays DEF RunInv

LEMMA RunStep == ASSUME RunInv, [Next]_vars  PROVE RunInv'
BY FetchesRun, PrepareRun, AnnotateRun, PersistRun, LoadRun, ContextRun, EvaluateRun, SideRaisesRun,
   EndRun, WorldRun DEF Next, Ended

LEMMA RunAlways == Spec => []RunInv
<1>1. Init => RunInv
  BY RunFirst
<1>2. RunInv /\ [Next]_vars => RunInv'
  BY RunStep
<1> QED  BY <1>1, <1>2, PTL DEF Spec

\* A set of which all members are equal has at most one.
LEMMA AllEqual ==
  ASSUME NEW s, \A i, j \in DOMAIN s : s[i] = s[j]
  PROVE  Cardinality(ToSet(s)) <= 1
<1>1. CASE ToSet(s) = {}
  BY <1>1, FS_EmptySet
<1>2. CASE ToSet(s) # {}
  <2>1. PICK x \in ToSet(s) : TRUE
    BY <1>2
  <2>2. ToSet(s) = {x}
    BY <2>1 DEF ToSet
  <2> QED  BY <2>2, FS_Singleton
<1> QED  BY <1>1, <1>2

\* Whatever raises and wherever a run stops, the rows of a record are there together and
\* every record is counted once (run_mlb_pipeline, run_tennis_pipeline, run_decision_pipeline).
THEOREM RunAlwaysAccounted == Spec => []RunAccounted
<1>1. ASSUME RunInv  PROVE RunAccounted
  <2>1. PipelineTypeOK
    <3>1. stage \in Stages /\ Len(cutoffs) = Len(records) /\ Len(records) <= Len(games)
      BY <1>1 DEF RunInv, Started, Lists
    <3>2. rows = <<>> \/ (DOMAIN rows = DOMAIN records /\ \A i \in DOMAIN rows : rows[i] \in 0 .. Complete)
      BY <1>1 DEF RunInv, RowsOK
    <3>3. DOMAIN memo \subseteq {"model"} /\ \A v \in DOMAIN memo : memo[v] \in Calibrators \cup {None}
      BY <1>1 DEF RunInv, MemoOK
    <3> QED  BY <1>1, <3>1, <3>2, <3>3 DEF RunInv, Saved, PipelineTypeOK, Stages
  <2>2. RowsTogether
    BY <1>1, AllEqual DEF RunInv, RowsOK, RowsTogether
  <2>3. SummaryBalances
    <3>1. SUFFICES ASSUME stage = "done"
                   PROVE  /\ summary.created + summary.errors + 2 * (summary.before + summary.no_market)
                               = 2 * Len(records)
                          /\ summary.created = Len(evaluations)
      BY DEF SummaryBalances
    <3>2. Gone(next) = 2 * Len(records) /\ Passed(summary) = Gone(next) /\ summary.created = Len(evaluations)
      BY <1>1, <3>1, ListedIs DEF RunInv, Counted, Gone, Lists
    <3> QED  BY <3>2 DEF Passed
  <2> QED  BY <2>1, <2>2, <2>3 DEF RunAccounted
<1> QED  BY <1>1, RunAlways, PTL
-----------------------------------------------------------------------------
(* Decisions *)

\* What a decision says is right for the record it is about.
Judged(e) ==
    LET r == records[e.record] IN
    /\ (\E n \in DOMAIN results : n <= cutoffs[e.record] /\ results[n] = r.event_id)
       /\ "known_result" \in manifest.hard_block_rules => e.decision.signal_type = "PASS"
    /\ "known_result" \in e.decision.triggered =>
          \E n \in DOMAIN results : n <= cutoffs[e.record] /\ results[n] = r.event_id
    /\ e.decision.signal_type # "ENTER"
    /\ manifest.hard_block_rules = BlockRules
       /\ (r.status = "CANCELLED" \/ r.validation_errors \cap CORE_FIELDS # {}
             \/ (r.market.yes_ask = None /\ r.market.no_ask = None))
          => e.decision.signal_type = "PASS"

JudgedInv == RunInv /\ \A k \in DOMAIN evaluations : Judged(evaluations[k])

LEMMA NewIsJudged ==
  ASSUME RunInv, HasRecord, NEW side, NEW history \in {results, None}
  PROVE  Judged(Evaluation(side, history))
<1> PICK e : e = Evaluation(side, history)
  OBVIOUS
<1> PICK r : r = records[next.record]
  OBVIOUS
<1>1. PICK signal, payoff, profile, health :
        /\ payoff.ev_to_settlement = None
        /\ e.decision = Decide(r, signal, payoff, profile, health, cutoffs[next.record], history, manifest, now)
  BY EvaluationIs DEF Record
<1>2. e.record = next.record
  BY EvaluationIs
<1>3. e.decision.signal_type # "ENTER"
  BY <1>1, UnknownIsNotEntered
<1>4. (\E rule \in manifest.hard_block_rules : Blocks(rule, r, cutoffs[next.record], history)) \/ history = None
        => e.decision.signal_type = "PASS"
  BY <1>1, BlockedIsPass
<1>5. (\E n \in DOMAIN results : n <= cutoffs[next.record] /\ results[n] = r.event_id)
        => Blocks("known_result", r, cutoffs[next.record], results)
  BY DEF Blocks, KnownResults
<1>6. "known_result" \in e.decision.triggered =>
        Blocks("known_result", r, cutoffs[next.record], results)
  BY <1>1, TriggeredMeansBlocked
<1>7. Blocks("known_result", r, cutoffs[next.record], results)
        => \E n \in DOMAIN results : n <= cutoffs[next.record] /\ results[n] = r.event_id
  BY DEF Blocks, KnownResults
<1>8. /\ r.status = "CANCELLED" => Blocks("invalid_event", r, cutoffs[next.record], history)
      /\ r.validation_errors \cap CORE_FIELDS # {}
            => Blocks("corrupted_critical_data", r, cutoffs[next.record], history)
      /\ r.market.yes_ask = None /\ r.market.no_ask = None
            => Blocks("invalid_or_closed_market", r, cutoffs[next.record], history)
  BY DEF Blocks, MarketPrice, Missing
<1>9. {"invalid_event", "corrupted_critical_data", "invalid_or_closed_market"} \subseteq BlockRules
  BY DEF BlockRules
<1>10. Judged(e)
  BY <1>2, <1>3, <1>4, <1>5, <1>6, <1>7, <1>8, <1>9 DEF Judged
<1> QED  BY <1>10

\* A decision stays right: its record and its cutoff stay, and results recorded later are
\* after the cutoff.
LEMMA StaysJudged ==
  ASSUME RunInv, NEW e, e.record \in DOMAIN records, Judged(e),
         UNCHANGED <<records, cutoffs, manifest>>,
         \/ UNCHANGED results
         \/ \E id : results' = Append(results, id)
  PROVE  Judged(e)'
<1>1. CASE UNCHANGED results
  BY <1>1 DEF Judged
<1>2. ASSUME NEW id, results' = Append(results, id)  PROVE Judged(e)'
  <2>1. Listed(results) /\ Len(results) \in Nat /\ DOMAIN results = 1 .. Len(results)
    BY ListedIs DEF RunInv, Lists
  <2>2. DOMAIN results' = DOMAIN results \cup {Len(results')} /\ Len(results') = Len(results) + 1
    BY <1>2, <2>1, ListedAppend
  <2>3. \A n \in DOMAIN results : results'[n] = results[n]
    <3>1. PICK old, new : old = results /\ new = results'
      OBVIOUS
    <3>2. new = Append(old, id) /\ Listed(old)
      BY <1>2, <2>1, <3>1
    <3>3. \A n \in DOMAIN old : new[n] = old[n]
      BY <3>2, ListedAppend
    <3> QED  BY <3>1, <3>3
  <2>4. cutoffs[e.record] \in Nat /\ cutoffs[e.record] <= Len(results)
    BY ListedIs DEF RunInv, Lists
  <2>5. \A n : n \in DOMAIN results' /\ n <= cutoffs[e.record] <=> n \in DOMAIN results /\ n <= cutoffs[e.record]
    BY <2>1, <2>2, <2>4
  <2> QED  BY <2>3, <2>5 DEF Judged
<1> QED  BY <1>1, <1>2

LEMMA JudgedFirst == Init => JudgedInv
<1> SUFFICES ASSUME Init  PROVE JudgedInv
  OBVIOUS
<1>1. evaluations = <<>>
  BY DEF Init
<1> QED  BY <1>1, RunFirst DEF JudgedInv

LEMMA JudgedStep == ASSUME JudgedInv, [Next]_vars  PROVE JudgedInv'
<1>1. RunInv /\ RunInv'
  BY RunStep DEF JudgedInv
<1>2. CASE evaluations = <<>> /\ evaluations' = <<>>
  BY <1>1, <1>2 DEF JudgedInv
<1>3. manifest' = manifest
  BY DEF Next, FetchSchedule, FetchEvents, PrepareRecord, AnnotateRecords, PersistMlb, PersistTennis, Persisted,
         LoadArtifact, SkipWithoutMarket, BuildContext, ContextRaises, EvaluateSide, SideRaises, Finished,
         Abort, RecordResult, Promote, Wait, Ended, vars, input
<1>4. ASSUME UNCHANGED <<records, cutoffs, evaluations>>,
             UNCHANGED results \/ \E id : results' = Append(results, id)
      PROVE  JudgedInv'
  <2>1. ASSUME NEW k \in DOMAIN evaluations  PROVE Judged(evaluations[k])'
    <3>1. PICK e : e = evaluations[k]
      OBVIOUS
    <3>2. e.record \in DOMAIN records /\ Judged(e)
      BY <1>1, <3>1 DEF JudgedInv, RunInv, Saved
    <3>3. Judged(e)'
      BY <1>1, <1>3, <1>4, <3>2, StaysJudged
    <3> QED  BY <1>4, <3>1, <3>3
  <2> QED  BY <1>1, <1>4, <2>1 DEF JudgedInv
<1>5. CASE FetchSchedule \/ FetchEvents \/ PrepareRecord \/ AnnotateRecords
  <2>1. evaluations' = evaluations /\ stage \notin Deciding
    BY <1>5 DEF FetchSchedule, FetchEvents, PrepareRecord, AnnotateRecords, Deciding, decided
  <2> QED  BY <1>1, <1>2, <2>1 DEF RunInv, Counted
<1>6. CASE EvaluateSide
  <2>1. /\ HasRecord /\ UNCHANGED <<records, cutoffs, results>>
    BY <1>6 DEF EvaluateSide, made, world
  <2>2. PICK history \in {results, None} :
          /\ DOMAIN evaluations' = DOMAIN evaluations \cup {Len(evaluations')}
          /\ evaluations'[Len(evaluations')] = Evaluation(next.side, history)
          /\ \A k \in DOMAIN evaluations : evaluations'[k] = evaluations[k]
    BY <1>1, <1>6, NewEvaluation
  <2>3. ASSUME NEW e, e.record \in DOMAIN records, Judged(e)  PROVE Judged(e)'
    BY <1>1, <1>3, <2>1, <2>3, StaysJudged
  <2>4. PICK new : new = Evaluation(next.side, history)
    OBVIOUS
  <2>5. Judged(new) /\ new.record \in DOMAIN records
    BY <1>1, <2>1, <2>4, NewIsJudged, EvaluationIs DEF HasRecord
  <2>6. Judged(new)'
    BY <2>3, <2>5
  <2>7. ASSUME NEW k \in DOMAIN evaluations'  PROVE Judged(evaluations[k])'
    <3>1. PICK e : e = evaluations'[k]
      OBVIOUS
    <3>2. Judged(e)'
      <4>1. CASE k \in DOMAIN evaluations
        <5>1. e = evaluations[k]
          BY <2>2, <3>1, <4>1
        <5>2. e.record \in DOMAIN records /\ Judged(e)
          BY <1>1, <4>1, <5>1 DEF JudgedInv, RunInv, Saved
        <5> QED  BY <2>3, <5>2
      <4>2. CASE k \notin DOMAIN evaluations
        <5>1. e = new
          BY <2>2, <2>4, <3>1, <4>2
        <5> QED  BY <2>6, <5>1
      <4> QED  BY <4>1, <4>2
    <3> QED  BY <3>1, <3>2
  <2> QED  BY <1>1, <2>7 DEF JudgedInv
<1>7. CASE RecordResult
  <2>1. UNCHANGED <<records, cutoffs, evaluations>> /\ \E id : results' = Append(results, id)
    BY <1>7 DEF RecordResult, made, decided
  <2> QED  BY <1>4, <2>1
<1>8. CASE \/ PersistMlb \/ PersistTennis \/ Persisted \/ LoadArtifact \/ SkipWithoutMarket \/ BuildContext
           \/ ContextRaises \/ SideRaises \/ Finished \/ Abort \/ Promote \/ Wait \/ Ended \/ UNCHANGED vars
  <2>1. UNCHANGED <<records, cutoffs, evaluations, results>>
    BY <1>8 DEF PersistMlb, PersistTennis, Persisted, LoadArtifact, SkipWithoutMarket, BuildContext, ContextRaises,
                SideRaises, Finished, Abort, Promote, Wait, Ended, vars, made, decided, world
  <2> QED  BY <1>4, <2>1
<1> QED  BY <1>5, <1>6, <1>7, <1>8 DEF Next

\* A decision rests on what was known at the cutoff, no less and no more, a block goes before
\* a hold, and nothing is entered while the net value is unknown (hard_rules.py, decision.py).
THEOREM DecisionsAlwaysSound == Spec => []DecisionsSound
<1>1. Init => JudgedInv
  BY JudgedFirst
<1>2. JudgedInv /\ [Next]_vars => JudgedInv'
  BY JudgedStep
<1>3. JudgedInv => DecisionsSound
  BY DEF JudgedInv, Judged, DecisionsSound, KnownResultNeverOffered, LaterResultNotUsed, BlockedNeverHeld, NeverEnter
<1> QED  BY <1>1, <1>2, <1>3, PTL DEF Spec
-----------------------------------------------------------------------------
(* Calibration *)

\* The calibrator that this run loaded for its model, if it has one.
VersionUsed == IF artifact = None \/ memo["model"] = None THEN None ELSE memo["model"].version

\* Once a record has its context, the run has its calibrator.
CalibratedInv ==
    /\ RunInv
    /\ (next.side # "context" \/ evaluations # <<>>) => artifact = None \/ "model" \in DOMAIN memo
    /\ next.side # "context" => calibration.calibration_version = VersionUsed
    /\ \A k \in DOMAIN evaluations :
          evaluations[k].model_version = artifact /\ evaluations[k].calibration_version = VersionUsed

LEMMA CalibratedStep == ASSUME CalibratedInv, [Next]_vars  PROVE CalibratedInv'
<1>1. RunInv /\ RunInv'
  BY RunStep DEF CalibratedInv
<1>2. ASSUME UNCHANGED <<artifact, memo, calibration, evaluations>>,
             next' = next \/ next'.side = "context" \/ next.side # "context"
      PROVE  CalibratedInv'
  BY <1>1, <1>2 DEF CalibratedInv, VersionUsed
<1>3. CASE LoadArtifact
  <2>1. stage = "load" /\ UNCHANGED <<next, evaluations>>
    BY <1>3 DEF LoadArtifact, decided
  <2>2. next.side = "context" /\ evaluations = <<>>
    BY <1>1, <2>1 DEF RunInv, Counted, Deciding
  <2> QED  BY <1>1, <2>1, <2>2 DEF CalibratedInv
<1>4. CASE BuildContext
  <2>1. /\ UNCHANGED <<artifact, evaluations>> /\ HasRecord /\ next.side = "context"
        /\ memo' = IF Missing(artifact) THEN memo
                   ELSE [v \in DOMAIN memo \cup {artifact} |-> IF v = artifact THEN Calibrator ELSE memo[v]]
    BY <1>4 DEF BuildContext, decided
  <2>2. PICK p \in IF Missing(artifact) THEN {None} ELSE Probabilities :
          calibration' = Calibrate(p, IF Missing(artifact) THEN None ELSE Calibrator)
    BY <1>4 DEF BuildContext
  <2>3. artifact \in {None, "model"} /\ None # "model"
    BY <1>1, PipelineAssumption DEF RunInv, Started
  <2>4. CASE artifact = None
    <3>1. calibration'.calibration_version = None
      BY <2>2, <2>4 DEF Calibrate, Missing
    <3> QED  BY <1>1, <2>1, <2>4, <3>1 DEF CalibratedInv, VersionUsed, Missing
  <2>5. CASE artifact = "model"
    <3>1. PICK c : c = Calibrator
      OBVIOUS
    <3>2. memo'["model"] = c /\ "model" \in DOMAIN memo'
      <4>1. memo' = [v \in DOMAIN memo \cup {"model"} |-> IF v = "model" THEN c ELSE memo[v]]
        BY <2>1, <2>3, <2>5, <3>1 DEF Missing
      <4> QED  BY <4>1
    <3>3. p # None /\ calibration' = Calibrate(p, c)
      BY <2>2, <2>3, <2>5, <3>1, PipelineAssumption DEF Missing
    <3>4. calibration'.calibration_version = IF c = None THEN None ELSE c.version
      BY <3>3 DEF Calibrate, Missing
    <3>5. VersionUsed' = IF c = None THEN None ELSE c.version
      <4>1. artifact' = "model"
        BY <2>1, <2>5
      <4> QED  BY <2>3, <3>2, <4>1 DEF VersionUsed
    <3>6. evaluations # <<>> => VersionUsed' = VersionUsed
      <4>1. SUFFICES ASSUME "model" \in DOMAIN memo  PROVE VersionUsed' = VersionUsed
        BY <2>3, <2>5 DEF CalibratedInv
      <4>2. c = memo["model"]
        BY <2>5, <3>1, <4>1 DEF Calibrator
      <4>3. VersionUsed = IF c = None THEN None ELSE c.version
        BY <2>3, <2>5, <4>2 DEF VersionUsed
      <4> QED  BY <3>5, <4>3
    <3>7. \A k \in DOMAIN evaluations : evaluations # <<>>
      OBVIOUS
    <3> QED  BY <1>1, <2>1, <3>2, <3>4, <3>5, <3>6, <3>7 DEF CalibratedInv
  <2> QED  BY <2>3, <2>4, <2>5
<1>5. CASE EvaluateSide
  <2>1. UNCHANGED <<artifact, memo, calibration>> /\ next.side # "context"
    BY <1>5 DEF EvaluateSide, context
  <2>2. PICK history \in {results, None} :
          /\ DOMAIN evaluations' = DOMAIN evaluations \cup {Len(evaluations')}
          /\ evaluations'[Len(evaluations')] = Evaluation(next.side, history)
          /\ \A k \in DOMAIN evaluations : evaluations'[k] = evaluations[k]
    BY <1>1, <1>5, NewEvaluation
  <2>3. /\ Evaluation(next.side, history).model_version = artifact
        /\ Evaluation(next.side, history).calibration_version = VersionUsed
    BY <2>1, EvaluationIs DEF CalibratedInv
  <2>4. VersionUsed' = VersionUsed
    BY <2>1 DEF VersionUsed
  <2> QED  BY <1>1, <2>1, <2>2, <2>3, <2>4 DEF CalibratedInv
<1>6. CASE SkipWithoutMarket \/ ContextRaises \/ SideRaises
  <2>1. UNCHANGED <<artifact, memo, calibration, evaluations>>
    BY <1>6 DEF SkipWithoutMarket, ContextRaises, SideRaises, context
  <2>2. next'.side = "context" \/ next.side # "context"
    BY <1>6 DEF SkipWithoutMarket, ContextRaises, SideRaises, NextRecord
  <2> QED  BY <1>2, <2>1, <2>2
<1>7. CASE \/ FetchSchedule \/ FetchEvents \/ PrepareRecord \/ AnnotateRecords \/ PersistMlb \/ PersistTennis \/ Persisted
           \/ Finished \/ Abort \/ RecordResult \/ Promote \/ Wait \/ Ended \/ UNCHANGED vars
  <2>1. UNCHANGED <<artifact, memo, calibration, evaluations, next>>
    BY <1>7 DEF FetchSchedule, FetchEvents, PrepareRecord, AnnotateRecords, PersistMlb, PersistTennis, Persisted,
                Finished, Abort, RecordResult, Promote, Wait, Ended, vars, context, decided
  <2> QED  BY <1>2, <2>1
<1> QED  BY <1>3, <1>4, <1>5, <1>6, <1>7 DEF Next

\* All that one run predicts with one model is calibrated alike, although calibrators are
\* promoted and withdrawn meanwhile (calibrator_memo of run_decision_pipeline).
THEOREM OneCalibrationAlways == Spec => []OneCalibrationPerModel
<1>1. Init => CalibratedInv
  BY RunFirst DEF Init, CalibratedInv
<1>2. CalibratedInv /\ [Next]_vars => CalibratedInv'
  BY CalibratedStep
<1>3. CalibratedInv => OneCalibrationPerModel
  BY DEF CalibratedInv, OneCalibrationPerModel
<1> QED  BY <1>1, <1>2, <1>3, PTL DEF Spec
-----------------------------------------------------------------------------
(* Lists, names and scores *)

\* A share of a whole is not more than the whole.
LEMMA QuotientBound ==
  ASSUME NEW c \in Nat, NEW d \in Nat \ {0}, c <= d
  PROVE  (One * c) \div d \in 0 .. One
<1>1. PICK x \in Nat : x = One * c
  BY DEF One
<1>2. x <= One * d
  BY <1>1 DEF One
<1>3. PICK q \in Int : q = x \div d
  BY <1>1
<1>4. x = d * q + (x % d) /\ 0 <= x % d /\ x % d < d
  BY <1>1, <1>3
<1>5. q >= 0
  BY <1>4, <1>1
<1>6. q <= One
  BY <1>2, <1>4 DEF One
<1> QED BY <1>1, <1>3, <1>5, <1>6 DEF One

\* A list has finitely many members, and some unless it is empty.
LEMMA ListFinite ==
  ASSUME NEW s, IsList(s)
  PROVE  IsFiniteSet(ToSet(s)) /\ (s # <<>> => ToSet(s) # {})
<1>1. PICK n \in Nat : n = Len(s)
  BY DEF IsList
<1>2. s = [i \in 1 .. n |-> s[i]] /\ DOMAIN s = 1 .. n
  BY <1>1 DEF IsList
<1>3. ToSet(s) = {s[i] : i \in 1 .. n}
  BY <1>2 DEF ToSet
<1>4. PICK S : S = {s[i] : i \in 1 .. n}
  OBVIOUS
<1>5. IsFiniteSet(S)
  <2>1. s \in [1 .. n -> S]
    BY <1>2, <1>4
  <2>2. s \in Seq(S) /\ Len(s) = n
    BY <1>1, <2>1
  <2>3. \A x \in S : \E k \in 1 .. Len(s) : s[k] = x
    BY <1>4, <2>2
  <2> QED  BY <2>2, <2>3 DEF IsFiniteSet
<1>6. s # <<>> => n >= 1
  BY <1>2
<1>7. n >= 1 => 1 \in 1 .. n
  OBVIOUS
<1> QED  BY <1>3, <1>4, <1>5, <1>6, <1>7

LEMMA NameSimilarityBound ==
  ASSUME NEW a, NEW b, IsName(a), IsName(b)
  PROVE  NameSimilarity(a, b) \in 0 .. One
<1>1. CASE Missing(a) \/ Missing(b)
  BY <1>1 DEF NameSimilarity, One
<1>2. CASE ~(Missing(a) \/ Missing(b)) /\ a = b
  BY <1>2 DEF NameSimilarity, One
<1>3. CASE ~(Missing(a) \/ Missing(b)) /\ a # b
  <2>1. IsList(a) /\ IsList(b)
    BY <1>3 DEF IsName, Missing
  <2>2. PICK A, B : A = ToSet(a) /\ B = ToSet(b)
    OBVIOUS
  <2>3. IsFiniteSet(A) /\ IsFiniteSet(B) /\ (A # {} \/ B # {})
    BY <1>3, <2>1, <2>2, ListFinite
  <2>4. IsFiniteSet(A \cup B) /\ Cardinality(A \cap B) <= Cardinality(A \cup B)
        /\ Cardinality(A \cap B) \in Nat /\ Cardinality(A \cup B) \in Nat
    <3>1. IsFiniteSet(A \cup B)
      BY <2>3, FS_Union
    <3>2. A \cap B \subseteq A \cup B
      OBVIOUS
    <3>3. IsFiniteSet(A \cap B) /\ Cardinality(A \cap B) <= Cardinality(A \cup B)
      BY <3>1, <3>2, FS_Subset
    <3> QED  BY <3>1, <3>3, FS_CardinalityType
  <2>5. Cardinality(A \cup B) # 0
    BY <2>3, <2>4, FS_EmptySet
  <2>6. Jaccard(A, B) \in 0 .. One
    BY <2>4, <2>5, QuotientBound DEF Jaccard
  <2>7. One \in 0 .. One
    BY DEF One
  <2> QED  BY <2>2, <2>6, <2>7, <1>3 DEF NameSimilarity
<1> QED  BY <1>1, <1>2, <1>3

\* A name that is missing makes the score of the pair nothing.
LEMMA PairScoreIs ==
  ASSUME NEW a, NEW b, NEW c, NEW d, IsName(a), IsName(b), IsName(c), IsName(d)
  PROVE  /\ PairScore(a, b, c, d) \in 0 .. One
         /\ a = None \/ b = None \/ c = None \/ d = None => PairScore(a, b, c, d) = 0
<1>1. PICK x, y : x = NameSimilarity(a, c) /\ y = NameSimilarity(b, d)
  OBVIOUS
<1>2. x \in 0 .. One /\ y \in 0 .. One
  BY <1>1, NameSimilarityBound
<1>3. a = None \/ c = None => x = 0
  BY <1>1 DEF NameSimilarity, Missing
<1>4. b = None \/ d = None => y = 0
  BY <1>1 DEF NameSimilarity, Missing
<1>5. PICK m : m = Min({x, y})
  OBVIOUS
<1>6. m \in {x, y} /\ m <= x /\ m <= y
  <2>1. {x, y} \subseteq Nat /\ {x, y} # {}
    BY <1>2
  <2> QED  BY <1>5, <2>1, LeastIsThere
<1>7. m \in 0 .. One
  BY <1>2, <1>6
<1>8. x = 0 \/ y = 0 => m = 0
  <2>1. m \in Nat /\ m <= x /\ m <= y
    BY <1>6, <1>7
  <2> QED  BY <2>1
<1> QED  BY <1>1, <1>3, <1>4, <1>5, <1>7, <1>8 DEF PairScore

LEMMA ScoreIs ==
  ASSUME NEW a, NEW b, NEW c, NEW d, IsName(a), IsName(b), IsName(c), IsName(d)
  PROVE  LET score == ParticipantsSimilarity(a, b, c, d).score IN
         /\ score \in 0 .. One
         /\ a = None \/ b = None \/ c = None \/ d = None => score = 0
<1>1. PICK x, y : x = PairScore(a, b, c, d) /\ y = PairScore(a, b, d, c)
  OBVIOUS
<1>2. x \in 0 .. One /\ y \in 0 .. One
  BY <1>1, PairScoreIs
<1>3. a = None \/ b = None \/ c = None \/ d = None => x = 0 /\ y = 0
  BY <1>1, PairScoreIs
<1>4. PICK m : m = Max({x, y})
  OBVIOUS
<1>5. m \in {x, y}
  <2>1. \E z \in {x, y} : \A w \in {x, y} : z >= w
    BY <1>2 DEF One
  <2> QED  BY <1>4, <2>1 DEF Max
<1>6. ParticipantsSimilarity(a, b, c, d).score = m
  BY <1>1, <1>4 DEF ParticipantsSimilarity, BetterOrder
<1>7. m \in 0 .. One /\ (x = 0 /\ y = 0 => m = 0)
  BY <1>2, <1>5
<1> QED  BY <1>3, <1>6, <1>7
\* A list has its members where its indices are.
LEMMA ListIs ==
  ASSUME NEW s, IsList(s)
  PROVE  /\ Len(s) \in Nat /\ DOMAIN s = 1 .. Len(s) /\ IsFiniteSet(DOMAIN s)
         /\ s # <<>> => Len(s) >= 1
         /\ ToSet(s) = {s[i] : i \in DOMAIN s}
<1>1. PICK n \in Nat : n = Len(s)
  BY DEF IsList
<1>2. s = [i \in 1 .. n |-> s[i]] /\ DOMAIN s = 1 .. n
  BY <1>1 DEF IsList
<1>3. IsFiniteSet(1 .. n)
  BY FS_Interval
<1>4. s # <<>> => n >= 1
  BY <1>2
<1> QED  BY <1>1, <1>2, <1>3, <1>4 DEF ToSet

\* What is read of an event is names and a number.
LEMMA TargetSound ==
  ASSUME NEW e, EventSound(e)
  PROVE  IsName(Target(e).a) /\ IsName(Target(e).b) /\ IsNumber(Target(e).start)
<1>1. PICK n \in Nat : n = Len(e.markets)
  BY DEF EventSound, IsList
<1>2. DOMAIN e.markets = 1 .. n /\ (e.markets # <<>> => n >= 1)
  BY <1>1, ListIs DEF EventSound
<1>3. \A i \in 1 .. n : MarketSound(e.markets[i])
  BY <1>2 DEF EventSound
<1>4. IsName(None) /\ IsNumber(None)
  BY DEF IsName, IsNumber
<1>5. IsName(EventParticipants(e)[1]) /\ IsName(EventParticipants(e)[2])
  <2>1. CASE e.title # None
    BY <2>1 DEF EventSound, EventParticipants, Present, Missing
  <2>2. CASE e.title = None /\ n >= 2
    <3>1. EventParticipants(e) = <<e.markets[1].yes_sub_title, e.markets[2].yes_sub_title>>
      BY <1>1, <2>2 DEF EventParticipants, Present, Missing
    <3> QED  BY <1>3, <2>2, <3>1 DEF MarketSound
  <2>3. CASE e.title = None /\ n = 1
    <3>1. EventParticipants(e) = <<e.markets[1].yes_sub_title, e.markets[1].no_sub_title>>
      BY <1>1, <2>3 DEF EventParticipants, Present, Missing
    <3> QED  BY <1>3, <2>3, <3>1 DEF MarketSound
  <2>4. CASE e.title = None /\ n = 0
    <3>1. EventParticipants(e) = <<None, None>>
      BY <1>1, <2>4 DEF EventParticipants, Present, Missing
    <3> QED  BY <1>4, <3>1
  <2> QED  BY <2>1, <2>2, <2>3, <2>4
<1>6. IsNumber(EventStart(e))
  <2>1. CASE e.markets = <<>>
    BY <1>4, <2>1 DEF EventStart
  <2>2. CASE e.markets # <<>>
    <3>1. MarketSound(e.markets[1])
      BY <1>2, <1>3, <2>2
    <3> QED  BY <2>2, <3>1 DEF EventStart, MarketSound, Present
  <2> QED  BY <2>1, <2>2
<1> QED  BY <1>5, <1>6 DEF Target

\* The first of the best is one of them, and none is better.
LEMMA FirstOfBestIs ==
  ASSUME NEW score, DOMAIN score \subseteq Nat, DOMAIN score # {},
         \A i \in DOMAIN score : score[i] \in 0 .. One
  PROVE  /\ FirstOfBest(score) \in DOMAIN score
         /\ \A j \in DOMAIN score : score[j] <= score[FirstOfBest(score)]
<1> \A i \in DOMAIN score : score[i] \in Nat /\ score[i] <= One /\ One - score[i] \in Nat
  <2>1. \A x \in 0 .. One : x \in Nat /\ x <= One /\ One - x \in Nat
    BY DEF One
  <2> QED  BY <2>1
<1>1. PICK S : S = {One - score[i] : i \in DOMAIN score}
  OBVIOUS
<1>2. PICK v : v \in S /\ \A w \in S : v <= w
  <2>1. S \subseteq Nat /\ S # {}
    BY <1>1
  <2> QED  BY <2>1, LeastIsThere
<1>3. PICK I : I = {i \in DOMAIN score : One - score[i] = v}
  OBVIOUS
<1>4. PICK first : first \in I /\ \A i \in I : first <= i
  <2>1. I \subseteq Nat /\ I # {}
    BY <1>1, <1>2, <1>3
  <2> QED  BY <2>1, LeastIsThere
<1>5. first \in DOMAIN score /\ \A j \in DOMAIN score :
        score[j] < score[first] \/ (score[j] = score[first] /\ first <= j)
  <2>1. first \in DOMAIN score /\ One - score[first] = v
    BY <1>3, <1>4
  <2>2. ASSUME NEW j \in DOMAIN score
        PROVE  score[j] < score[first] \/ (score[j] = score[first] /\ first <= j)
    <3>1. One - score[j] \in S /\ v <= One - score[j]
      BY <1>1, <1>2
    <3>2. score[j] \in Nat /\ score[first] \in Nat /\ score[j] <= score[first]
      <4>1. \A x, y \in Nat : One - x <= One - y => y <= x
        BY DEF One
      <4> QED  BY <2>1, <3>1, <4>1
    <3>3. score[j] = score[first] => j \in I
      BY <1>3, <2>1
    <3> QED  BY <1>4, <3>2, <3>3
  <2> QED  BY <2>1, <2>2
<1>6. PICK best : best = FirstOfBest(score)
  OBVIOUS
<1>7. best \in DOMAIN score /\ \A j \in DOMAIN score :
        score[j] < score[best] \/ (score[j] = score[best] /\ best <= j)
  BY <1>5, <1>6 DEF FirstOfBest
<1>8. \A j \in DOMAIN score : score[j] <= score[best]
  BY <1>7
<1> QED  BY <1>6, <1>7, <1>8

\* The measure of two names in the other's event, and whether the time speaks against it.
Similar(r, e) == ParticipantsSimilarity(r.a, r.b, Target(e).a, Target(e).b).score
OnTime(r, e, tolerance) == TimeOk(r.start, Target(e).start, tolerance)

LEMMA SimilarIs ==
  ASSUME NEW r, IsName(r.a), IsName(r.b), NEW e, EventSound(e)
  PROVE  /\ Similar(r, e) \in 0 .. One /\ Similar(r, e) \in Nat
         /\ (\E x \in {r.a, r.b, Target(e).a, Target(e).b} : Missing(x)) => Similar(r, e) = 0
<1>1. PICK s : s = Similar(r, e)
  OBVIOUS
<1>2. s \in 0 .. One /\ ((\E x \in {r.a, r.b, Target(e).a, Target(e).b} : Missing(x)) => s = 0)
  BY <1>1, TargetSound, ScoreIs DEF Similar, Missing
<1>3. s \in Nat
  BY <1>2 DEF One
<1> QED  BY <1>1, <1>2, <1>3

\* The confidence is the measure at an admissible time and at most half of all otherwise.
LEMMA MatchEventIs ==
  ASSUME NEW r, IsName(r.a), IsName(r.b), NEW e, EventSound(e), NEW tolerance
  PROVE  LET m == MatchEvent(r, Target(e), tolerance) IN
         /\ m.confidence \in 0 .. One
         /\ OnTime(r, e, tolerance) => m.confidence = Similar(r, e)
         /\ m.confidence >= EVENT_NAME_MATCH_MIN_CONFIDENCE => IsConfident(m)
         /\ IsConfident(m) => /\ OnTime(r, e, tolerance) /\ Present(r.a)
                              /\ Similar(r, e) >= EVENT_NAME_MATCH_MIN_CONFIDENCE
<1>1. PICK m, s, ok : /\ m = MatchEvent(r, Target(e), tolerance) /\ s = Similar(r, e)
                      /\ ok = OnTime(r, e, tolerance) /\ ok \in BOOLEAN
  BY DEF OnTime, TimeOk, Missing
<1>2. s \in 0 .. One
  BY <1>1, SimilarIs
<1>3. CASE \E x \in {r.a, r.b, Target(e).a, Target(e).b} : Missing(x)
  <2>1. s = 0
    BY <1>1, <1>3, SimilarIs
  <2>2. m = NoMatch
    BY <1>1, <1>3 DEF MatchEvent
  <2>3. m.confidence = 0 /\ ~IsConfident(m)
    BY <2>2 DEF NoMatch, Result, IsConfident, ConfidentMethods
  <2> QED  BY <1>1, <2>1, <2>3 DEF One, EVENT_NAME_MATCH_MIN_CONFIDENCE
<1>4. CASE \A x \in {r.a, r.b, Target(e).a, Target(e).b} : ~Missing(x)
  <2>1. m = Graded(s, ok)
    BY <1>1, <1>4 DEF MatchEvent, Similar, OnTime
  <2>2. Present(r.a)
    BY <1>4 DEF Present, Missing
  <2>3. CASE ok
    <3>1. m.confidence = s
      BY <2>1, <2>3 DEF Graded, Result
    <3>2. /\ s >= 9700 => m.method = "EXACT_NAME_TIME"
          /\ s \in 7200 .. 9699 => m.method = "FUZZY_NAME_TIME"
          /\ s < 7200 => m.method = "NEEDS_REVIEW"
      <4>1. s \in Int /\ (s \in 7200 .. 9699 => ~(s >= 9700)) /\ (s < 7200 => ~(s >= 9700) /\ s \notin 7200 .. 9699)
        BY <1>2 DEF One
      <4> QED  BY <2>1, <2>3, <4>1 DEF Graded, Result, EVENT_NAME_MATCH_MIN_CONFIDENCE
    <3>3. m.needs_review = (m.method \notin ConfidentMethods)
      BY <2>1 DEF Graded, Result
    <3>4. IsConfident(m) <=> s >= 7200
      <4>1. s \in Int /\ (s >= 9700 \/ s \in 7200 .. 9699 \/ s < 7200)
        BY <1>2 DEF One
      <4>2. (s >= 9700 \/ s \in 7200 .. 9699) => s >= 7200 /\ IsConfident(m)
        <5>1. SUFFICES ASSUME s >= 9700 \/ s \in 7200 .. 9699  PROVE s >= 7200 /\ IsConfident(m)
          OBVIOUS
        <5>2. s >= 7200
          BY <4>1, <5>1
        <5>3. m.method \in ConfidentMethods
          BY <3>2, <5>1 DEF ConfidentMethods
        <5>4. ~m.needs_review
          BY <3>3, <5>3
        <5> QED  BY <5>2, <5>3, <5>4 DEF IsConfident
      <4>3. s < 7200 => ~(s >= 7200) /\ ~IsConfident(m)
        BY <3>2, <3>3, <4>1 DEF IsConfident, ConfidentMethods
      <4> QED  BY <4>1, <4>2, <4>3
    <3> QED  BY <1>1, <1>2, <2>2, <2>3, <3>1, <3>4 DEF EVENT_NAME_MATCH_MIN_CONFIDENCE
  <2>4. CASE ~ok
    <3>1. m.confidence = s \div 2 /\ m.method = "NEEDS_REVIEW"
      BY <2>1, <2>4 DEF Graded, Result
    <3>2. ~IsConfident(m)
      BY <3>1 DEF IsConfident, ConfidentMethods
    <3>3. s \div 2 \in 0 .. 5000
      <4>1. s \in Int /\ 0 <= s /\ s <= 10000
        BY <1>2 DEF One
      <4> QED  BY <4>1
    <3> QED  BY <1>1, <2>4, <3>1, <3>2, <3>3 DEF One, EVENT_NAME_MATCH_MIN_CONFIDENCE
  <2> QED  BY <1>1, <2>3, <2>4
<1> QED  BY <1>3, <1>4

\* The chosen market is one of the event, if it has any.
LEMMA SelectMarketIs ==
  ASSUME NEW e, EventSound(e), NEW a, IsName(a)
  PROVE  /\ e.markets = <<>> => SelectMarket(e, a).market = None
         /\ e.markets # <<>> => SelectMarket(e, a).market \in ToSet(e.markets)
                                /\ SelectMarket(e, a).market # None
<1>1. CASE e.markets = <<>>
  BY <1>1 DEF SelectMarket
<1>2. CASE e.markets # <<>>
  <2>1. PICK score : score = [i \in DOMAIN e.markets |-> NameSimilarity(a, e.markets[i].yes_sub_title)]
    OBVIOUS
  <2>2. /\ DOMAIN score = DOMAIN e.markets /\ DOMAIN score \subseteq Nat /\ 1 \in DOMAIN score
        /\ ToSet(e.markets) = {e.markets[i] : i \in DOMAIN e.markets}
    BY <1>2, <2>1, ListIs DEF EventSound
  <2>3. \A i \in DOMAIN score : score[i] \in 0 .. One
    BY <2>1, NameSimilarityBound DEF EventSound, MarketSound
  <2>4. PICK best : best = FirstOfBest(score) /\ best \in DOMAIN e.markets
    BY <2>2, <2>3, FirstOfBestIs
  <2>5. SelectMarket(e, a).market \in {e.markets[1], e.markets[best]}
    BY <1>2, <2>1, <2>4 DEF SelectMarket
  <2>6. \A i \in DOMAIN e.markets : e.markets[i] \in ToSet(e.markets) /\ e.markets[i] # None
    BY <2>2 DEF EventSound, MarketSound
  <2> QED  BY <1>2, <2>2, <2>4, <2>5, <2>6
<1> QED  BY <1>1, <1>2
-----------------------------------------------------------------------------
(* The choice of an event *)

\* The market is one of an event that agrees, and none that can be read agrees better.
Best(r, evs, m, admissible(_)) ==
    \E e \in ToSet(evs) :
        /\ m \in ToSet(e.markets) /\ Similar(r, e) >= EVENT_NAME_MATCH_MIN_CONFIDENCE /\ admissible(e)
        /\ \A f \in ToSet(evs) : Readable(f) /\ admissible(f) => Similar(r, f) <= Similar(r, e)

SoundList(evs) == IsList(evs) /\ \A i \in DOMAIN evs : EventSound(evs[i])

\* What the search by names and time promises, when it is sure and when it must be.
LEMMA FindBestIs ==
  ASSUME NEW r, IsName(r.a), IsName(r.b), NEW evs, SoundList(evs), NEW tolerance
  PROVE  LET c == FindBestKalshiEvent(r, evs, tolerance)
             ok(e) == OnTime(r, e, tolerance) IN
         /\ Present(c.market) /\ IsConfident(c.result) => Best(r, evs, c.market, ok)
         /\ /\ \E e \in ToSet(evs) : Readable(e) /\ ok(e) /\ Similar(r, e) >= EVENT_NAME_MATCH_MIN_CONFIDENCE
            /\ \A e \in ToSet(evs) : Readable(e) => e.markets # <<>>
            => Present(c.market) /\ IsConfident(c.result)
<1> DEFINE ok(e) == OnTime(r, e, tolerance)
<1>1. PICK sound : sound = {i \in DOMAIN evs : Readable(evs[i])}
  OBVIOUS
<1>2. PICK c : c = FindBestKalshiEvent(r, evs, tolerance)
  OBVIOUS
<1>3. ToSet(evs) = {evs[i] : i \in DOMAIN evs} /\ DOMAIN evs \subseteq Nat
  BY ListIs DEF SoundList
<1>4. CASE sound = {}
  <2>1. c.market = None
    BY <1>1, <1>2, <1>4 DEF FindBestKalshiEvent, Unmatched
  <2>2. \A e \in ToSet(evs) : ~Readable(e)
    BY <1>1, <1>3, <1>4
  <2> QED  BY <1>2, <2>1, <2>2 DEF Present
<1>5. CASE sound # {}
  <2>1. PICK matches : matches = [i \in sound |-> MatchEvent(r, Target(evs[i]), tolerance)]
    OBVIOUS
  <2>2. PICK score : score = [i \in sound |-> matches[i].confidence]
    OBVIOUS
  <2>3. \A i \in sound : /\ EventSound(evs[i]) /\ Readable(evs[i]) /\ evs[i] \in ToSet(evs)
                         /\ matches[i] = MatchEvent(r, Target(evs[i]), tolerance)
                         /\ score[i] = matches[i].confidence
    BY <1>1, <1>3, <2>1, <2>2 DEF SoundList
  <2>4. \A i \in sound :
          /\ score[i] \in 0 .. One
          /\ ok(evs[i]) => score[i] = Similar(r, evs[i])
          /\ score[i] >= EVENT_NAME_MATCH_MIN_CONFIDENCE => IsConfident(matches[i])
          /\ IsConfident(matches[i]) => /\ ok(evs[i]) /\ Present(r.a)
                                        /\ Similar(r, evs[i]) >= EVENT_NAME_MATCH_MIN_CONFIDENCE
    BY <2>3, MatchEventIs
  <2>5. DOMAIN matches = sound /\ DOMAIN score = sound /\ sound \subseteq Nat
    BY <1>1, <1>3, <2>1, <2>2
  <2>6. PICK best \in sound : best = FirstOfBest(score) /\ \A j \in sound : score[j] <= score[best]
    BY <1>5, <2>4, <2>5, FirstOfBestIs
  <2>7. c = Matched(r, evs[best], matches[best])
    BY <1>1, <1>2, <1>5, <2>1, <2>2, <2>5, <2>6 DEF FindBestKalshiEvent, BestMatched
  <2>8. c.result = matches[best] /\ c.market = SelectMarket(evs[best], r.a).market
    BY <2>7 DEF Matched
  <2>9. /\ evs[best].markets = <<>> => c.market = None
        /\ evs[best].markets # <<>> => c.market \in ToSet(evs[best].markets) /\ c.market # None
    BY <2>3, <2>8, SelectMarketIs
  <2>10. ASSUME NEW f \in ToSet(evs), Readable(f)
         PROVE  \E j \in sound : f = evs[j] /\ (ok(f) => Similar(r, f) = score[j])
    <3>1. PICK j \in DOMAIN evs : f = evs[j]
      BY <1>3
    <3>2. j \in sound
      BY <1>1, <2>10, <3>1
    <3> QED  BY <2>4, <3>1, <3>2
  <2>11. ASSUME Present(c.market), IsConfident(c.result)
         PROVE  Best(r, evs, c.market, ok)
    <3>1. c.market \in ToSet(evs[best].markets)
      BY <2>9, <2>11 DEF Present
    <3>2. ok(evs[best]) /\ Similar(r, evs[best]) >= EVENT_NAME_MATCH_MIN_CONFIDENCE
      BY <2>4, <2>8, <2>11
    <3>3. Similar(r, evs[best]) = score[best]
      BY <2>4, <3>2
    <3>4. ASSUME NEW f \in ToSet(evs), Readable(f), ok(f)
          PROVE  Similar(r, f) <= Similar(r, evs[best])
      BY <2>6, <2>10, <3>3, <3>4
    <3>5. evs[best] \in ToSet(evs)
      BY <2>3
    <3> QED  BY <3>1, <3>2, <3>4, <3>5 DEF Best
  <2>12. ASSUME NEW e \in ToSet(evs), Readable(e), ok(e), Similar(r, e) >= EVENT_NAME_MATCH_MIN_CONFIDENCE,
                \A f \in ToSet(evs) : Readable(f) => f.markets # <<>>
         PROVE  Present(c.market) /\ IsConfident(c.result)
    <3>1. PICK j \in sound : Similar(r, e) = score[j]
      BY <2>10, <2>12
    <3>2. score[best] >= EVENT_NAME_MATCH_MIN_CONFIDENCE
      BY <2>4, <2>6, <2>12, <3>1 DEF EVENT_NAME_MATCH_MIN_CONFIDENCE
    <3>3. IsConfident(c.result)
      BY <2>4, <2>8, <3>2
    <3>4. evs[best].markets # <<>>
      BY <2>3, <2>12
    <3> QED  BY <2>9, <3>3, <3>4 DEF Present
  <2> QED  BY <1>2, <2>11, <2>12
<1> QED  BY <1>4, <1>5

\* What the search by names alone promises: there is no second event as good.
LEMMA StructureIs ==
  ASSUME NEW r, IsName(r.a), IsName(r.b), NEW evs, SoundList(evs)
  PROVE  LET c == ResolvePairByStructure(r, evs)
             ok(e) == TRUE IN
         Present(c.market) => Best(r, evs, c.market, ok)
<1> DEFINE ok(e) == TRUE
<1>1. PICK c : c = ResolvePairByStructure(r, evs)
  OBVIOUS
<1>2. PICK passed : passed = {i \in DOMAIN evs :
            /\ PairReadable(evs[i]) /\ Present(Target(evs[i]).a) /\ Present(Target(evs[i]).b)
            /\ Similar(r, evs[i]) >= TENNIS_PAIR_MATCH_MIN_CONFIDENCE}
  OBVIOUS
<1>3. ToSet(evs) = {evs[i] : i \in DOMAIN evs} /\ IsFiniteSet(passed)
  BY <1>2, ListIs, FS_Subset DEF SoundList
<1>4. SUFFICES ASSUME Present(c.market)  PROVE Best(r, evs, c.market, ok)
  BY <1>1
<1>5. ~(Missing(r.a) \/ Missing(r.b) \/ passed = {} \/ Cardinality(passed) > 1)
  BY <1>1, <1>2, <1>4 DEF ResolvePairByStructure, Similar, Unmatched, Present, Missing
<1>6. PICK i : passed = {i}
  <2>1. Cardinality(passed) \in Nat /\ Cardinality(passed) # 0
    BY <1>3, <1>5, FS_CardinalityType, FS_EmptySet
  <2>2. Cardinality(passed) = 1
    BY <1>5, <2>1
  <2> QED  BY <1>3, <2>2, FS_Singleton
<1>7. PICK e : e = evs[i]
  OBVIOUS
<1>8. EventSound(e) /\ e \in ToSet(evs) /\ Similar(r, e) \in Nat /\ Similar(r, e) >= 9700
  <2>1. i \in DOMAIN evs /\ Similar(r, e) >= 9700
    BY <1>2, <1>6, <1>7 DEF TENNIS_PAIR_MATCH_MIN_CONFIDENCE
  <2>2. EventSound(e)
    BY <1>7, <2>1 DEF SoundList
  <2>3. Similar(r, e) \in Nat
    BY <2>2, SimilarIs
  <2> QED  BY <1>3, <1>7, <2>1, <2>2, <2>3
<1>9. c.market = SelectMarket(e, r.a).market
  <2>1. (CHOOSE j \in passed : TRUE) = i
    BY <1>6
  <2> QED  BY <1>1, <1>2, <1>5, <1>7, <2>1 DEF ResolvePairByStructure, Similar, Matched, Missing, Present
<1>10. c.market \in ToSet(e.markets)
  BY <1>4, <1>8, <1>9, SelectMarketIs DEF Present
<1>11. ASSUME NEW f \in ToSet(evs), Readable(f)
       PROVE  Similar(r, f) <= Similar(r, e)
  <2>1. PICK j \in DOMAIN evs : f = evs[j]
    BY <1>3
  <2>2. EventSound(f) /\ Similar(r, f) \in Nat
    <3>1. EventSound(f)
      BY <2>1 DEF SoundList
    <3> QED  BY <3>1, SimilarIs
  <2>3. CASE j \in passed
    <3>1. f = e
      BY <1>6, <1>7, <2>1, <2>3
    <3> QED  BY <2>2, <3>1
  <2>4. CASE j \notin passed
    <3>1. PairReadable(f)
      BY <1>11 DEF PairReadable, Readable
    <3>2. Missing(Target(f).a) \/ Missing(Target(f).b) \/ ~(Similar(r, f) >= 9700)
      BY <1>2, <2>1, <2>4, <3>1 DEF TENNIS_PAIR_MATCH_MIN_CONFIDENCE, Present, Missing
    <3>3. Missing(Target(f).a) \/ Missing(Target(f).b) => Similar(r, f) = 0
      BY <2>2, SimilarIs
    <3> QED  BY <1>8, <2>2, <3>2, <3>3
  <2> QED  BY <2>3, <2>4
<1>12. Similar(r, e) >= EVENT_NAME_MATCH_MIN_CONFIDENCE
  BY <1>8 DEF EVENT_NAME_MATCH_MIN_CONFIDENCE
<1> QED  BY <1>8, <1>10, <1>11, <1>12 DEF Best
-----------------------------------------------------------------------------
(* What a record says of its market *)

\* The fields that are read here stay in a record whatever is changed in it.
Whole(r) == {"a", "b", "start", "market", "market_id", "validation_errors"} \subseteq DOMAIN r

Admissible(r, g, e) == UsesStructuralPair(g) \/ OnTime(r, e, Tolerance(g))

\* Its market is one of the best event.
Chosen(r, g, evs) ==
    r.market_id # None =>
        \E e \in ToSet(evs) :
            /\ r.market_id \in {m.ticker : m \in ToSet(e.markets)}
            /\ Similar(r, e) >= EVENT_NAME_MATCH_MIN_CONFIDENCE /\ Admissible(r, g, e)
            /\ \A f \in ToSet(evs) : Readable(f) /\ Admissible(r, g, f) => Similar(r, f) <= Similar(r, e)

\* It has one if an event is right.
Found(r, g, evs) ==
    /\ ~UsesStructuralPair(g)
    /\ \E e \in ToSet(evs) :
          Readable(e) /\ OnTime(r, e, Tolerance(g)) /\ Similar(r, e) >= EVENT_NAME_MATCH_MIN_CONFIDENCE
    /\ \A e \in ToSet(evs) : Readable(e) => e.markets # <<>>
    => r.market_id # None

\* Its prices are numbers.
Priced(r) == IsNumber(r.market.yes_ask) /\ IsNumber(r.market.no_ask)

Told(r, g, evs) == Whole(r) /\ IsNumber(r.start) /\ Priced(r) /\ Chosen(r, g, evs) /\ Found(r, g, evs)

\* It is of the names, the time and the market alone.
LEMMA ToldOfMatch ==
  ASSUME NEW r, NEW s, NEW g, NEW evs, Told(r, g, evs), Whole(s),
         s.a = r.a, s.b = r.b, s.start = r.start, s.market_id = r.market_id, s.market = r.market
  PROVE  Told(s, g, evs)
<1>1. \A e : Similar(s, e) = Similar(r, e) /\ Admissible(s, g, e) = Admissible(r, g, e)
  BY DEF Similar, Admissible, OnTime
<1>2. \A e : OnTime(s, e, Tolerance(g)) = OnTime(r, e, Tolerance(g))
  BY DEF OnTime
<1>3. IsNumber(s.start) /\ Priced(s)
  BY DEF Told, Priced
<1>4. Chosen(s, g, evs)
  BY <1>1 DEF Told, Chosen
<1>5. Found(s, g, evs)
  BY <1>1, <1>2 DEF Told, Found
<1> QED  BY <1>3, <1>4, <1>5 DEF Told

\* A record has its names and its time from its game.
LEMMA NormalizedIs ==
  ASSUME NEW g, NEW answer \in Answers(g)
  PROVE  LET r == Normalized(g, answer) IN
         /\ r.a = g.a /\ r.b = g.b /\ r.start = Parse(g.start) /\ r.market_id = None /\ r.market = NoMarket
         /\ DOMAIN r = DOMAIN Blank(g)
<1>1. \A status, lineup, missing :
        LET r == [Blank(g) EXCEPT !.status = status, !.lineup_or_pitcher = lineup, !.missing = missing] IN
        /\ r.a = g.a /\ r.b = g.b /\ r.start = Parse(g.start) /\ r.market_id = None /\ r.market = NoMarket
        /\ DOMAIN r = DOMAIN Blank(g)
  BY DEF Blank
<1>2. \A status, missing, found :
        LET r == [[Blank(g) EXCEPT !.status = status, !.missing = missing] EXCEPT !.missing = @ \ found] IN
        /\ r.a = g.a /\ r.b = g.b /\ r.start = Parse(g.start) /\ r.market_id = None /\ r.market = NoMarket
        /\ DOMAIN r = DOMAIN Blank(g)
  BY DEF Blank
<1>3. PICK r : r = Normalized(g, answer)
  OBVIOUS
<1>4. CASE g.sport = "MLB"
  <2>1. r = NormalizeMlbGame(g, answer[1], answer[2])
    BY <1>3, <1>4 DEF Normalized
  <2>2. \E status, lineup, missing :
          r = [Blank(g) EXCEPT !.status = status, !.lineup_or_pitcher = lineup, !.missing = missing]
    BY <2>1, Zenon DEF NormalizeMlbGame
  <2> QED  BY <1>1, <1>3, <2>2
<1>5. CASE g.sport # "MLB"
  <2>1. r = EnrichWithSofascore(NormalizeEspnTennisMatch(g), {})
    BY <1>3, <1>5 DEF Normalized
  <2>2. \E status, missing :
          r = [[Blank(g) EXCEPT !.status = status, !.missing = missing] EXCEPT !.missing = @ \ {}]
    BY <2>1, Zenon DEF NormalizeEspnTennisMatch, EnrichWithSofascore
  <2> QED  BY <1>2, <1>3, <2>2
<1> QED  BY <1>4, <1>5

\* Only a confident match gives a record its market and its prices.
LEMMA PreparedIs ==
  ASSUME NEW g, NEW r, DOMAIN r = DOMAIN Blank(g), r.market_id = None, r.market = NoMarket, NEW c
  PROVE  LET s == Prepared(r, c) IN
         /\ Whole(s) /\ s.a = r.a /\ s.b = r.b /\ s.start = r.start
         /\ s.market_id = IF events # <<>> /\ Present(c.market) /\ IsConfident(c.result)
                          THEN c.market.ticker ELSE None
         /\ s.market = NoMarket \/
            (Present(c.market) /\ IsConfident(c.result) /\ events # <<>>
             /\ s.market.yes_ask = Parse(c.market.yes_ask) /\ s.market.no_ask = Parse(c.market.no_ask))
<1>1. PICK t : t = IF events = <<>> THEN WithoutEvents(r) ELSE ApplyKalshiMatch(r, c)
  OBVIOUS
<1>2. {"a", "b", "start", "market_id", "validation_errors", "match_confidence", "match_method", "needs_review",
       "market", "close", "expected", "settled", "side_selection_confidence", "missing", "stamps", "completeness"}
        \subseteq DOMAIN r
  BY DEF Blank
<1>3. /\ DOMAIN t = DOMAIN r /\ t.a = r.a /\ t.b = r.b /\ t.start = r.start
      /\ t.market_id = IF events # <<>> /\ Present(c.market) /\ IsConfident(c.result)
                       THEN c.market.ticker ELSE None
      /\ t.market = NoMarket \/
         (Present(c.market) /\ IsConfident(c.result) /\ events # <<>>
          /\ t.market.yes_ask = Parse(c.market.yes_ask) /\ t.market.no_ask = Parse(c.market.no_ask))
  <2>1. CASE events = <<>>
    BY <1>1, <1>2, <2>1 DEF WithoutEvents
  <2>2. CASE events # <<>> /\ Missing(c.market)
    BY <1>1, <1>2, <2>2 DEF ApplyKalshiMatch, Missing, Present
  <2>3. CASE events # <<>> /\ Present(c.market) /\ ~IsConfident(c.result)
    BY <1>1, <1>2, <2>3 DEF ApplyKalshiMatch, Missing, Present
  <2>4. CASE events # <<>> /\ Present(c.market) /\ IsConfident(c.result)
    <3>1. /\ NormalizeKalshiMarket(c.market).market_id = c.market.ticker
          /\ NormalizeKalshiMarket(c.market).market.yes_ask = Parse(c.market.yes_ask)
          /\ NormalizeKalshiMarket(c.market).market.no_ask = Parse(c.market.no_ask)
      BY DEF NormalizeKalshiMarket
    <3> HIDE DEF NormalizeKalshiMarket
    <3> QED  BY <1>1, <1>2, <2>4, <3>1 DEF ApplyKalshiMatch, Missing, Present
  <2> QED  BY <2>1, <2>2, <2>3, <2>4 DEF Missing, Present
<1>4. PICK s : s = Prepared(r, c)
  OBVIOUS
<1>5. PICK x, y, z : s = [[t EXCEPT !.stamps = x, !.completeness = y] EXCEPT !.validation_errors = z]
  BY <1>1, <1>4, Zenon DEF Prepared, Finish
<1>6. DOMAIN s = DOMAIN t /\ s.a = t.a /\ s.b = t.b /\ s.start = t.start /\ s.market_id = t.market_id
      /\ s.market = t.market
  BY <1>2, <1>3, <1>5
<1> QED  BY <1>2, <1>3, <1>4, <1>6 DEF Whole
-----------------------------------------------------------------------------
(* The invariant *)

GamesFrom == \A k \in 1 .. Len(games) : games[k] \in ToSet(batch.games)

EventsFrom == events \in {<<>>, batch.events} \/ (records = <<>> /\ stage # "records")

Marked ==
    stage \in {"persist", "load", "decide", "done"} =>
        \A i, j \in DOMAIN records :
            i # j /\ records[i].market_id # None /\ records[i].market_id = records[j].market_id
                => "duplicate" \in records[i].validation_errors

\* Only records with a market are gone into.
OnMarkets ==
    /\ next.side # "context" => records[next.record].market_id # None
    /\ \A k \in DOMAIN evaluations : records[evaluations[k].record].market_id # None

MatchedInv ==
    /\ RunInv /\ GamesFrom /\ EventsFrom /\ Marked /\ OnMarkets
    /\ \A i \in DOMAIN records : Told(records[i], games[i], events)

LEMMA MatchedFirst == Init => MatchedInv
<1> SUFFICES ASSUME Init  PROVE MatchedInv
  OBVIOUS
<1>1. /\ games = <<>> /\ records = <<>> /\ evaluations = <<>> /\ stage = "schedule" /\ next.side = "context"
  BY DEF Init
<1>2. DOMAIN <<>> = {} /\ Len(<<>>) = 0
  OBVIOUS
<1> QED  BY <1>1, <1>2, RunFirst DEF MatchedInv, GamesFrom, EventsFrom, Marked, OnMarkets

\* What the answer of the exchange is known to be, once there is one.
LEMMA EventsSound ==
  ASSUME batch \in Batches, events \in {<<>>, batch.events}
  PROVE  SoundList(events) /\ ToSet(events) \subseteq ToSet(batch.events)
<1>1. BatchSound(batch)
  BY PipelineAssumption
<1>2. CASE events = <<>>
  <2>1. Len(<<>>) = 0 /\ DOMAIN <<>> = {} /\ <<>> = [i \in 1 .. 0 |-> <<>>[i]]
    OBVIOUS
  <2>2. ToSet(<<>>) = {}
    BY <2>1 DEF ToSet
  <2> QED  BY <1>2, <2>1, <2>2 DEF SoundList, IsList
<1>3. CASE events = batch.events
  BY <1>1, <1>3 DEF BatchSound, SoundList
<1> QED  BY <1>2, <1>3

\* A record that is prepared says of its market what is so.
LEMMA PreparedTold ==
  ASSUME RunInv, events \in {<<>>, batch.events}, NEW g \in ToSet(batch.games), NEW answer \in Answers(g)
  PROVE  LET r == Normalized(g, answer) IN Told(Prepared(r, Candidate(g, r)), g, events)
<1>1. PICK r : r = Normalized(g, answer)
  OBVIOUS
<1>2. PICK c : c = Candidate(g, r)
  OBVIOUS
<1>3. PICK s : s = Prepared(r, c)
  OBVIOUS
<1>4. batch \in Batches
  BY DEF RunInv, Started
<1>5. /\ r.a = g.a /\ r.b = g.b /\ r.start = Parse(g.start) /\ r.market_id = None /\ r.market = NoMarket
      /\ DOMAIN r = DOMAIN Blank(g)
  BY <1>1, NormalizedIs
<1>6. IsName(r.a) /\ IsName(r.b) /\ IsNumber(r.start)
  <2>1. BatchSound(batch)
    BY <1>4, PipelineAssumption
  <2>2. PICK i \in DOMAIN batch.games : g = batch.games[i]
    BY DEF ToSet
  <2> QED  BY <1>5, <2>1, <2>2 DEF BatchSound
<1>7. SoundList(events)
  BY <1>4, EventsSound
<1>8. /\ Whole(s) /\ s.a = r.a /\ s.b = r.b /\ s.start = r.start
      /\ s.market_id = IF events # <<>> /\ Present(c.market) /\ IsConfident(c.result)
                       THEN c.market.ticker ELSE None
      /\ s.market = NoMarket \/
         (Present(c.market) /\ IsConfident(c.result) /\ events # <<>>
          /\ s.market.yes_ask = Parse(c.market.yes_ask) /\ s.market.no_ask = Parse(c.market.no_ask))
  BY <1>3, <1>5, PreparedIs
<1>9. PICK source : source = [a |-> r.a, b |-> r.b, start |-> r.start]
  OBVIOUS
<1>10. source.a = s.a /\ source.b = s.b /\ source.start = s.start
  BY <1>8, <1>9
<1>11. \A e : Similar(source, e) = Similar(s, e) /\ \A t : OnTime(source, e, t) = OnTime(s, e, t)
  BY <1>10 DEF Similar, OnTime
<1>12. IsName(source.a) /\ IsName(source.b)
  BY <1>6, <1>9
<1>13. \A e \in ToSet(events) : \A m \in ToSet(e.markets) : MarketSound(m)
  <2>1. ASSUME NEW e \in ToSet(events), NEW m \in ToSet(e.markets)  PROVE MarketSound(m)
    <3>1. EventSound(e)
      BY <1>7 DEF SoundList, ToSet
    <3>2. PICK i \in DOMAIN e.markets : m = e.markets[i]
      BY DEF ToSet
    <3> QED  BY <3>1, <3>2 DEF EventSound
  <2> QED  BY <2>1
<1>14. (\E e \in ToSet(events) : c.market \in ToSet(e.markets)) \/ s.market = NoMarket => Priced(s)
  <2>1. s.market = NoMarket => Priced(s)
    BY DEF Priced, NoMarket, IsNumber
  <2>2. MarketSound(c.market) /\ s.market # NoMarket => Priced(s)
    BY <1>8 DEF Priced, MarketSound
  <2> QED  BY <1>13, <2>1, <2>2
<1>15. CASE UsesStructuralPair(g)
  <2>1. c = ResolvePairByStructure(source, events)
    BY <1>2, <1>9, <1>15 DEF Candidate
  <2>2. Present(c.market) => \E e \in ToSet(events) :
          /\ c.market \in ToSet(e.markets) /\ Similar(s, e) >= EVENT_NAME_MATCH_MIN_CONFIDENCE
          /\ \A f \in ToSet(events) : Readable(f) => Similar(s, f) <= Similar(s, e)
    BY <1>7, <1>8, <1>11, <1>12, <2>1, StructureIs DEF Best
  <2>3. Chosen(s, g, events)
    BY <1>8, <1>15, <2>2 DEF Chosen, Admissible
  <2>4. Found(s, g, events)
    BY <1>15 DEF Found
  <2>5. Priced(s)
    BY <1>8, <1>14, <2>2
  <2> QED  BY <1>1, <1>2, <1>3, <1>6, <1>8, <2>3, <2>4, <2>5 DEF Told
<1>16. CASE ~UsesStructuralPair(g)
  <2>1. c = FindBestKalshiEvent(source, events, Tolerance(g))
    BY <1>2, <1>9, <1>16 DEF Candidate
  <2>2. Present(c.market) /\ IsConfident(c.result) => \E e \in ToSet(events) :
          /\ c.market \in ToSet(e.markets) /\ Similar(s, e) >= EVENT_NAME_MATCH_MIN_CONFIDENCE
          /\ OnTime(s, e, Tolerance(g))
          /\ \A f \in ToSet(events) : Readable(f) /\ OnTime(s, f, Tolerance(g)) => Similar(s, f) <= Similar(s, e)
    BY <1>7, <1>11, <1>12, <2>1, FindBestIs DEF Best
  <2>3. Chosen(s, g, events)
    BY <1>8, <1>16, <2>2 DEF Chosen, Admissible
  <2>4. Found(s, g, events)
    <3>1. SUFFICES ASSUME \E e \in ToSet(events) : /\ Readable(e) /\ OnTime(s, e, Tolerance(g))
                                                   /\ Similar(s, e) >= EVENT_NAME_MATCH_MIN_CONFIDENCE,
                          \A e \in ToSet(events) : Readable(e) => e.markets # <<>>
                   PROVE  s.market_id # None
      BY DEF Found
    <3>2. Present(c.market) /\ IsConfident(c.result)
      BY <1>7, <1>11, <1>12, <2>1, <3>1, FindBestIs
    <3>3. events # <<>>
      BY <3>1 DEF ToSet
    <3> QED  BY <1>8, <1>13, <2>2, <3>2, <3>3 DEF MarketSound
  <2>5. Priced(s)
    BY <1>8, <1>14, <2>2
  <2> QED  BY <1>1, <1>2, <1>3, <1>6, <1>8, <2>3, <2>4, <2>5 DEF Told
<1> QED  BY <1>15, <1>16
Annotated == {"persist", "load", "decide", "done"}

\* What neither takes up a game nor changes a record.
LEMMA MatchedStays ==
  ASSUME MatchedInv, RunInv', UNCHANGED <<batch, games, events, records>>,
         \/ stage' = stage
         \/ stage \in Annotated /\ stage' \in Annotated
         \/ stage' = "aborted",
         OnMarkets'
  PROVE  MatchedInv'
<1>1. GamesFrom' /\ EventsFrom'
  BY DEF MatchedInv, GamesFrom, EventsFrom, Annotated
<1>2. Marked'
  BY DEF MatchedInv, Marked, Annotated
<1> QED  BY <1>1, <1>2 DEF MatchedInv

LEMMA FetchesMatched ==
  ASSUME MatchedInv, RunInv', FetchSchedule \/ FetchEvents
  PROVE  MatchedInv'
<1>1. /\ stage \in {"schedule", "events"} /\ stage' \in {"events", "records", "load"}
      /\ UNCHANGED <<batch, records, next, evaluations>>
  BY DEF FetchSchedule, FetchEvents, made, decided
<1>2. records = <<>> /\ DOMAIN records = {} /\ evaluations = <<>> /\ next.side = "context"
  BY <1>1 DEF MatchedInv, RunInv, RowsOK, Counted, Deciding
<1>3. Marked' /\ OnMarkets'
  BY <1>1, <1>2 DEF Marked, OnMarkets
<1>4. GamesFrom'
  <2>1. CASE FetchSchedule /\ games' # games
    <3>1. BatchSound(batch) /\ Limit \in Nat
      BY PipelineAssumption DEF MatchedInv, RunInv, Started
    <3>2. PICK N \in Nat : N = Len(batch.games) /\ DOMAIN batch.games = 1 .. N
      BY <3>1, ListIs DEF BatchSound
    <3>3. PICK n : n = Min({Limit, N})
      OBVIOUS
    <3>4. n \in Nat /\ n <= N
      <4>1. {Limit, N} \subseteq Nat /\ {Limit, N} # {}
        BY <3>1
      <4>2. n \in {Limit, N} /\ \A y \in {Limit, N} : n <= y
        BY <3>3, <4>1, LeastIsThere
      <4> QED  BY <3>1, <4>2
    <3>5. PICK p \in Orders(batch) : games' = [k \in 1 .. n |-> batch.games[p[k]]]
      BY <2>1, <3>2, <3>3 DEF FetchSchedule
    <3>6. Len(games') = n
      BY <3>4, <3>5
    <3>7. ASSUME NEW k \in 1 .. n  PROVE games'[k] \in ToSet(batch.games)
      <4>1. p[k] \in DOMAIN batch.games
        BY <3>2, <3>4, <3>5 DEF Orders
      <4> QED  BY <3>5, <4>1 DEF ToSet
    <3> QED  BY <1>1, <3>6, <3>7 DEF GamesFrom
  <2>2. CASE games' = games
    BY <1>1, <2>2 DEF MatchedInv, GamesFrom
  <2>3. FetchEvents => games' = games
    BY DEF FetchEvents
  <2> QED  BY <2>1, <2>2, <2>3
<1>5. EventsFrom'
  BY <1>1, <1>2 DEF FetchSchedule, FetchEvents, EventsFrom
<1> QED  BY <1>1, <1>2, <1>3, <1>4, <1>5 DEF MatchedInv

LEMMA PrepareMatched ==
  ASSUME MatchedInv, RunInv', PrepareRecord
  PROVE  MatchedInv'
<1>1. /\ stage = "records" /\ Len(records) < Len(games)
      /\ UNCHANGED <<batch, games, events, next, evaluations>>
  BY DEF PrepareRecord, input, decided
<1>2. evaluations = <<>> /\ next.side = "context"
  BY <1>1 DEF MatchedInv, RunInv, Counted, Deciding
<1>3. OnMarkets'
  BY <1>1, <1>2 DEF OnMarkets
<1>4. events \in {<<>>, batch.events}
  BY <1>1 DEF MatchedInv, EventsFrom
<1>5. CASE stage' = "aborted" /\ UNCHANGED made
  BY <1>1, <1>3, <1>5, MatchedStays DEF made
<1>6. CASE stage' = stage /\ \E r \in {Normalized(Current, answer) : answer \in Answers(Current)} :
               records' = Append(records, Prepared(r, Candidate(Current, r)))
  <2>1. PICK n, g : /\ n \in Nat /\ n = Len(records) + 1 /\ g = games[n] /\ g = Current
                    /\ Listed(records) /\ DOMAIN records = 1 .. Len(records)
    BY ListedIs DEF MatchedInv, RunInv, Lists, Current
  <2>2. g \in ToSet(batch.games)
    <3>1. Len(records) \in Nat /\ Len(games) \in Nat
      BY ListedIs DEF MatchedInv, RunInv, Lists
    <3>2. n \in 1 .. Len(games)
      BY <1>1, <2>1, <3>1
    <3> QED  BY <2>1, <3>2 DEF MatchedInv, GamesFrom
  <2>3. PICK answer \in Answers(g) :
          records' = Append(records, Prepared(Normalized(g, answer), Candidate(g, Normalized(g, answer))))
    BY <1>6, <2>1
  <2>4. PICK old, new, s : /\ old = records /\ new = records'
                           /\ s = Prepared(Normalized(g, answer), Candidate(g, Normalized(g, answer)))
    OBVIOUS
  <2>5. Told(s, g, events)
    BY <1>4, <2>2, <2>4, PreparedTold DEF MatchedInv
  <2>6. new = Append(old, s) /\ Listed(old)
    BY <2>1, <2>3, <2>4
  <2>7. DOMAIN new = DOMAIN old \cup {Len(new)} /\ new[Len(new)] = s /\ Len(new) = Len(old) + 1
    BY <2>6, ListedAppend
  <2>8. \A i \in DOMAIN old : new[i] = old[i]
    BY <2>6, ListedAppend
  <2>9. \A i \in DOMAIN new : Told(new[i], games[i], events)
    BY <2>1, <2>4, <2>5, <2>7, <2>8 DEF MatchedInv
  <2>10. \A i \in DOMAIN records' : Told(records'[i], games'[i], events')
    BY <1>1, <2>4, <2>9
  <2>11. Marked' /\ EventsFrom' /\ GamesFrom'
    BY <1>1, <1>4, <1>6 DEF Marked, EventsFrom, GamesFrom, MatchedInv
  <2> QED  BY <1>3, <2>10, <2>11 DEF MatchedInv
<1> QED  BY <1>5, <1>6 DEF PrepareRecord

LEMMA AnnotateMatched ==
  ASSUME MatchedInv, RunInv', AnnotateRecords
  PROVE  MatchedInv'
<1>1. /\ stage = "records" /\ stage' = "persist" /\ records' = AnnotateDuplicateMarkets(records)
      /\ UNCHANGED <<batch, games, events, next, evaluations>>
  BY DEF AnnotateRecords, input, decided
<1>2. evaluations = <<>> /\ next.side = "context"
  BY <1>1 DEF MatchedInv, RunInv, Counted, Deciding
<1>3. OnMarkets'
  BY <1>1, <1>2 DEF OnMarkets
<1>4. events \in {<<>>, batch.events}
  BY <1>1 DEF MatchedInv, EventsFrom
<1>5. PICK old, new : old = records /\ new = records'
  OBVIOUS
<1>6. \A i \in DOMAIN old : Told(old[i], games[i], events)
  BY <1>5 DEF MatchedInv
<1>7. /\ DOMAIN new = DOMAIN old
      /\ \A i \in DOMAIN old :
            new[i] = IF /\ Present(old[i].market_id)
                        /\ \E j \in DOMAIN old : j # i /\ old[j].market_id = old[i].market_id
                     THEN [old[i] EXCEPT !.validation_errors = @ \cup {"duplicate"}] ELSE old[i]
  BY <1>1, <1>5 DEF AnnotateDuplicateMarkets
<1>8. ASSUME NEW i \in DOMAIN old
      PROVE  /\ Whole(new[i]) /\ new[i].a = old[i].a /\ new[i].b = old[i].b /\ new[i].start = old[i].start
             /\ new[i].market_id = old[i].market_id /\ new[i].market = old[i].market
             /\ Present(old[i].market_id) /\ (\E j \in DOMAIN old : j # i /\ old[j].market_id = old[i].market_id)
                   => "duplicate" \in new[i].validation_errors
  <2>1. PICK r, s : r = old[i] /\ s = new[i]
    OBVIOUS
  <2>2. Whole(r)
    BY <1>6, <2>1 DEF Told
  <2>3. s = r \/ s = [r EXCEPT !.validation_errors = @ \cup {"duplicate"}]
    BY <1>7, <2>1
  <2>4. Whole(s) /\ s.a = r.a /\ s.b = r.b /\ s.start = r.start /\ s.market_id = r.market_id
        /\ s.market = r.market
    BY <2>2, <2>3 DEF Whole
  <2>5. s = [r EXCEPT !.validation_errors = @ \cup {"duplicate"}] => "duplicate" \in s.validation_errors
    BY <2>2 DEF Whole
  <2> QED  BY <1>7, <2>1, <2>4, <2>5
<1>9. \A i \in DOMAIN new : Told(new[i], games[i], events)
  BY <1>6, <1>7, <1>8, ToldOfMatch
<1>10. Marked'
  <2>1. \A i, j \in DOMAIN new :
          i # j /\ new[i].market_id # None /\ new[i].market_id = new[j].market_id
            => "duplicate" \in new[i].validation_errors
    BY <1>7, <1>8 DEF Present
  <2> QED  BY <1>5, <2>1 DEF Marked
<1>11. GamesFrom' /\ EventsFrom'
  BY <1>1, <1>4 DEF GamesFrom, EventsFrom, MatchedInv
<1>12. \A i \in DOMAIN records' : Told(records'[i], games'[i], events')
  BY <1>1, <1>5, <1>9
<1> QED  BY <1>3, <1>10, <1>11, <1>12 DEF MatchedInv

LEMMA DecideMatched ==
  ASSUME MatchedInv, RunInv', SkipWithoutMarket \/ BuildContext \/ ContextRaises \/ EvaluateSide \/ SideRaises
  PROVE  MatchedInv'
<1>1. UNCHANGED <<batch, games, events, records, stage>>
  BY DEF SkipWithoutMarket, BuildContext, ContextRaises, EvaluateSide, SideRaises, input, made
<1>2. OnMarkets'
  <2>1. CASE SkipWithoutMarket \/ BuildContext \/ ContextRaises
    <3>1. /\ next'.side = "context" \/ (next'.record = next.record /\ Present(Record.market_id))
          /\ UNCHANGED <<evaluations, records>>
      <4>1. next' = NextRecord => next'.side = "context"
        BY DEF NextRecord
      <4>2. next' = [next EXCEPT !.side = "YES"] => next'.record = next.record
        <5>1. PICK p, q : p = next /\ q = next'
          OBVIOUS
        <5>2. p = [record |-> p.record, side |-> p.side]
          BY <5>1 DEF MatchedInv, RunInv, Counted
        <5> QED  BY <5>1, <5>2
      <4> QED  BY <2>1, <4>1, <4>2 DEF SkipWithoutMarket, BuildContext, ContextRaises, made, decided
    <3> QED  BY <3>1 DEF MatchedInv, OnMarkets, Record, Present
  <2>2. CASE EvaluateSide \/ SideRaises
    <3>1. next.side # "context" /\ next' = AfterSide /\ HasRecord
      BY <2>2 DEF EvaluateSide, SideRaises
    <3>2. next'.side = "context" \/ next'.record = next.record
      <4>1. PICK p, q : p = next /\ q = next'
        OBVIOUS
      <4>2. p = [record |-> p.record, side |-> p.side]
        BY <4>1 DEF MatchedInv, RunInv, Counted
      <4>3. q = [p EXCEPT !.side = "NO"] \/ q.side = "context"
        BY <3>1, <4>1 DEF AfterSide, NextRecord
      <4> QED  BY <4>1, <4>2, <4>3
    <3>3. records[next.record].market_id # None
      BY <3>1 DEF MatchedInv, OnMarkets
    <3>4. \A k \in DOMAIN evaluations' : records[evaluations'[k].record].market_id # None
      <4>1. CASE SideRaises
        <5>1. evaluations' = evaluations
          BY <4>1 DEF SideRaises
        <5> QED  BY <5>1 DEF MatchedInv, OnMarkets
      <4>2. CASE EvaluateSide
        <5>1. PICK history \in {results, None} :
                /\ DOMAIN evaluations' = DOMAIN evaluations \cup {Len(evaluations')}
                /\ evaluations'[Len(evaluations')] = Evaluation(next.side, history)
                /\ \A k \in DOMAIN evaluations : evaluations'[k] = evaluations[k]
          BY <4>2, NewEvaluation DEF MatchedInv
        <5>2. Evaluation(next.side, history).record = next.record
          BY EvaluationIs
        <5> QED  BY <3>3, <5>1, <5>2 DEF MatchedInv, OnMarkets
      <4> QED  BY <2>2, <4>1, <4>2
    <3> QED  BY <1>1, <3>2, <3>3, <3>4 DEF OnMarkets
  <2> QED  BY <2>1, <2>2
<1> QED  BY <1>1, <1>2, MatchedStays

LEMMA MatchedStep == ASSUME MatchedInv, [Next]_vars  PROVE MatchedInv'
<1>1. RunInv'
  BY RunStep DEF MatchedInv
<1>2. CASE \/ PersistMlb \/ PersistTennis \/ Persisted \/ LoadArtifact \/ Finished
           \/ Abort \/ RecordResult \/ Promote \/ Wait \/ Ended \/ UNCHANGED vars
  <2>1. UNCHANGED <<batch, games, events, records, next, evaluations>>
    BY <1>2 DEF PersistMlb, PersistTennis, Persisted, LoadArtifact, Finished, Abort, RecordResult, Promote, Wait, Ended,
                vars, input, made, decided
  <2>2. \/ stage' = stage
        \/ stage \in Annotated /\ stage' \in Annotated
        \/ stage' = "aborted"
    BY <1>2 DEF PersistMlb, PersistTennis, Persisted, LoadArtifact, Finished, Abort, RecordResult, Promote, Wait, Ended,
                vars, Annotated
  <2>3. OnMarkets'
    BY <2>1 DEF MatchedInv, OnMarkets
  <2> QED  BY <1>1, <2>1, <2>2, <2>3, MatchedStays
<1> QED  BY <1>1, <1>2, FetchesMatched, PrepareMatched, AnnotateMatched, DecideMatched DEF Next

LEMMA MatchedAlways == Spec => []MatchedInv
<1>1. Init => MatchedInv
  BY MatchedFirst
<1>2. MatchedInv /\ [Next]_vars => MatchedInv'
  BY MatchedStep
<1> QED  BY <1>1, <1>2, PTL DEF Spec

\* Whatever was listed, a record is judged on a market of the event that agrees best with its
\* names, at an admissible time (find_best_kalshi_event, resolve_pair_by_structure).
THEOREM AlwaysOnTheBestMatch == Spec => []EvaluatedOnTheBestMatch
<1>1. ASSUME MatchedInv  PROVE EvaluatedOnTheBestMatch
  <2>1. ASSUME NEW k \in DOMAIN evaluations
        PROVE  LET r == records[evaluations[k].record]
                   g == games[evaluations[k].record] IN
               \E e \in ToSet(events) :
                   /\ r.market_id \in {m.ticker : m \in ToSet(e.markets)}
                   /\ Similar(r, e) >= EVENT_NAME_MATCH_MIN_CONFIDENCE /\ Admissible(r, g, e)
                   /\ \A f \in ToSet(events) : Readable(f) /\ Admissible(r, g, f) => Similar(r, f) <= Similar(r, e)
    <3>1. PICK i, r : i = evaluations[k].record /\ r = records[i]
      OBVIOUS
    <3>2. i \in DOMAIN records /\ r.market_id # None
      BY <1>1, <3>1 DEF MatchedInv, RunInv, Saved, OnMarkets
    <3>3. Chosen(r, games[i], events)
      BY <1>1, <3>1, <3>2 DEF MatchedInv, Told
    <3> QED  BY <3>1, <3>2, <3>3 DEF Chosen
  <2> QED  BY <2>1 DEF EvaluatedOnTheBestMatch, Similar, Admissible, OnTime
<1> QED  BY <1>1, MatchedAlways, PTL

\* Two records on one market start no further apart than their tolerances allow.
LEMMA FarApart ==
  ASSUME MatchedInv  PROVE FarApartNeverShareAMarket
<1>1. SUFFICES ASSUME NEW i \in DOMAIN records, NEW j \in DOMAIN records,
                      records[i].start # None, records[j].start # None,
                      ~UsesStructuralPair(games[i]), ~UsesStructuralPair(games[j]),
                      records[i].market_id # None, records[i].market_id = records[j].market_id,
                      \A e \in ToSet(events) : EventStart(e) # None
               PROVE  ~(records[i].start - records[j].start > Tolerance(games[i]) + Tolerance(games[j]))
  BY DEF FarApartNeverShareAMarket
<1>2. PICK r, s, g, h : r = records[i] /\ s = records[j] /\ g = games[i] /\ h = games[j]
  OBVIOUS
<1>3. Told(r, g, events) /\ Told(s, h, events)
  BY <1>2 DEF MatchedInv
<1>4. PICK e \in ToSet(events) : (\E m \in ToSet(e.markets) : m.ticker = r.market_id) /\ OnTime(r, e, Tolerance(g))
  BY <1>1, <1>2, <1>3 DEF Told, Chosen, Admissible
<1>5. PICK f \in ToSet(events) : (\E n \in ToSet(f.markets) : n.ticker = s.market_id) /\ OnTime(s, f, Tolerance(h))
  BY <1>1, <1>2, <1>3 DEF Told, Chosen, Admissible
<1>6. batch \in Batches /\ events \in {<<>>, batch.events}
  BY DEF MatchedInv, RunInv, Started, EventsFrom
<1>7. e = f
  <2>1. e \in ToSet(batch.events) /\ f \in ToSet(batch.events) /\ BatchSound(batch)
    BY <1>6, EventsSound, PipelineAssumption
  <2>2. PICK m \in ToSet(e.markets), n \in ToSet(f.markets) : m.ticker = n.ticker
    BY <1>1, <1>2, <1>4, <1>5
  <2> QED  BY <2>1, <2>2 DEF BatchSound
<1>8. PICK t : t = EventStart(e)
  OBVIOUS
<1>9. t \in Int /\ r.start \in Int /\ s.start \in Int
  <2>1. EventSound(e)
    BY <1>6, EventsSound DEF SoundList, ToSet
  <2>2. IsNumber(t)
    BY <1>8, <2>1, TargetSound DEF Target
  <2>3. t # None
    BY <1>1, <1>8
  <2> QED  BY <1>1, <1>2, <1>3, <2>2, <2>3 DEF Told, IsNumber
<1>10. PICK x, y : x = Tolerance(g) /\ y = Tolerance(h) /\ x \in Int /\ y \in Int
  BY DEF Tolerance
<1>11. r.start - t <= x /\ t - s.start <= y
  BY <1>1, <1>2, <1>4, <1>5, <1>7, <1>8, <1>10 DEF OnTime, TimeOk, Target, Missing
<1>12. r.start - s.start <= x + y
  BY <1>9, <1>10, <1>11
<1> QED  BY <1>2, <1>9, <1>10, <1>12

\* Games of the same teams are told apart: the event of one is not hidden by another, games
\* far apart never get the same market, and where two records do get one, both are marked
\* (match_event, annotate_duplicate_markets).
THEOREM MarketsAlwaysApart == Spec => []MarketsApart
<1>1. ASSUME MatchedInv  PROVE MarketsApart
  <2>1. RightEventNotHidden
    <3>1. \A i \in DOMAIN records : Found(records[i], games[i], events)
      BY <1>1 DEF MatchedInv, Told
    <3> QED  BY <3>1 DEF RightEventNotHidden, Found, OnTime, Similar
  <2>2. SharedMarketsMarked
    BY <1>1 DEF MatchedInv, Marked, SharedMarketsMarked
  <2> QED  BY <1>1, <2>1, <2>2, FarApart DEF MarketsApart
<1> QED  BY <1>1, MatchedAlways, PTL
-----------------------------------------------------------------------------
(* Edges *)

\* The probability that the sides of the record in hand are judged on.
Judging == IF Present(calibration.p_model_calibrated) THEN calibration.p_model_calibrated ELSE probability

\* e judges its side of its record on p.
JudgedOn(e, p) ==
    /\ e.signal.edge = Edge(records[e.record], p, e.side)
    /\ e.signal.market_price = MarketPrice(records[e.record], e.side)

EdgesInv ==
    /\ MatchedInv
    /\ next.side # "context" => IsNumber(Judging)
    /\ \A k \in DOMAIN evaluations :
          /\ evaluations[k].record <= next.record
          /\ evaluations[k].record = next.record => next.side # "context" /\ JudgedOn(evaluations[k], Judging)
    /\ \A k, l \in DOMAIN evaluations :
          evaluations[k].record = evaluations[l].record =>
              \E p : IsNumber(p) /\ JudgedOn(evaluations[k], p) /\ JudgedOn(evaluations[l], p)

LEMMA ClipIsWhole ==
  ASSUME NEW x \in Int
  PROVE  Clip(x, 0, One) \in Int
<1>1. PICK m : m = Min({One, x})
  OBVIOUS
<1>2. m \in {One, x}
  <2>1. \E z \in {One, x} : \A w \in {One, x} : z <= w
    BY DEF One
  <2> QED  BY <1>1, <2>1 DEF Min
<1>3. m \in Int
  BY <1>2 DEF One
<1>4. PICK n : n = Max({0, m})
  OBVIOUS
<1>5. n \in {0, m}
  <2>1. \E z \in {0, m} : \A w \in {0, m} : z >= w
    BY <1>3
  <2> QED  BY <1>4, <2>1 DEF Max
<1>6. Clip(x, 0, One) = n
  BY <1>1, <1>4 DEF Clip
<1> QED  BY <1>3, <1>5, <1>6

\* A calibrated probability is a number as the raw one is.
LEMMA CalibratedIsNumber ==
  ASSUME NEW p \in Probabilities \cup {None}, NEW c \in Calibrators \cup {None}
  PROVE  LET cal == Calibrate(p, c) IN
         IsNumber(IF Present(cal.p_model_calibrated) THEN cal.p_model_calibrated ELSE p)
<1>1. IsNumber(p)
  BY PipelineAssumption DEF IsNumber
<1>2. CASE Missing(c) \/ Missing(p)
  BY <1>1, <1>2 DEF Calibrate, Present
<1>3. CASE ~(Missing(c) \/ Missing(p))
  <2>1. p \in Int /\ c.shift \in Int
    BY <1>3, PipelineAssumption DEF Missing
  <2>2. PICK q : q = Clip(p + c.shift, 0, One)
    OBVIOUS
  <2>3. q \in Int
    BY <2>1, <2>2, ClipIsWhole
  <2>4. Calibrate(p, c).p_model_calibrated = q
    BY <1>3, <2>2 DEF Calibrate
  <2> QED  BY <1>1, <2>3, <2>4 DEF IsNumber
<1> QED  BY <1>2, <1>3

LEMMA NewIsJudgedOn ==
  ASSUME NEW side, NEW history
  PROVE  JudgedOn(Evaluation(side, history), Judging)
BY DEF Evaluation, Record, BuildSignalInputs, JudgedOn, Judging

\* What is said of a record stays as long as the records do.
LEMMA EdgesStay ==
  ASSUME EdgesInv, MatchedInv', UNCHANGED <<records, evaluations>>,
         \/ UNCHANGED <<next, calibration, probability>>
         \/ evaluations = <<>> /\ next'.side = "context"
         \/ next'.record = next.record + 1 /\ next'.side = "context"
         \/ /\ next'.record = next.record /\ next.side # "context" /\ next'.side # "context"
            /\ UNCHANGED <<calibration, probability>>
         \/ next'.record = next.record /\ next.side = "context" /\ IsNumber(Judging')
  PROVE  EdgesInv'
<1>1. \A e, p : JudgedOn(e, p)' = JudgedOn(e, p)
  BY DEF JudgedOn
<1>2. next.record \in Nat /\ \A k \in DOMAIN evaluations : evaluations[k].record \in Nat
  BY ListedIs DEF EdgesInv, MatchedInv, RunInv, Counted, Saved, Lists
<1>3. \A k, l \in DOMAIN evaluations' :
          evaluations'[k].record = evaluations'[l].record =>
              \E p : IsNumber(p) /\ JudgedOn(evaluations[k], p)' /\ JudgedOn(evaluations[l], p)'
  BY <1>1 DEF EdgesInv
<1>4. CASE evaluations = <<>> /\ next'.side = "context"
  BY <1>4 DEF EdgesInv
<1>5. CASE next'.record = next.record + 1 /\ next'.side = "context"
  <2>1. \A k \in DOMAIN evaluations' : evaluations'[k].record <= next'.record /\ evaluations'[k].record # next'.record
    BY <1>2, <1>5 DEF EdgesInv
  <2> QED  BY <1>3, <1>5, <2>1 DEF EdgesInv
<1>6. CASE UNCHANGED <<calibration, probability>> /\ next'.record = next.record
           /\ (next'.side = next.side \/ (next.side # "context" /\ next'.side # "context"))
  <2>1. Judging' = Judging
    BY <1>6 DEF Judging
  <2>2. next'.side # "context" <=> next.side # "context"
    BY <1>6
  <2> QED  BY <1>1, <1>3, <1>6, <2>1, <2>2 DEF EdgesInv
<1>7. CASE next'.record = next.record /\ next.side = "context" /\ IsNumber(Judging')
  <2>1. \A k \in DOMAIN evaluations' : evaluations'[k].record <= next'.record /\ evaluations'[k].record # next'.record
    BY <1>7 DEF EdgesInv
  <2> QED  BY <1>3, <1>7, <2>1 DEF EdgesInv
<1> QED  BY <1>4, <1>5, <1>6, <1>7

LEMMA EdgesOfNext ==
  ASSUME EdgesInv, next' = AfterSide, next.side # "context"
  PROVE  \/ next'.record = next.record + 1 /\ next'.side = "context"
         \/ next'.record = next.record /\ next'.side # "context"
<1>1. PICK p, q : p = next /\ q = next'
  OBVIOUS
<1>2. p = [record |-> p.record, side |-> p.side]
  BY <1>1 DEF EdgesInv, MatchedInv, RunInv, Counted
<1>3. \/ q = [p EXCEPT !.side = "NO"]
      \/ q.record = p.record + 1 /\ q.side = "context"
  BY <1>1 DEF AfterSide, NextRecord
<1> QED  BY <1>1, <1>2, <1>3

LEMMA EvaluateEdges ==
  ASSUME EdgesInv, MatchedInv', EvaluateSide
  PROVE  EdgesInv'
<1>1. /\ next.side # "context" /\ next' = AfterSide /\ HasRecord
      /\ UNCHANGED <<records, calibration, probability>>
  BY DEF EvaluateSide, made, context
<1>2. PICK history \in {results, None} :
        /\ DOMAIN evaluations' = DOMAIN evaluations \cup {Len(evaluations')}
        /\ evaluations'[Len(evaluations')] = Evaluation(next.side, history)
        /\ \A k \in DOMAIN evaluations : evaluations'[k] = evaluations[k]
  BY NewEvaluation DEF EdgesInv, MatchedInv
<1>3. PICK old, new, e, p : /\ old = evaluations /\ new = evaluations' /\ e = Evaluation(next.side, history)
                            /\ p = Judging
  OBVIOUS
<1>4. e.record = next.record /\ JudgedOn(e, p) /\ IsNumber(p)
  BY <1>1, <1>3, EvaluationIs, NewIsJudgedOn DEF EdgesInv
<1>5. \A k \in DOMAIN new : new[k] = e \/ (k \in DOMAIN old /\ new[k] = old[k])
  BY <1>2, <1>3
<1>6. next.record \in Nat /\ \A k \in DOMAIN old : old[k].record \in Nat
  BY <1>3, ListedIs DEF EdgesInv, MatchedInv, RunInv, Counted, Saved, Lists
<1>7. \A k \in DOMAIN old : old[k].record <= next.record /\ (old[k].record = next.record => JudgedOn(old[k], p))
  BY <1>3 DEF EdgesInv
<1>8. \A k \in DOMAIN new : new[k].record <= next.record /\ (new[k].record = next.record => JudgedOn(new[k], p))
  BY <1>4, <1>5, <1>6, <1>7
<1>9. ASSUME NEW k \in DOMAIN new, NEW l \in DOMAIN new, new[k].record = new[l].record
      PROVE  \E q : IsNumber(q) /\ JudgedOn(new[k], q) /\ JudgedOn(new[l], q)
  <2>1. CASE new[k].record = next.record
    BY <1>4, <1>8, <1>9, <2>1
  <2>2. CASE new[k].record # next.record
    <3>1. /\ k \in DOMAIN old /\ new[k] = old[k] /\ l \in DOMAIN old /\ new[l] = old[l]
      BY <1>4, <1>5, <1>9, <2>2
    <3> QED  BY <1>3, <1>9, <3>1 DEF EdgesInv
  <2> QED  BY <2>1, <2>2
<1>10. \A f, q : JudgedOn(f, q)' = JudgedOn(f, q)
  BY <1>1 DEF JudgedOn
<1>11. Judging' = p
  BY <1>1, <1>3 DEF Judging
<1>12. \/ next'.record = next.record + 1 /\ next'.side = "context"
       \/ next'.record = next.record /\ next'.side # "context"
  BY <1>1, EdgesOfNext
<1>13. \A k \in DOMAIN new : /\ new[k].record \in Nat /\ new[k].record <= next'.record
                             /\ new[k].record = next'.record => next'.side # "context" /\ JudgedOn(new[k], p)
  BY <1>4, <1>5, <1>6, <1>8, <1>12
<1>14. \A k, l \in DOMAIN evaluations' :
          evaluations'[k].record = evaluations'[l].record =>
              \E q : IsNumber(q) /\ JudgedOn(evaluations[k], q)' /\ JudgedOn(evaluations[l], q)'
  BY <1>3, <1>9, <1>10
<1>15. \A k \in DOMAIN evaluations' :
          /\ evaluations'[k].record <= next'.record
          /\ evaluations'[k].record = next'.record => next'.side # "context" /\ JudgedOn(evaluations[k], Judging)'
  BY <1>3, <1>10, <1>11, <1>13
<1> QED  BY <1>4, <1>11, <1>14, <1>15 DEF EdgesInv

LEMMA EdgesStep == ASSUME EdgesInv, [Next]_vars  PROVE EdgesInv'
<1>1. MatchedInv /\ MatchedInv' /\ RunInv
  BY MatchedStep DEF EdgesInv, MatchedInv
<1>2. CASE PrepareRecord \/ AnnotateRecords
  <2>1. evaluations = <<>> /\ evaluations' = evaluations /\ next' = next /\ next.side = "context"
    BY <1>1, <1>2 DEF PrepareRecord, AnnotateRecords, decided, RunInv, Counted, Deciding
  <2> QED  BY <1>1, <2>1 DEF EdgesInv
<1>3. CASE \/ FetchSchedule \/ FetchEvents \/ PersistMlb \/ PersistTennis \/ Persisted \/ LoadArtifact \/ Finished
           \/ Abort \/ RecordResult \/ Promote \/ Wait \/ Ended \/ UNCHANGED vars
  <2>1. UNCHANGED <<records, evaluations, next, calibration, probability>>
    BY <1>3 DEF FetchSchedule, FetchEvents, PersistMlb, PersistTennis, Persisted, LoadArtifact, Finished,
                Abort, RecordResult, Promote, Wait, Ended, vars, made, decided, context
  <2> QED  BY <1>1, <2>1, EdgesStay
<1>4. CASE SkipWithoutMarket \/ ContextRaises
  <2>1. UNCHANGED <<records, evaluations>> /\ next' = NextRecord
    BY <1>4 DEF SkipWithoutMarket, ContextRaises, made
  <2>2. next'.record = next.record + 1 /\ next'.side = "context"
    BY <2>1 DEF NextRecord
  <2> QED  BY <1>1, <2>1, <2>2, EdgesStay
<1>5. CASE BuildContext
  <2>1. UNCHANGED <<records, evaluations>> /\ next.side = "context" /\ next' = [next EXCEPT !.side = "YES"]
    BY <1>5 DEF BuildContext, made, decided
  <2>2. next'.record = next.record
    <3>1. PICK p, q : p = next /\ q = next'
      OBVIOUS
    <3>2. p = [record |-> p.record, side |-> p.side]
      BY <1>1, <3>1 DEF RunInv, Counted
    <3> QED  BY <2>1, <3>1, <3>2
  <2>3. PICK p \in IF Missing(artifact) THEN {None} ELSE Probabilities :
          /\ probability' = p
          /\ calibration' = Calibrate(p, IF Missing(artifact) THEN None ELSE Calibrator)
    BY <1>5 DEF BuildContext
  <2>4. p \in Probabilities \cup {None} /\ Calibrator \in Calibrators \cup {None}
    BY <1>1, <2>3 DEF RunInv, MemoOK, PromotedOK, Calibrator
  <2>5. PICK c \in Calibrators \cup {None} : calibration' = Calibrate(p, c)
    BY <2>3, <2>4
  <2>6. IsNumber(Judging')
    BY <2>3, <2>4, <2>5, CalibratedIsNumber DEF Judging
  <2> QED  BY <1>1, <2>1, <2>2, <2>6, EdgesStay
<1>6. CASE SideRaises
  <2>1. /\ UNCHANGED <<records, evaluations, calibration, probability>> /\ next.side # "context" /\ next' = AfterSide
    BY <1>6 DEF SideRaises, made, context
  <2> QED  BY <1>1, <2>1, EdgesOfNext, EdgesStay
<1>7. CASE EvaluateSide
  BY <1>1, <1>7, EvaluateEdges
<1> QED  BY <1>2, <1>3, <1>4, <1>5, <1>6, <1>7 DEF Next

\* Both sides of a record are judged on one probability, so that they seem both worth more than
\* they cost only if the asks together are below one (compute_edge_yes, compute_edge_no).
THEOREM EdgesAlwaysCoherent == Spec => []EdgesCoherent
<1>1. Init => EdgesInv
  <2> SUFFICES ASSUME Init  PROVE EdgesInv
    OBVIOUS
  <2>1. evaluations = <<>> /\ next.side = "context"
    BY DEF Init
  <2> QED  BY <2>1, MatchedFirst DEF EdgesInv
<1>2. EdgesInv /\ [Next]_vars => EdgesInv'
  BY EdgesStep
<1>3. ASSUME EdgesInv  PROVE EdgesCoherent
  <2>1. SUFFICES ASSUME NEW k \in DOMAIN evaluations, NEW l \in DOMAIN evaluations,
                        evaluations[k].record = evaluations[l].record,
                        evaluations[k].side = "YES", evaluations[l].side = "NO",
                        evaluations[k].signal.edge # None, evaluations[l].signal.edge # None,
                        evaluations[k].signal.edge > 0, evaluations[l].signal.edge > 0
                 PROVE  evaluations[k].signal.market_price + evaluations[l].signal.market_price < One
    BY DEF EdgesCoherent
  <2>2. PICK e, f, r : e = evaluations[k] /\ f = evaluations[l] /\ r = records[e.record]
    OBVIOUS
  <2>3. PICK p : IsNumber(p) /\ JudgedOn(e, p) /\ JudgedOn(f, p)
    BY <1>3, <2>1, <2>2 DEF EdgesInv
  <2>4. PICK y, n : y = MarketPrice(r, "YES") /\ n = MarketPrice(r, "NO")
    OBVIOUS
  <2>5. /\ p # None /\ y # None /\ n # None
        /\ e.signal.edge = p - y /\ f.signal.edge = (One - p) - n
        /\ e.signal.market_price = y /\ f.signal.market_price = n
    BY <2>1, <2>2, <2>3, <2>4 DEF JudgedOn, Edge, ModelProbability, Missing
  <2>6. Priced(r)
    <3>1. e.record \in DOMAIN records
      BY <1>3, <2>2 DEF EdgesInv, MatchedInv, RunInv, Saved
    <3> QED  BY <1>3, <2>2, <3>1 DEF EdgesInv, MatchedInv, Told
  <2>7. p \in Int /\ y \in Int /\ n \in Int
    BY <2>3, <2>4, <2>5, <2>6 DEF IsNumber, Priced, MarketPrice
  <2>8. p - y > 0 /\ (One - p) - n > 0
    BY <2>1, <2>2, <2>5
  <2>9. y + n < One
    BY <2>7, <2>8 DEF One
  <2> QED  BY <2>2, <2>5, <2>9
<1> QED  BY <1>1, <1>2, <1>3, PTL DEF Spec
-----------------------------------------------------------------------------
(* The consensus of the bookmakers *)

\* A relation that puts the members of a set in one line.
Lines(R, S) ==
    /\ \A x \in S : <<x, x>> \notin R
    /\ \A x, y \in S : x # y => <<x, y>> \in R \/ <<y, x>> \in R
    /\ \A x, y, z \in S : <<x, y>> \in R /\ <<y, z>> \in R => <<x, z>> \in R

\* InOrder names every member once, and in the order of the relation.
LEMMA InOrderIs ==
  ASSUME NEW S, IsFiniteSet(S), NEW R, Lines(R, S)
  PROVE  /\ Cardinality(S) \in Nat
         /\ InOrder(S, R) \in [1 .. Cardinality(S) -> S]
         /\ InOrder(S, R) \in Seq(S)
         /\ Len(InOrder(S, R)) = Cardinality(S)
         /\ \A x \in S : \E i \in 1 .. Cardinality(S) : InOrder(S, R)[i] = x
         /\ \A i, j \in 1 .. Cardinality(S) : i < j <=> <<InOrder(S, R)[i], InOrder(S, R)[j]>> \in R
         /\ \A i, j \in 1 .. Cardinality(S) : InOrder(S, R)[i] = InOrder(S, R)[j] => i = j
<1> DEFINE N == Cardinality(S)
           Ahead(x) == {y \in S : <<y, x>> \in R}
           place == [x \in S |-> Cardinality(Ahead(x)) + 1]
<1>1. N \in Nat
  BY FS_CardinalityType
<1>2. ASSUME NEW x \in S  PROVE IsFiniteSet(Ahead(x)) /\ Cardinality(Ahead(x)) \in Nat
  BY FS_Subset, FS_CardinalityType
<1>3. ASSUME NEW x \in S  PROVE Cardinality(Ahead(x)) < N
  <2>1. Ahead(x) \subseteq S /\ x \notin Ahead(x)
    BY DEF Lines
  <2>2. Cardinality(Ahead(x)) <= N /\ (Cardinality(Ahead(x)) = N => Ahead(x) = S)
    BY <2>1, FS_Subset
  <2> QED  BY <2>1, <2>2, <1>1, <1>2
<1>4. ASSUME NEW x \in S, NEW y \in S, <<x, y>> \in R  PROVE place[x] < place[y]
  <2>1. Ahead(x) \subseteq Ahead(y) /\ x \notin Ahead(x) /\ x \in Ahead(y)
    BY <1>4 DEF Lines
  <2>2. /\ Cardinality(Ahead(x)) <= Cardinality(Ahead(y))
        /\ Cardinality(Ahead(x)) = Cardinality(Ahead(y)) => Ahead(x) = Ahead(y)
    BY <2>1, <1>2, FS_Subset
  <2>3. Cardinality(Ahead(x)) < Cardinality(Ahead(y))
    <3> HIDE DEF Ahead
    <3> QED  BY <2>1, <2>2, <1>2
  <2> QED  BY <2>3, <1>2
<1>5. place \in [S -> 1 .. N]
  BY <1>1, <1>2, <1>3
<1>6. ASSUME NEW x \in S, NEW y \in S, place[x] = place[y]  PROVE x = y
  <2>1. place[x] \in Int /\ place[y] \in Int
    BY <1>5
  <2>2. ~(place[x] < place[y]) /\ ~(place[y] < place[x])
    BY <1>6, <2>1
  <2> HIDE DEF place
  <2> QED  BY <2>2, <1>4 DEF Lines
<1>7. ASSUME NEW n \in 1 .. N  PROVE \E x \in S : place[x] = n
  <2>1. place \in Injection(S, 1 .. N)
    BY <1>5, <1>6 DEF Injection, IsInjective
  <2>2. IsFiniteSet(1 .. N) /\ Cardinality(1 .. N) = N
    BY <1>1, FS_Interval
  <2>3. place \in Surjection(S, 1 .. N)
    <3> HIDE DEF place
    <3> QED  BY <2>1, <2>2, FS_Injection
  <2> QED  BY <2>3 DEF Surjection
<1> DEFINE s == InOrder(S, R)
<1>8. s = [n \in 1 .. N |-> CHOOSE x \in S : Cardinality(Ahead(x)) + 1 = n]
  BY DEF InOrder
<1> HIDE DEF s, N
<1>9. ASSUME NEW n \in 1 .. N  PROVE s[n] \in S /\ place[s[n]] = n
  <2>1. \E x \in S : Cardinality(Ahead(x)) + 1 = n
    BY <1>7
  <2>2. s[n] \in S /\ Cardinality(Ahead(s[n])) + 1 = n
    <3> HIDE DEF Ahead, place
    <3> QED  BY <2>1, <1>8
  <2> QED  BY <2>2
<1> HIDE DEF place
<1>10. s \in [1 .. N -> S]
  BY <1>8, <1>9
<1>11. s \in Seq(S) /\ Len(s) = N
  BY <1>1, <1>10
<1>12. ASSUME NEW x \in S  PROVE \E i \in 1 .. N : s[i] = x
  <2>1. place[x] \in 1 .. N
    BY <1>5
  <2> QED  BY <2>1, <1>9, <1>6
<1>13. ASSUME NEW i \in 1 .. N, NEW j \in 1 .. N  PROVE i < j <=> <<s[i], s[j]>> \in R
  <2>1. place[s[i]] = i /\ place[s[j]] = j /\ s[i] \in S /\ s[j] \in S
    BY <1>9
  <2>2. CASE i < j
    <3>1. s[i] # s[j] /\ <<s[j], s[i]>> \notin R
      BY <2>1, <2>2, <1>4, <1>1
    <3> QED  BY <3>1, <2>1, <2>2 DEF Lines
  <2>3. CASE <<s[i], s[j]>> \in R
    BY <2>1, <2>3, <1>4
  <2> QED  BY <2>2, <2>3
<1>14. ASSUME NEW i \in 1 .. N, NEW j \in 1 .. N, s[i] = s[j]  PROVE i = j
  BY <1>9, <1>14
<1> QED  BY <1>1, <1>10, <1>11, <1>12, <1>13, <1>14 DEF s, N

\* Two shares of one whole, each rounded down, miss the whole by one at the most.
LEMMA SharesAddUp ==
  ASSUME NEW a \in Nat, NEW b \in Nat, a > 0, b > 0
  PROVE  LET x == (One * b) \div (a + b)
             y == (One * a) \div (a + b) IN
         x \in Int /\ y \in Int /\ x + y \in One - 1 .. One
<1> DEFINE s == a + b
           A == One * b
           B == One * a
<1>1. s \in Nat /\ s > 0 /\ A \in Nat /\ B \in Nat /\ A + B = One * s
  BY DEF One
<1> HIDE DEF s, A, B
<1>2. PICK x \in Int, y \in Int : x = A \div s /\ y = B \div s
  BY <1>1
<1>3. A = s * x + (A % s) /\ A % s \in Int /\ 0 <= A % s /\ A % s < s
  BY <1>1, <1>2
<1>4. B = s * y + (B % s) /\ B % s \in Int /\ 0 <= B % s /\ B % s < s
  BY <1>1, <1>2
<1>5. s * x + s * y <= One * s /\ One * s < s * x + s * y + 2 * s
  BY <1>1, <1>3, <1>4 DEF One
<1>6. x + y <= One
  <2> SUFFICES ASSUME x + y >= One + 1  PROVE FALSE
    BY DEF One
  <2>1. PICK d \in Nat : x + y = One + 1 + d
    <3>1. x + y - (One + 1) \in Nat
      BY DEF One
    <3> QED  BY <3>1 DEF One
  <2>2. s * x + s * y = s * (One + 1 + d)
    BY <1>1, <2>1 DEF One
  <2>3. s * (One + 1 + d) = One * s + s + s * d /\ s * d >= 0
    BY <1>1 DEF One
  <2> QED  BY <1>1, <1>5, <2>2, <2>3 DEF One
<1>7. x + y >= One - 1
  <2> SUFFICES ASSUME x + y <= One - 2  PROVE FALSE
    BY DEF One
  <2>1. PICK d \in Nat : x + y = One - 2 - d
    <3>1. One - 2 - (x + y) \in Nat
      BY DEF One
    <3> QED  BY <3>1 DEF One
  <2>2. s * x + s * y = s * (One - 2 - d)
    BY <1>1, <2>1 DEF One
  <2>3. s * (One - 2 - d) = One * s - 2 * s - s * d /\ s * d >= 0
    BY <1>1 DEF One
  <2> QED  BY <1>1, <1>5, <2>2, <2>3 DEF One
<1> QED  BY <1>2, <1>6, <1>7 DEF s, A, B, One

\* What is fair of both sides, if both odds are there.
AddsUp(f) == f.yes \in Int /\ f.no \in Int /\ f.yes + f.no \in One - 1 .. One

LEMMA DevigIs ==
  ASSUME NEW yes \in Odds, NEW no \in Odds
  PROVE  LET f == Devig(yes, no)
             g == Devig(no, yes) IN
         /\ f # None => AddsUp(f)
         /\ f = None <=> g = None
         /\ f # None => g.yes = f.no /\ g.no = f.yes
<1>1. CASE Missing(yes) \/ Missing(no) \/ yes <= 0 \/ no <= 0
  BY <1>1 DEF Devig
<1>2. CASE ~(Missing(yes) \/ Missing(no) \/ yes <= 0 \/ no <= 0)
  <2>1. yes \in Nat /\ no \in Nat /\ yes > 0 /\ no > 0 /\ yes + no = no + yes
    BY <1>2, PipelineAssumption DEF Missing
  <2>2. PICK x, y : x = (One * no) \div (yes + no) /\ y = (One * yes) \div (yes + no)
    OBVIOUS
  <2>3. x \in Int /\ y \in Int /\ x + y \in One - 1 .. One
    BY <2>1, <2>2, SharesAddUp
  <2>4. Devig(yes, no) = [yes |-> x, no |-> y] /\ Devig(no, yes) = [yes |-> y, no |-> x]
    BY <1>2, <2>1, <2>2 DEF Devig
  <2>5. Devig(yes, no) # None /\ Devig(no, yes) # None
    BY <2>3, <2>4, PipelineAssumption
  <2> QED  BY <2>3, <2>4, <2>5 DEF AddsUp
<1> QED  BY <1>1, <1>2

\* An event is the same event as itself, for sure.
LEMMA SameEventMatches ==
  LET plain == [a |-> <<"a">>, b |-> <<"b">>, start |-> 0] IN
  IsConfident(MatchEvent(plain, plain, 90))
<1>1. PICK a, b : a = <<"a">> /\ b = <<"b">>
  OBVIOUS
<1>2. PICK plain : plain = [a |-> a, b |-> b, start |-> 0]
  OBVIOUS
<1>3. IsName(a) /\ IsName(b) /\ a # None /\ b # None
  BY <1>1, PipelineAssumption DEF IsName, IsList
<1>4. NameSimilarity(a, a) = One /\ NameSimilarity(b, b) = One
  BY <1>3 DEF NameSimilarity, Missing
<1>5. PairScore(a, b, a, b) = One
  <2>1. One \in Nat /\ {One} \subseteq Nat /\ {One} # {}
    BY DEF One
  <2>2. Min({One}) = One
    BY <2>1, LeastIsThere
  <2> QED  BY <1>4, <2>2 DEF PairScore
<1>6. PICK swapped : swapped = PairScore(a, b, b, a) /\ swapped \in 0 .. One
  BY <1>3, PairScoreIs
<1>7. Max({One, swapped}) = One
  <2>1. One >= One /\ One >= swapped
    <3>1. One >= One /\ \A x \in 0 .. One : One >= x
      BY DEF One
    <3> QED  BY <1>6, <3>1
  <2>2. \E z \in {One, swapped} : \A w \in {One, swapped} : z >= w
    BY <2>1
  <2>3. PICK m : m = Max({One, swapped})
    OBVIOUS
  <2>4. m \in {One, swapped} /\ m >= One
    BY <2>2, <2>3 DEF Max
  <2>5. m = One
    <3>1. \A x \in Int : x >= One /\ x <= One => x = One
      BY DEF One
    <3>2. \A x \in 0 .. One : x \in Int /\ x <= One
      BY DEF One
    <3>3. One \in Int /\ One <= One
      BY DEF One
    <3>4. m \in Int /\ m <= One
      BY <1>6, <2>4, <3>2, <3>3
    <3> QED  BY <2>4, <3>1, <3>4
  <2> QED  BY <2>3, <2>5
<1>8. ParticipantsSimilarity(a, b, a, b).score = One
  BY <1>5, <1>6, <1>7 DEF ParticipantsSimilarity, BetterOrder
<1>9. TimeOk(0, 0, 90)
  BY DEF TimeOk
<1>10. plain.a = a /\ plain.b = b /\ plain.start = 0
  BY <1>2
<1>11. MatchEvent(plain, plain, 90) = Graded(One, TRUE)
  BY <1>3, <1>8, <1>9, <1>10 DEF MatchEvent, Missing
<1>12. Graded(One, TRUE) = Result(One, "EXACT_NAME_TIME")
  BY DEF Graded, One
<1>13. IsConfident(Result(One, "EXACT_NAME_TIME"))
  BY DEF Result, IsConfident, ConfidentMethods
<1> QED  BY <1>1, <1>2, <1>11, <1>12, <1>13

\* The sources are named once each, from the one that finds YES least likely to the one
\* that finds it most likely.
Named(s, S, n) ==
    /\ s \in [1 .. n -> S]
    /\ \A x \in S : \E i \in 1 .. n : s[i] = x
    /\ \A i, j \in 1 .. n : s[i] = s[j] => i = j

LEMMA ByFairIs ==
  ASSUME NEW fair, DOMAIN fair \subseteq Nat, IsFiniteSet(DOMAIN fair),
         \A k \in DOMAIN fair : fair[k] # None => fair[k].yes \in Int
  PROVE  LET S == {k \in DOMAIN fair : fair[k] # None}
             n == Cardinality(S)
             s == ByFair(fair) IN
         /\ IsFiniteSet(S) /\ n \in Nat /\ Len(s) = n
         /\ Named(s, S, n)
         /\ \A i, j \in 1 .. n : i <= j => fair[s[i]].yes <= fair[s[j]].yes
<1> DEFINE S == {k \in DOMAIN fair : fair[k] # None}
           R == {p \in S \X S : \/ fair[p[1]].yes < fair[p[2]].yes
                                \/ fair[p[1]].yes = fair[p[2]].yes /\ p[1] < p[2]}
           n == Cardinality(S)
           s == ByFair(fair)
<1>1. s = InOrder(S, R)
  BY DEF ByFair, Present
<1>2. IsFiniteSet(S) /\ n \in Nat
  BY FS_Subset, FS_CardinalityType
<1>3. \A x \in S : x \in Nat /\ fair[x].yes \in Int
  OBVIOUS
<1>4. \A x, y \in S : <<x, y>> \in R <=> \/ fair[x].yes < fair[y].yes
                                         \/ fair[x].yes = fair[y].yes /\ x < y
  OBVIOUS
<1> HIDE DEF S, R, n, s
<1>5. Lines(R, S)
  BY <1>3, <1>4 DEF Lines
<1>6. /\ s \in [1 .. n -> S] /\ Len(s) = n
      /\ \A x \in S : \E i \in 1 .. n : s[i] = x
      /\ \A i, j \in 1 .. n : i < j <=> <<s[i], s[j]>> \in R
      /\ \A i, j \in 1 .. n : s[i] = s[j] => i = j
  BY <1>1, <1>2, <1>5, InOrderIs DEF n
<1>7. ASSUME NEW i \in 1 .. n, NEW j \in 1 .. n, i <= j
      PROVE  fair[s[i]].yes <= fair[s[j]].yes
  <2>1. s[i] \in S /\ s[j] \in S
    BY <1>6
  <2>2. CASE i = j
    BY <1>3, <2>1, <2>2
  <2>3. CASE i # j
    <3>1. <<s[i], s[j]>> \in R
      BY <1>2, <1>6, <1>7, <2>3
    <3> QED  BY <1>3, <1>4, <2>1, <3>1
  <2> QED  BY <2>2, <2>3
<1>8. Named(s, S, n)
  BY <1>6 DEF Named
<1> QED  BY <1>2, <1>6, <1>7, <1>8 DEF S, n, s

\* As many are named as there are places.
Part(s, a, b) == {s[k] : k \in a .. b}

LEMMA NamedIsAsMany ==
  ASSUME NEW S, NEW n \in Nat, NEW s, Named(s, S, n), 
         NEW a \in Nat, NEW b \in Nat, 1 <= a, a <= b, b <= n
  PROVE  Part(s, a, b) \subseteq S /\ Cardinality(Part(s, a, b)) \in Nat /\ Cardinality(Part(s, a, b)) = b - a + 1
<1> DEFINE T == {s[k] : k \in a .. b}
           f == [k \in a .. b |-> s[k]]
<1>1. a .. b \subseteq 1 .. n
  OBVIOUS
<1>2. T \subseteq S
  BY <1>1 DEF Named
<1>3. f \in Bijection(a .. b, T)
  <2>1. f \in Surjection(a .. b, T)
    BY DEF Surjection
  <2>2. \A i, j \in a .. b : f[i] = f[j] => i = j
    BY <1>1 DEF Named
  <2>3. f \in Injection(a .. b, T)
    BY <2>2 DEF Injection, IsInjective
  <2> QED  BY <2>1, <2>3 DEF Bijection
<1>4. IsFiniteSet(a .. b) /\ Cardinality(a .. b) = b - a + 1
  BY FS_Interval
<1> HIDE DEF T, f
<1>5. PICK I : I = a .. b
  OBVIOUS
<1>6. IsFiniteSet(I) /\ f \in Bijection(I, T)
  BY <1>3, <1>4, <1>5
<1>7. IsFiniteSet(T) /\ Cardinality(T) = Cardinality(I)
  BY <1>6, FS_Bijection DEF ExistsBijection
<1> QED  BY <1>2, <1>4, <1>5, <1>7 DEF T, Part

\* Two parts that are together more than the whole have a member in common.
LEMMA PartsMeet ==
  ASSUME NEW S, IsFiniteSet(S), NEW A, NEW B, A \subseteq S, B \subseteq S,
         Cardinality(A) + Cardinality(B) > Cardinality(S)
  PROVE  A \cap B # {}
<1> SUFFICES ASSUME A \cap B = {}  PROVE FALSE
  OBVIOUS
<1>1. IsFiniteSet(A) /\ IsFiniteSet(B) /\ A \cup B \subseteq S
  BY FS_Subset
<1>2. /\ Cardinality(A \cup B) = Cardinality(A) + Cardinality(B) - Cardinality({})
      /\ Cardinality({}) = 0
  BY <1>1, FS_Union, FS_EmptySet
<1>3. Cardinality(A \cup B) <= Cardinality(S)
  BY <1>1, FS_Subset
<1> QED  BY <1>1, <1>2, <1>3, FS_CardinalityType

\* Of two orders of one set, what stands at a place in the one or after it and what stands at
\* the same place from the end in the other or after it have a member in common, and so have
\* what stands before.
LEMMA OrdersMeet ==
  ASSUME NEW S, IsFiniteSet(S), NEW n \in Nat, n = Cardinality(S), NEW s, Named(s, S, n),
         NEW t, Named(t, S, n), NEW i \in 1 .. n, NEW j \in 1 .. n, i + j = n + 1
  PROVE  /\ \E k \in i .. n, l \in j .. n : s[k] = t[l]
         /\ \E k \in 1 .. i, l \in 1 .. j : s[k] = t[l]
<1>1. PICK A, B : A = Part(s, i, n) /\ B = Part(t, j, n)
  OBVIOUS
<1>2. /\ A \subseteq S /\ Cardinality(A) \in Nat /\ Cardinality(A) = n - i + 1
      /\ B \subseteq S /\ Cardinality(B) \in Nat /\ Cardinality(B) = n - j + 1
  <2>1. i \in Nat /\ 1 <= i /\ i <= n /\ j \in Nat /\ 1 <= j /\ j <= n /\ n <= n
    OBVIOUS
  <2>2. A \subseteq S /\ Cardinality(A) \in Nat /\ Cardinality(A) = n - i + 1
    BY <1>1, <2>1, NamedIsAsMany
  <2>3. B \subseteq S /\ Cardinality(B) \in Nat /\ Cardinality(B) = n - j + 1
    BY <1>1, <2>1, NamedIsAsMany
  <2> QED  BY <2>2, <2>3
<1>3. A \cap B # {}
  <2>1. (n - i + 1) + (n - j + 1) > n
    OBVIOUS
  <2> QED  BY <1>2, <2>1, PartsMeet
<1>4. PICK C, D : C = Part(s, 1, i) /\ D = Part(t, 1, j)
  OBVIOUS
<1>5. /\ C \subseteq S /\ Cardinality(C) \in Nat /\ Cardinality(C) = i - 1 + 1
      /\ D \subseteq S /\ Cardinality(D) \in Nat /\ Cardinality(D) = j - 1 + 1
  <2>1. i \in Nat /\ 1 <= i /\ i <= n /\ j \in Nat /\ 1 <= j /\ j <= n /\ 1 <= 1 /\ 1 \in Nat
    OBVIOUS
  <2>2. C \subseteq S /\ Cardinality(C) \in Nat /\ Cardinality(C) = i - 1 + 1
    BY <1>4, <2>1, NamedIsAsMany
  <2>3. D \subseteq S /\ Cardinality(D) \in Nat /\ Cardinality(D) = j - 1 + 1
    BY <1>4, <2>1, NamedIsAsMany
  <2> QED  BY <2>2, <2>3
<1>6. C \cap D # {}
  <2>1. (i - 1 + 1) + (j - 1 + 1) > n
    OBVIOUS
  <2> QED  BY <1>5, <2>1, PartsMeet
<1> QED  BY <1>1, <1>3, <1>4, <1>6 DEF Part

\* What stands at a place of the one order and at the same place from the end of the other
\* add up to a whole, if what each source finds fair for the sides does.
LEMMA OrdersAddUp ==
  ASSUME NEW S, IsFiniteSet(S), NEW n \in Nat, n = Cardinality(S), NEW s, Named(s, S, n),
         NEW t, Named(t, S, n), NEW i \in 1 .. n, NEW j \in 1 .. n, i + j = n + 1,
         NEW y \in [S -> Int], NEW z \in [S -> Int], \A k \in S : y[k] + z[k] \in One - 1 .. One,
         \A k, l \in 1 .. n : k <= l => y[s[k]] <= y[s[l]],
         \A k, l \in 1 .. n : k <= l => z[t[k]] <= z[t[l]]
  PROVE  y[s[i]] + z[t[j]] \in One - 1 .. One
<1>1. \A k \in 1 .. n : s[k] \in S /\ t[k] \in S
  BY DEF Named
<1>2. PICK k \in i .. n, l \in j .. n : s[k] = t[l]
  BY OrdersMeet
<1>3. y[s[i]] <= y[s[k]] /\ z[t[j]] <= z[t[l]] /\ s[k] \in S
  <2>1. k \in 1 .. n /\ l \in 1 .. n /\ i <= k /\ j <= l
    OBVIOUS
  <2> QED  BY <1>1, <2>1
<1>4. PICK g \in 1 .. i, h \in 1 .. j : s[g] = t[h]
  BY OrdersMeet
<1>5. y[s[g]] <= y[s[i]] /\ z[t[h]] <= z[t[j]] /\ s[g] \in S
  <2>1. g \in 1 .. n /\ h \in 1 .. n /\ g <= i /\ h <= j
    OBVIOUS
  <2> QED  BY <1>1, <2>1
<1>6. y[s[k]] + z[s[k]] <= One /\ y[s[g]] + z[s[g]] >= One - 1
  BY <1>3, <1>5 DEF One
<1>7. y[s[i]] \in Int /\ z[t[j]] \in Int
  BY <1>1
<1>8. y[s[k]] \in Int /\ z[s[k]] \in Int /\ y[s[g]] \in Int /\ z[s[g]] \in Int
  BY <1>3, <1>5
<1> QED  BY <1>2, <1>3, <1>4, <1>5, <1>6, <1>7, <1>8 DEF One

\* The places next to the middle of a list, or the one in it.
Lower(n) == (n + 1) \div 2
Upper(n) == n \div 2 + 1

LEMMA MiddleIs ==
  ASSUME NEW n \in Nat, n >= 1
  PROVE  /\ Lower(n) \in 1 .. n /\ Upper(n) \in 1 .. n
         /\ Lower(n) + Upper(n) = n + 1 /\ Lower(n) <= Upper(n)
BY DEF Lower, Upper

\* What lies half way between two numbers, rounded down.
HalfWay(x, y) == (x + y) \div 2

LEMMA HalfWayIs ==
  ASSUME NEW x \in Int, NEW y \in Int, x <= y
  PROVE  HalfWay(x, y) \in Int /\ x <= HalfWay(x, y) /\ HalfWay(x, y) <= y
BY DEF HalfWay

LEMMA HalfWaysAddUp ==
  ASSUME NEW x \in Int, NEW y \in Int, NEW v \in Int, NEW w \in Int,
         x + w \in One - 1 .. One, y + v \in One - 1 .. One
  PROVE  HalfWay(x, y) + HalfWay(v, w) \in One - 2 .. One
<1>1. x + w >= One - 1 /\ x + w <= One /\ y + v >= One - 1 /\ y + v <= One
  BY DEF One
<1> QED  BY <1>1 DEF HalfWay, One

\* The consensus is the middle of what the sources find fair.
Middle(fair, order) ==
    HalfWay(fair[order[Lower(Len(order))]].yes, fair[order[Upper(Len(order))]].yes)

\* What each source finds fair.
Fair(books) == [k \in DOMAIN books |-> Devig(books[k].yes, books[k].no)]

LEMMA ConsensusIs ==
  ASSUME NEW books, NEW plain, plain = [a |-> <<"a">>, b |-> <<"b">>, start |-> 0],
         NEW fair, fair = Fair(books),
         NEW order, order = ByFair(fair), NEW n, n = Len(order)
  PROVE  /\ n = 0 => Consensus(TRUE, plain, plain, books).yes = None
         /\ n # 0 => Consensus(TRUE, plain, plain, books).yes = Middle(fair, order)
<1>1. [a |-> plain.a, b |-> plain.b, start |-> plain.start] = plain
  OBVIOUS
<1>2. IsConfident(MatchEvent(plain, plain, 90))
  BY SameEventMatches
<1>3. CASE n = 0
  <2>1. Consensus(TRUE, plain, plain, books) = [yes |-> None, count |-> n, quality |-> SourceQuality(n)]
    BY <1>1, <1>2, <1>3, Zenon DEF Consensus, Fair, HalfWay, Lower, Upper
  <2>2. [yes |-> None, count |-> n, quality |-> SourceQuality(n)].yes = None
    OBVIOUS
  <2>3. Consensus(TRUE, plain, plain, books).yes = None
    BY <2>1, <2>2, Zenon
  <2> QED  BY <1>3, <2>3, Zenon
<1>4. CASE n # 0
  <2>1. PICK x : x = Middle(fair, order)
    OBVIOUS
  <2>2. Consensus(TRUE, plain, plain, books) = [yes |-> x, count |-> n, quality |-> SourceQuality(n)]
    BY <1>1, <1>2, <1>4, <2>1, Zenon DEF Consensus, Fair, Middle, HalfWay, Lower, Upper
  <2>3. [yes |-> x, count |-> n, quality |-> SourceQuality(n)].yes = x
    OBVIOUS
  <2>4. Consensus(TRUE, plain, plain, books).yes = x
    BY <2>2, <2>3, Zenon
  <2> QED  BY <1>4, <2>1, <2>4, Zenon
<1> QED  BY <1>3, <1>4

\* The consensus lies among what the sources find fair and names the same favourite when the
\* sides change places, whatever the odds (compute_consensus_no_vig).
THEOREM ConsensusAlwaysAgrees == ConsensusAgrees
<1> SUFFICES ASSUME NEW books \in [1 .. 3 -> [yes : Odds, no : Odds]], NEW plain,
                    plain = [a |-> <<"a">>, b |-> <<"b">>, start |-> 0],
                    NEW back, back = [k \in 1 .. 3 |-> [yes |-> books[k].no, no |-> books[k].yes]],
                    NEW said, said = Consensus(TRUE, plain, plain, books).yes,
                    NEW turned, turned = Consensus(TRUE, plain, plain, back).yes,
                    NEW all, all = {Devig(books[k].yes, books[k].no) : k \in 1 .. 3} \ {None}
             PROVE  /\ all = {} <=> said = None
                    /\ all # {} => /\ \E f \in all : f.yes <= said
                                   /\ \E f \in all : f.yes >= said
                                   /\ said + turned \in One - 2 .. One
  BY DEF ConsensusAgrees
<1>1. PICK fair : fair = Fair(books)
  OBVIOUS
<1>2. PICK other : other = Fair(back)
  OBVIOUS
<1>3. ASSUME NEW k \in 1 .. 3
      PROVE  /\ fair[k] # None => AddsUp(fair[k])
             /\ fair[k] = None <=> other[k] = None
             /\ fair[k] # None => other[k].yes = fair[k].no
  <2>1. books[k].yes \in Odds /\ books[k].no \in Odds
    OBVIOUS
  <2>2. fair[k] = Devig(books[k].yes, books[k].no) /\ other[k] = Devig(books[k].no, books[k].yes)
    BY <1>1, <1>2 DEF Fair
  <2> QED  BY <2>1, <2>2, DevigIs
<1>4. DOMAIN fair = 1 .. 3 /\ DOMAIN other = 1 .. 3
  BY <1>1, <1>2 DEF Fair
<1>5. PICK S : S = {k \in 1 .. 3 : fair[k] # None}
  OBVIOUS
<1>6. S = {k \in DOMAIN fair : fair[k] # None} /\ S = {k \in DOMAIN other : other[k] # None}
  BY <1>3, <1>4, <1>5
<1>7. PICK n, s, t : n = Cardinality(S) /\ s = ByFair(fair) /\ t = ByFair(other)
  OBVIOUS
<1>8. IsFiniteSet(DOMAIN fair) /\ DOMAIN fair \subseteq Nat
  <2>1. PICK I : I = 1 .. 3
    OBVIOUS
  <2>2. IsFiniteSet(I) /\ I \subseteq Nat
    <3>1. PICK a \in Int, b \in Int : a = 1 /\ b = 3
      OBVIOUS
    <3>2. I = a .. b
      BY <2>1, <3>1
    <3>3. IsFiniteSet(a .. b)
      BY FS_Interval
    <3>4. IsFiniteSet(I)
      BY <3>2, <3>3, Zenon
    <3>5. I \subseteq Nat
      BY <2>1
    <3> QED  BY <3>4, <3>5
  <2> QED  BY <1>4, <2>1, <2>2
<1>9. /\ IsFiniteSet(S) /\ n \in Nat /\ Len(s) = n /\ Named(s, S, n)
      /\ \A i, j \in 1 .. n : i <= j => fair[s[i]].yes <= fair[s[j]].yes
  <2>1. \A k \in DOMAIN fair : fair[k] # None => fair[k].yes \in Int
    BY <1>3, <1>4 DEF AddsUp
  <2> QED  BY <1>4, <1>6, <1>7, <1>8, <2>1, ByFairIs
<1>10. /\ Len(t) = n /\ Named(t, S, n)
       /\ \A i, j \in 1 .. n : i <= j => other[t[i]].yes <= other[t[j]].yes
  <2>1. \A k \in DOMAIN other : other[k] # None => other[k].yes \in Int
    BY <1>3, <1>4 DEF AddsUp
  <2> QED  BY <1>4, <1>6, <1>7, <1>8, <2>1, ByFairIs
<1>11. PICK y, z : y = [k \in S |-> fair[k].yes] /\ z = [k \in S |-> other[k].yes]
  OBVIOUS
<1>12. y \in [S -> Int] /\ z \in [S -> Int] /\ \A k \in S : y[k] + z[k] \in One - 1 .. One
  BY <1>3, <1>5, <1>11 DEF AddsUp
<1>13. \A k, l \in 1 .. n : k <= l => y[s[k]] <= y[s[l]] /\ z[t[k]] <= z[t[l]]
  <2>1. \A k \in 1 .. n : s[k] \in S /\ t[k] \in S
    BY <1>9, <1>10 DEF Named
  <2> QED  BY <1>9, <1>10, <1>11, <2>1
<1>14. all = {fair[k] : k \in S}
  BY <1>1, <1>4, <1>5 DEF Fair
<1>15. CASE n = 0
  <2>1. S = {}
    BY <1>7, <1>9, <1>15, FS_EmptySet
  <2>2. said = None
    BY <1>1, <1>7, <1>9, <1>15, ConsensusIs, Zenon
  <2> QED  BY <1>14, <2>1, <2>2
<1>16. CASE n # 0
  <2>1. PICK a, b : a = Lower(n) /\ b = Upper(n)
    OBVIOUS
  <2>2. a \in 1 .. n /\ b \in 1 .. n /\ a + b = n + 1 /\ b + a = n + 1 /\ a <= b
    <3>1. n >= 1
      BY <1>9, <1>16
    <3>2. a \in 1 .. n /\ b \in 1 .. n /\ a + b = n + 1 /\ a <= b
      BY <1>9, <2>1, <3>1, MiddleIs
    <3> QED  BY <3>2
  <2>3. /\ s[a] \in S /\ s[b] \in S /\ t[a] \in S /\ t[b] \in S
    BY <1>9, <1>10, <2>2 DEF Named
  <2>4. said = HalfWay(y[s[a]], y[s[b]])
    <3>1. said = HalfWay(fair[s[Lower(n)]].yes, fair[s[Upper(n)]].yes)
      <4>1. s = ByFair(fair) /\ n = Len(s)
        BY <1>7, <1>9, Zenon
      <4>2. Consensus(TRUE, plain, plain, books).yes = Middle(fair, s)
        BY <1>1, <4>1, <1>16, ConsensusIs, Zenon
      <4> QED  BY <4>1, <4>2, Zenon DEF Middle
    <3>2. said = HalfWay(fair[s[a]].yes, fair[s[b]].yes)
      BY <2>1, <3>1, Zenon
    <3> QED  BY <1>11, <2>3, <3>2
  <2>5. turned = HalfWay(z[t[a]], z[t[b]])
    <3>1. turned = HalfWay(other[t[Lower(n)]].yes, other[t[Upper(n)]].yes)
      <4>1. t = ByFair(other) /\ n = Len(t)
        BY <1>7, <1>10, Zenon
      <4>2. Consensus(TRUE, plain, plain, back).yes = Middle(other, t)
        BY <1>2, <4>1, <1>16, ConsensusIs, Zenon
      <4> QED  BY <4>1, <4>2, Zenon DEF Middle
    <3>2. turned = HalfWay(other[t[a]].yes, other[t[b]].yes)
      BY <2>1, <3>1, Zenon
    <3> QED  BY <1>11, <2>3, <3>2
  <2>6. y[s[a]] + z[t[b]] \in One - 1 .. One /\ y[s[b]] + z[t[a]] \in One - 1 .. One
    BY <1>7, <1>9, <1>10, <1>12, <1>13, <2>2, OrdersAddUp
  <2>7. y[s[a]] <= y[s[b]] /\ y[s[a]] \in Int /\ y[s[b]] \in Int /\ z[t[a]] \in Int /\ z[t[b]] \in Int
    BY <1>12, <1>13, <2>2, <2>3
  <2>8. /\ y[s[a]] <= said /\ said <= y[s[b]] /\ said \in Int
        /\ said + turned \in One - 2 .. One
    <3>1. y[s[a]] <= said /\ said <= y[s[b]] /\ said \in Int
      BY <2>4, <2>7, HalfWayIs
    <3>2. PICK p \in Int, q \in Int, v \in Int, w \in Int :
            p = y[s[a]] /\ q = y[s[b]] /\ v = z[t[a]] /\ w = z[t[b]]
      BY <2>7
    <3>3. p + w \in One - 1 .. One /\ q + v \in One - 1 .. One
      BY <2>6, <3>2
    <3>4. HalfWay(p, q) + HalfWay(v, w) \in One - 2 .. One
      BY <3>3, HalfWaysAddUp
    <3> QED  BY <2>4, <2>5, <3>1, <3>2, <3>4
  <2>9. fair[s[a]] \in all /\ fair[s[b]] \in all /\ fair[s[a]].yes = y[s[a]] /\ fair[s[b]].yes = y[s[b]]
    BY <1>11, <1>14, <2>3
  <2>10. said # None
    BY <2>8, PipelineAssumption
  <2> QED  BY <2>8, <2>9, <2>10
<1> QED  BY <1>15, <1>16

\* What a run says of probabilities fits together: the sides of a record, the records of one
\* model, and the sides of the consensus.
THEOREM AlwaysCoherent == Spec => []ProbabilitiesCoherent
<1>1. EdgesCoherent /\ OneCalibrationPerModel => ProbabilitiesCoherent
  BY ConsensusAlwaysAgrees DEF ProbabilitiesCoherent
<1> QED  BY <1>1, EdgesAlwaysCoherent, OneCalibrationAlways, PTL
=============================================================================
