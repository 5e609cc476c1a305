----------------------- MODULE OpportunityHistoryProofs -----------------------
(* Theorems about the histories of opportunities and evaluations that hold for  *)
(* any number of runs, records, exceptions and crashes.                         *)
EXTENDS OpportunityHistory, FiniteSetTheorems, TLAPS

\* The versions of a chain are the first numbers, perhaps some of them twice.
Chain(rows) == \E k \in Nat : Versions(rows) = 1 .. k

\* A version some run read: it is there for good, or there was none.
Known(rows) == Versions(rows) \cup {0}

\* What a run read of the opportunity it evaluates is still there. It saves one only if
\* what it read first was still the latest after what it read second, so that the
\* evaluation it numbers comes no later than the opportunity it has saved.
CallInv(p, c, os, es) ==
    c # Idle =>
        /\ c = [at |-> c.at, todo |-> c.todo, seen |-> c.seen, base |-> c.base]
        /\ c.at \in Steps
        /\ c.todo \subseteq Sides(p) /\ c.todo # {}
        /\ LET o == Side(p, First(c.todo)) IN
            /\ c.at # "get_opportunity" => c.seen \in Known(os[o])
            /\ c.at \notin {"get_opportunity", "get_evaluation"} => c.base \in Known(es[o])
            /\ c.at \in {"insert_opportunity", "check_evaluation", "insert_evaluation"} =>
                c.base <= c.seen /\ (c.seen = 0) = (c.base = 0)
            /\ c.at \in {"check_evaluation", "insert_evaluation"} => c.seen + 1 \in Versions(os[o])

RowsInv ==
    /\ opportunities \in [Opportunities -> Seq(OpportunityRow)]
    /\ evaluations \in [Opportunities -> Seq(EvaluationRow)]
    /\ \A o \in Opportunities : /\ Chain(opportunities[o]) /\ Chain(evaluations[o])
                                /\ Versions(evaluations[o]) \subseteq Versions(opportunities[o])
    /\ SignalsChained

CallsInv ==
    /\ run = [p \in Runners |-> run[p]]
    /\ \A p \in Runners : CallInv(p, run[p], opportunities, evaluations)

HistoryInv == RowsInv /\ CallsInv
-----------------------------------------------------------------------------
(* Rows *)

LEMMA LatestOfChain ==
  ASSUME NEW rows, NEW k \in Nat, Versions(rows) = 1 .. k
  PROVE  LatestVersion(rows) = k
<1>1. k \in Known(rows) /\ \A w \in Versions(rows) : w <= k
  BY DEF Known
<1>2. \A v \in Known(rows) : (\A w \in Versions(rows) : w <= v) => v = k
  <2> SUFFICES ASSUME NEW v \in Known(rows), \A w \in Versions(rows) : w <= v  PROVE v = k
    OBVIOUS
  <2>1. v \in 0 .. k
    BY DEF Known
  <2>2. CASE k = 0
    BY <2>1, <2>2
  <2>3. CASE k > 0
    <3>1. k \in Versions(rows)
      BY <2>3
    <3> QED  BY <2>1, <3>1
  <2> QED  BY <2>2, <2>3
<1> QED  BY <1>1, <1>2 DEF LatestVersion, Known

LEMMA AppendVersion ==
  ASSUME NEW R, NEW rows \in Seq(R), NEW row \in R
  PROVE  /\ Versions(Append(rows, row)) = Versions(rows) \cup {row.version}
         /\ Append(rows, row) \in Seq(R)
         /\ DOMAIN Append(rows, row) = DOMAIN rows \cup {Len(rows) + 1}
         /\ \A i \in DOMAIN rows : Append(rows, row)[i] = rows[i]
         /\ Append(rows, row)[Len(rows) + 1] = row
<1> DEFINE more == Append(rows, row)
<1>1. Len(rows) \in Nat /\ DOMAIN rows = 1 .. Len(rows)
  OBVIOUS
<1>2. /\ more \in Seq(R)
      /\ DOMAIN more = 1 .. Len(rows) + 1
      /\ \A i \in 1 .. Len(rows) : more[i] = rows[i]
      /\ more[Len(rows) + 1] = row
  BY <1>1
<1> HIDE DEF more
<1>3. DOMAIN more = DOMAIN rows \cup {Len(rows) + 1}
  BY <1>1, <1>2
<1>4. Versions(more) = Versions(rows) \cup {row.version}
  BY <1>1, <1>2, <1>3, Zenon DEF Versions
<1> QED  BY <1>1, <1>2, <1>3, <1>4 DEF more

\* A chain stays one when the version after one that is known is added.
LEMMA ChainGrows ==
  ASSUME NEW rows, NEW more, NEW v, Chain(rows), v \in Known(rows),
         Versions(more) = Versions(rows) \cup {v + 1}
  PROVE  Chain(more)
<1>1. PICK k \in Nat : Versions(rows) = 1 .. k
  BY DEF Chain
<1>2. v \in 0 .. k
  BY <1>1 DEF Known
<1>3. CASE v = k
  <2>1. Versions(more) = 1 .. k + 1
    BY <1>1, <1>3
  <2> QED  BY <2>1 DEF Chain
<1>4. CASE v < k
  <2>1. Versions(more) = 1 .. k
    BY <1>1, <1>2, <1>4
  <2> QED  BY <2>1 DEF Chain
<1> QED  BY <1>2, <1>3, <1>4

LEMMA KnownIsNat ==
  ASSUME NEW rows, Chain(rows), NEW v \in Known(rows)
  PROVE  v \in Nat
BY DEF Chain, Known

LEMMA LatestKnown ==
  ASSUME NEW rows, Chain(rows)
  PROVE  /\ LatestVersion(rows) \in Known(rows)
         /\ \A v \in Known(rows) : v <= LatestVersion(rows)
<1>1. PICK k \in Nat : Versions(rows) = 1 .. k
  BY DEF Chain
<1>2. LatestVersion(rows) = k
  BY <1>1, LatestOfChain
<1> QED  BY <1>1, <1>2 DEF Known
-----------------------------------------------------------------------------
(* Calls *)

LEMMA FirstIsOne ==
  ASSUME NEW S, S \subseteq Nat, S # {}
  PROVE  First(S) \in S
<1>1. \E x \in S : \A y \in S : ~ (<<y, x>> \in OpToRel(<, Nat))
  BY NatLessThanWellFounded, WFMin
<1>2. PICK x \in S : \A y \in S : ~ (<<y, x>> \in OpToRel(<, Nat))
  BY <1>1
<1>3. ASSUME NEW y \in S  PROVE x <= y
  <2>1. ~(y < x)
    BY <1>2 DEF OpToRel
  <2> QED  BY <2>1
<1> QED  BY <1>3 DEF First

\* Each place of a batch is a side of a record.
LEMMA SideTypes ==
  ASSUME NEW p \in Runners, NEW i \in Sides(p)
  PROVE  Side(p, i) \in Opportunities
<1>1. BatchOf[p] \in Seq(Records) /\ Len(BatchOf[p]) \in Nat
  BY HistoryAssumption
<1>2. (i + 1) \div 2 \in 1 .. Len(BatchOf[p])
  BY <1>1 DEF Sides
<1> QED  BY <1>1, <1>2 DEF Side, Opportunities

LEMMA FirstSideTypes ==
  ASSUME NEW p \in Runners, NEW todo, todo \subseteq Sides(p), todo # {}
  PROVE  First(todo) \in todo /\ Side(p, First(todo)) \in Opportunities
<1>1. Len(BatchOf[p]) \in Nat
  BY HistoryAssumption
<1>2. todo \subseteq Nat
  BY <1>1 DEF Sides
<1>3. First(todo) \in todo
  BY <1>2, FirstIsOne
<1> QED  BY <1>3, SideTypes

\* Rows that are added take nothing from what a run knows.
LEMMA CallKept ==
  ASSUME NEW p \in Runners, NEW c, NEW os, NEW es, NEW os2, NEW es2, CallInv(p, c, os, es),
         \A o \in Opportunities : /\ Versions(os[o]) \subseteq Versions(os2[o])
                                  /\ Versions(es[o]) \subseteq Versions(es2[o])
  PROVE  CallInv(p, c, os2, es2)
<1>1. c # Idle => Side(p, First(c.todo)) \in Opportunities
  BY FirstSideTypes DEF CallInv
<1> QED  BY <1>1, Zenon DEF CallInv, Known

LEMMA CallsKept ==
  ASSUME NEW p \in Runners, NEW c, CallsInv, run' = [run EXCEPT ![p] = c],
         CallInv(p, c, opportunities', evaluations'),
         \A o \in Opportunities : /\ Versions(opportunities[o]) \subseteq Versions(opportunities'[o])
                                  /\ Versions(evaluations[o]) \subseteq Versions(evaluations'[o])
  PROVE  CallsInv'
<1>1. run' = [q \in Runners |-> run'[q]]
  BY Zenon DEF CallsInv
<1>2. ASSUME NEW q \in Runners  PROVE CallInv(q, run'[q], opportunities', evaluations')
  <2>1. CASE q = p
    <3>1. run'[q] = c
      BY <2>1, Zenon DEF CallsInv
    <3> QED  BY <2>1, <3>1
  <2>2. CASE q # p
    <3>1. run'[q] = run[q]
      BY <2>2, Zenon DEF CallsInv
    <3>2. CallInv(q, run[q], opportunities', evaluations')
      BY CallKept, Zenon DEF CallsInv
    <3> QED  BY <3>1, <3>2
  <2> QED  BY <2>1, <2>2
<1> QED  BY <1>1, <1>2 DEF CallsInv

\* The same where the rows are left alone.
LEMMA CallsMove ==
  ASSUME NEW p \in Runners, NEW c, HistoryInv, run' = [run EXCEPT ![p] = c],
         CallInv(p, c, opportunities, evaluations), UNCHANGED <<opportunities, evaluations>>
  PROVE  HistoryInv'
<1>1. CallsInv'
  BY CallsKept DEF HistoryInv
<1>2. RowsInv'
  BY DEF HistoryInv, RowsInv, SignalsChained
<1> QED  BY <1>1, <1>2 DEF HistoryInv

\* Nothing is asked of a run that begins the next side, or none.
LEMMA ContinueFine ==
  ASSUME NEW p \in Runners, NEW todo, todo \subseteq Sides(p), Continue(p, todo), HistoryInv,
         UNCHANGED <<opportunities, evaluations>>
  PROVE  HistoryInv'
<1> DEFINE c == IF todo = {} THEN Idle ELSE Evaluating(todo)
<1>1. run' = [run EXCEPT ![p] = c]
  BY DEF Continue
<1>2. CallInv(p, c, opportunities, evaluations)
  BY DEF CallInv, Evaluating, Steps, Idle
<1> HIDE DEF c
<1> QED  BY <1>1, <1>2, CallsMove
-----------------------------------------------------------------------------
(* The steps of a run *)

\* What is known of a run that evaluates a side.
LEMMA CallOf ==
  ASSUME NEW p \in Runners, HistoryInv, run[p] # Idle
  PROVE  /\ run[p] = [at |-> run[p].at, todo |-> run[p].todo, seen |-> run[p].seen, base |-> run[p].base]
         /\ CallInv(p, run[p], opportunities, evaluations)
         /\ run = [q \in Runners |-> run[q]]
         /\ run[p].todo \subseteq Sides(p) /\ run[p].todo # {} /\ This(p) \in Opportunities
<1>1. CallInv(p, run[p], opportunities, evaluations)
  BY DEF HistoryInv, CallsInv
<1>2. run[p].todo \subseteq Sides(p) /\ run[p].todo # {}
  BY <1>1 DEF CallInv
<1> QED  BY <1>1, <1>2, FirstSideTypes DEF HistoryInv, CallsInv, CallInv, This

LEMMA NextSideFine ==
  ASSUME NEW p \in Runners, HistoryInv, run[p] # Idle, NextSide(p),
         UNCHANGED <<opportunities, evaluations>>
  PROVE  HistoryInv'
<1>1. run[p].todo \ {First(run[p].todo)} \subseteq Sides(p)
  BY CallOf
<1> QED  BY <1>1, ContinueFine DEF NextSide

\* How one or two fields of a call are changed, with all of them written out.
LEMMA OneField ==
  ASSUME NEW r, r = [at |-> r.at, todo |-> r.todo, seen |-> r.seen, base |-> r.base], NEW x
  PROVE  /\ [r EXCEPT !.at = x] = [at |-> x, todo |-> r.todo, seen |-> r.seen, base |-> r.base]
         /\ [r EXCEPT !.seen = x] = [at |-> r.at, todo |-> r.todo, seen |-> x, base |-> r.base]
         /\ [r EXCEPT !.base = x] = [at |-> r.at, todo |-> r.todo, seen |-> r.seen, base |-> x]
OBVIOUS

LEMMA AtAndSeen ==
  ASSUME NEW r, r = [at |-> r.at, todo |-> r.todo, seen |-> r.seen, base |-> r.base], NEW x, NEW y
  PROVE  [r EXCEPT !.at = x, !.seen = y] = [at |-> x, todo |-> r.todo, seen |-> y, base |-> r.base]
<1> DEFINE s == [r EXCEPT !.at = x]
<1>1. s = [at |-> x, todo |-> r.todo, seen |-> r.seen, base |-> r.base]
  BY OneField
<1>2. s = [at |-> s.at, todo |-> s.todo, seen |-> s.seen, base |-> s.base]
  BY <1>1
<1> HIDE DEF s
<1>3. [s EXCEPT !.seen = y] = [at |-> x, todo |-> r.todo, seen |-> y, base |-> r.base]
  BY <1>1, <1>2, OneField
<1>4. [r EXCEPT !.at = x, !.seen = y] = [s EXCEPT !.seen = y]
  BY Zenon DEF s
<1> QED  BY <1>3, <1>4

LEMMA AtAndBase ==
  ASSUME NEW r, r = [at |-> r.at, todo |-> r.todo, seen |-> r.seen, base |-> r.base], NEW x, NEW y
  PROVE  [r EXCEPT !.at = x, !.base = y] = [at |-> x, todo |-> r.todo, seen |-> r.seen, base |-> y]
<1> DEFINE s == [r EXCEPT !.at = x]
<1>1. s = [at |-> x, todo |-> r.todo, seen |-> r.seen, base |-> r.base]
  BY OneField
<1>2. s = [at |-> s.at, todo |-> s.todo, seen |-> s.seen, base |-> s.base]
  BY <1>1
<1> HIDE DEF s
<1>3. [s EXCEPT !.base = y] = [at |-> x, todo |-> r.todo, seen |-> r.seen, base |-> y]
  BY <1>1, <1>2, OneField
<1>4. [r EXCEPT !.at = x, !.base = y] = [s EXCEPT !.base = y]
  BY Zenon DEF s
<1> QED  BY <1>3, <1>4

LEMMA GotoSets ==
  ASSUME NEW p \in Runners, HistoryInv, run[p] # Idle, NEW step, Goto(p, step)
  PROVE  run' = [run EXCEPT ![p] = [at |-> step, todo |-> run[p].todo, seen |-> run[p].seen, base |-> run[p].base]]
<1>1. run' = [run EXCEPT ![p] = [run[p] EXCEPT !.at = step]]
  BY Zenon DEF Goto
<1>2. [run[p] EXCEPT !.at = step] = [at |-> step, todo |-> run[p].todo, seen |-> run[p].seen, base |-> run[p].base]
  BY CallOf, OneField
<1> QED  BY <1>1, <1>2

LEMMA ChainsOf ==
  ASSUME HistoryInv, NEW o \in Opportunities
  PROVE  /\ Chain(opportunities[o]) /\ Chain(evaluations[o])
         /\ opportunities[o] \in Seq(OpportunityRow) /\ evaluations[o] \in Seq(EvaluationRow)
         /\ Versions(evaluations[o]) \subseteq Versions(opportunities[o])
BY DEF HistoryInv, RowsInv

LEMMA GetLatestOpportunitySets ==
  ASSUME NEW p \in Runners, HistoryInv, GetLatestOpportunity(p)
  PROVE  run' = [run EXCEPT ![p] = [at |-> "get_evaluation", todo |-> run[p].todo,
                    seen |-> LatestVersion(opportunities[This(p)]), base |-> run[p].base]]
<1>1. run' = [run EXCEPT ![p] = [run[p] EXCEPT !.at = "get_evaluation", !.seen = LatestVersion(opportunities[This(p)])]]
  BY CallOf, Zenon DEF GetLatestOpportunity, At
<1>2. run[p] = [at |-> run[p].at, todo |-> run[p].todo, seen |-> run[p].seen, base |-> run[p].base]
  BY CallOf DEF GetLatestOpportunity, At
<1>3. \A y : [run[p] EXCEPT !.at = "get_evaluation", !.seen = y] =
              [at |-> "get_evaluation", todo |-> run[p].todo, seen |-> y, base |-> run[p].base]
  BY <1>2, AtAndSeen, Zenon
<1> QED  BY <1>1, <1>3, Zenon

LEMMA GetLatestOpportunityKeeps ==
  ASSUME NEW p \in Runners, HistoryInv, GetLatestOpportunity(p)
  PROVE  HistoryInv'
<1> DEFINE c == [at |-> "get_evaluation", todo |-> run[p].todo,
                 seen |-> LatestVersion(opportunities[This(p)]), base |-> run[p].base]
<1>1. run' = [run EXCEPT ![p] = c]
  BY GetLatestOpportunitySets
<1>2. CallInv(p, c, opportunities, evaluations)
  <2>1. LatestVersion(opportunities[This(p)]) \in Known(opportunities[This(p)])
    BY CallOf, ChainsOf, LatestKnown DEF GetLatestOpportunity, At
  <2>2. "get_evaluation" \in Steps
    BY DEF Steps
  <2> QED  BY <2>1, <2>2, CallOf DEF CallInv, This, GetLatestOpportunity, At
<1> HIDE DEF c
<1> QED  BY <1>1, <1>2, CallsMove DEF GetLatestOpportunity

LEMMA GetLatestEvaluationSets ==
  ASSUME NEW p \in Runners, HistoryInv, GetLatestEvaluation(p)
  PROVE  run' = [run EXCEPT ![p] = [at |-> "check_opportunity", todo |-> run[p].todo,
                    seen |-> run[p].seen, base |-> LatestVersion(evaluations[This(p)])]]
<1>1. run' = [run EXCEPT ![p] = [run[p] EXCEPT !.at = "check_opportunity", !.base = LatestVersion(evaluations[This(p)])]]
  BY CallOf, Zenon DEF GetLatestEvaluation, At
<1>2. run[p] = [at |-> run[p].at, todo |-> run[p].todo, seen |-> run[p].seen, base |-> run[p].base]
  BY CallOf DEF GetLatestEvaluation, At
<1>3. \A y : [run[p] EXCEPT !.at = "check_opportunity", !.base = y] =
              [at |-> "check_opportunity", todo |-> run[p].todo, seen |-> run[p].seen, base |-> y]
  BY <1>2, AtAndBase, Zenon
<1> QED  BY <1>1, <1>3, Zenon

LEMMA GetLatestEvaluationKeeps ==
  ASSUME NEW p \in Runners, HistoryInv, GetLatestEvaluation(p)
  PROVE  HistoryInv'
<1> DEFINE c == [at |-> "check_opportunity", todo |-> run[p].todo, seen |-> run[p].seen,
                 base |-> LatestVersion(evaluations[This(p)])]
<1>1. run' = [run EXCEPT ![p] = c]
  BY GetLatestEvaluationSets
<1>2. CallInv(p, c, opportunities, evaluations)
  <2>1. LatestVersion(evaluations[This(p)]) \in Known(evaluations[This(p)])
    BY CallOf, ChainsOf, LatestKnown DEF GetLatestEvaluation, At
  <2>2. run[p].seen \in Known(opportunities[This(p)])
    BY CallOf DEF CallInv, This, GetLatestEvaluation, At
  <2>3. "check_opportunity" \in Steps
    BY DEF Steps
  <2> QED  BY <2>1, <2>2, <2>3, CallOf DEF CallInv, This, GetLatestEvaluation, At
<1> HIDE DEF c
<1> QED  BY <1>1, <1>2, CallsMove DEF GetLatestEvaluation

\* What was read is still the latest, and the evaluations are never ahead.
LEMMA CheckOpportunityKeeps ==
  ASSUME NEW p \in Runners, HistoryInv, CheckOpportunity(p)
  PROVE  HistoryInv'
<1>1. CASE ~Admissible(p)
  BY <1>1, NextSideFine DEF CheckOpportunity, At
<1>2. CASE Admissible(p)
  <2> DEFINE c == [at |-> "insert_opportunity", todo |-> run[p].todo,
                   seen |-> run[p].seen, base |-> run[p].base]
  <2>1. run' = [run EXCEPT ![p] = c]
    BY <1>2, GotoSets DEF CheckOpportunity, At
  <2>2. /\ run[p].seen \in Known(opportunities[This(p)])
        /\ run[p].base \in Known(evaluations[This(p)])
        /\ run[p].base <= run[p].seen
    <3>0. This(p) \in Opportunities
      BY CallOf DEF CheckOpportunity, At
    <3>1. run[p].seen \in Known(opportunities[This(p)]) /\ run[p].base \in Known(evaluations[This(p)])
      BY CallOf DEF CallInv, This, CheckOpportunity, At
    <3>2. run[p].base \in Known(opportunities[This(p)])
      BY <3>0, <3>1, ChainsOf DEF Known
    <3>3. run[p].base <= run[p].seen
      BY <1>2, <3>0, <3>2, ChainsOf, LatestKnown DEF Admissible
    <3> QED  BY <3>1, <3>3
  <2>3. "insert_opportunity" \in Steps /\ (run[p].seen = 0) = (run[p].base = 0)
    BY <1>2 DEF Steps, Admissible
  <2>4. CallInv(p, c, opportunities, evaluations)
    BY <2>2, <2>3, CallOf DEF CallInv, This, CheckOpportunity, At
  <2> HIDE DEF c
  <2> QED  BY <2>1, <2>4, CallsMove DEF CheckOpportunity
<1> QED  BY <1>1, <1>2

LEMMA CheckEvaluationKeeps ==
  ASSUME NEW p \in Runners, HistoryInv, CheckEvaluation(p)
  PROVE  HistoryInv'
<1> DEFINE free == LatestVersion(evaluations[This(p)]) = run[p].base
<1>1. CASE ~free
  BY <1>1, NextSideFine DEF CheckEvaluation, At
<1>2. CASE free
  <2> DEFINE c == [at |-> "insert_evaluation", todo |-> run[p].todo,
                   seen |-> run[p].seen, base |-> run[p].base]
  <2>1. run' = [run EXCEPT ![p] = c]
    BY <1>2, GotoSets DEF CheckEvaluation, At
  <2>2. "insert_evaluation" \in Steps
    BY DEF Steps
  <2>3. CallInv(p, c, opportunities, evaluations)
    BY <2>2, CallOf DEF CallInv, CheckEvaluation, At
  <2> HIDE DEF c
  <2> QED  BY <2>1, <2>3, CallsMove DEF CheckEvaluation
<1> QED  BY <1>1, <1>2

\* The version after one that is known closes no gap and leaves none.
LEMMA InsertOpportunityKeeps ==
  ASSUME NEW p \in Runners, HistoryInv, InsertOpportunity(p)
  PROVE  HistoryInv'
<1> DEFINE o == This(p)
           old == opportunities[o]
           row == NewOpportunity(p)
           c == [at |-> "check_evaluation", todo |-> run[p].todo, seen |-> run[p].seen, base |-> run[p].base]
<1> o \in Opportunities
  BY CallOf DEF InsertOpportunity, At
<1>1. /\ run[p].seen \in Known(old) /\ run[p].base \in Known(evaluations[o])
      /\ run[p].base <= run[p].seen /\ (run[p].seen = 0) = (run[p].base = 0)
  BY CallOf DEF CallInv, This, InsertOpportunity, At
<1>2. run[p].seen \in Nat /\ run[p].base \in Nat
  BY <1>1, ChainsOf, KnownIsNat
<1>3. row = [version |-> run[p].seen + 1, previous_signal_id |-> run[p].base] /\ row \in OpportunityRow
  BY <1>2 DEF NewOpportunity, OpportunityRow
<1>4. old \in Seq(OpportunityRow)
  BY ChainsOf
<1> HIDE DEF row
<1>5. opportunities' = [opportunities EXCEPT ![o] = Append(old, row)] /\ evaluations' = evaluations
  BY DEF InsertOpportunity, row
<1>6. opportunities \in [Opportunities -> Seq(OpportunityRow)]
  BY DEF HistoryInv, RowsInv
<1>7. opportunities' \in [Opportunities -> Seq(OpportunityRow)]
  BY <1>3, <1>4, <1>5, <1>6, AppendVersion
<1>8. opportunities'[o] = Append(old, row) /\ \A other \in Opportunities \ {o} : opportunities'[other] = opportunities[other]
  BY <1>5, <1>6
<1>9. Versions(opportunities'[o]) = Versions(old) \cup {run[p].seen + 1}
  BY <1>3, <1>4, <1>8, AppendVersion
<1>10. \A other \in Opportunities :
         /\ Versions(opportunities[other]) \subseteq Versions(opportunities'[other])
         /\ Versions(evaluations[other]) \subseteq Versions(evaluations'[other])
  BY <1>5, <1>8, <1>9
<1>11. \A other \in Opportunities :
         /\ Chain(opportunities'[other]) /\ Chain(evaluations'[other])
         /\ Versions(evaluations'[other]) \subseteq Versions(opportunities'[other])
  <2> SUFFICES ASSUME NEW other \in Opportunities
               PROVE  /\ Chain(opportunities'[other]) /\ Chain(evaluations'[other])
                      /\ Versions(evaluations'[other]) \subseteq Versions(opportunities'[other])
    OBVIOUS
  <2>1. Chain(opportunities'[o])
    BY <1>1, <1>9, ChainsOf, ChainGrows
  <2>2. Chain(opportunities'[other])
    BY <1>8, <2>1, ChainsOf
  <2> QED  BY <1>5, <1>10, <2>2, ChainsOf
<1>12. SignalsChained'
  <2> SUFFICES ASSUME NEW other \in Opportunities, NEW i \in DOMAIN opportunities'[other]
               PROVE  LET r == opportunities'[other][i] IN
                        IF r.version = 1 THEN r.previous_signal_id = 0
                        ELSE r.previous_signal_id \in Versions(evaluations[other]) /\ r.previous_signal_id < r.version
    BY <1>5 DEF SignalsChained
  <2>1. CASE other # o
    BY <1>8, <2>1 DEF HistoryInv, RowsInv, SignalsChained
  <2>2. CASE other = o /\ i \in DOMAIN old
    <3>1. opportunities'[other][i] = old[i]
      BY <1>3, <1>4, <1>8, <2>2, AppendVersion
    <3> QED  BY <2>2, <3>1 DEF HistoryInv, RowsInv, SignalsChained
  <2>3. CASE other = o /\ i \notin DOMAIN old
    <3>1. opportunities'[other][i] = row
      BY <1>3, <1>4, <1>8, <2>3, AppendVersion
    <3>2. run[p].base # 0 => run[p].base \in Versions(evaluations[o])
      BY <1>1 DEF Known
    <3> QED  BY <1>1, <1>2, <1>3, <2>3, <3>1, <3>2
  <2> QED  BY <2>1, <2>2, <2>3
<1>13. RowsInv'
  BY <1>5, <1>7, <1>11, <1>12 DEF HistoryInv, RowsInv
<1>14. run' = [run EXCEPT ![p] = c]
  BY GotoSets DEF InsertOpportunity, At
<1>15. CallInv(p, c, opportunities', evaluations')
  <2>1. "check_evaluation" \in Steps
    BY DEF Steps
  <2>2. run[p].seen \in Known(opportunities'[o]) /\ run[p].base \in Known(evaluations'[o])
    BY <1>1, <1>5, <1>9 DEF Known
  <2>3. o = Side(p, First(run[p].todo)) /\ run[p].todo \subseteq Sides(p) /\ run[p].todo # {}
    BY CallOf DEF This, InsertOpportunity, At
  <2> QED  BY <1>1, <1>9, <2>1, <2>2, <2>3 DEF CallInv
<1> HIDE DEF c
<1>16. CallsInv'
  BY <1>10, <1>14, <1>15, CallsKept DEF HistoryInv
<1> QED  BY <1>13, <1>16 DEF HistoryInv

\* The evaluation is numbered no later than the opportunity its run has saved.
LEMMA InsertEvaluationKeeps ==
  ASSUME NEW p \in Runners, HistoryInv, InsertEvaluation(p)
  PROVE  HistoryInv'
<1> DEFINE o == This(p)
           old == evaluations[o]
           row == NewEvaluation(p)
           todo == run[p].todo \ {First(run[p].todo)}
           c == IF todo = {} THEN Idle ELSE Evaluating(todo)
<1> o \in Opportunities
  BY CallOf DEF InsertEvaluation, At
<1>1. /\ run[p].seen \in Known(opportunities[o]) /\ run[p].base \in Known(old)
      /\ run[p].base <= run[p].seen /\ run[p].seen + 1 \in Versions(opportunities[o])
  BY CallOf DEF CallInv, This, InsertEvaluation, At
<1>2. run[p].seen \in Nat /\ run[p].base \in Nat
  BY <1>1, ChainsOf, KnownIsNat
<1>3. row = [version |-> run[p].base + 1, of |-> run[p].seen + 1] /\ row \in EvaluationRow
  BY <1>2 DEF NewEvaluation, EvaluationRow
<1>4. old \in Seq(EvaluationRow)
  BY ChainsOf
<1> HIDE DEF row
<1>5. evaluations' = [evaluations EXCEPT ![o] = Append(old, row)] /\ opportunities' = opportunities
  BY DEF InsertEvaluation, row
<1>6. evaluations \in [Opportunities -> Seq(EvaluationRow)]
  BY DEF HistoryInv, RowsInv
<1>7. evaluations' \in [Opportunities -> Seq(EvaluationRow)]
  BY <1>3, <1>4, <1>5, <1>6, AppendVersion
<1>8. evaluations'[o] = Append(old, row) /\ \A other \in Opportunities \ {o} : evaluations'[other] = evaluations[other]
  BY <1>5, <1>6
<1>9. Versions(evaluations'[o]) = Versions(old) \cup {run[p].base + 1}
  BY <1>3, <1>4, <1>8, AppendVersion
<1>10. \A other \in Opportunities :
         /\ Versions(opportunities[other]) \subseteq Versions(opportunities'[other])
         /\ Versions(evaluations[other]) \subseteq Versions(evaluations'[other])
  BY <1>5, <1>8, <1>9
<1>11. run[p].base + 1 \in Versions(opportunities[o])
  <2>1. PICK k \in Nat : Versions(opportunities[o]) = 1 .. k
    BY ChainsOf DEF Chain
  <2> QED  BY <1>1, <1>2, <2>1
<1>12. \A other \in Opportunities :
         /\ Chain(opportunities'[other]) /\ Chain(evaluations'[other])
         /\ Versions(evaluations'[other]) \subseteq Versions(opportunities'[other])
  <2> SUFFICES ASSUME NEW other \in Opportunities
               PROVE  /\ Chain(opportunities'[other]) /\ Chain(evaluations'[other])
                      /\ Versions(evaluations'[other]) \subseteq Versions(opportunities'[other])
    OBVIOUS
  <2>1. Chain(evaluations'[o])
    BY <1>1, <1>9, ChainsOf, ChainGrows
  <2>2. Versions(evaluations'[o]) \subseteq Versions(opportunities'[o])
    BY <1>5, <1>9, <1>11, ChainsOf
  <2> QED  BY <1>5, <1>8, <2>1, <2>2, ChainsOf
<1>13. SignalsChained'
  BY <1>5, <1>10, Zenon DEF HistoryInv, RowsInv, SignalsChained
<1>14. RowsInv'
  BY <1>5, <1>7, <1>12, <1>13 DEF HistoryInv, RowsInv
<1>15. run' = [run EXCEPT ![p] = c]
  BY DEF InsertEvaluation, NextSide, Continue
<1>16. CallInv(p, c, opportunities', evaluations')
  <2>1. todo \subseteq Sides(p)
    BY CallOf DEF InsertEvaluation, At
  <2> QED  BY <2>1 DEF CallInv, Evaluating, Steps, Idle
<1> HIDE DEF c
<1>17. CallsInv'
  BY <1>10, <1>15, <1>16, CallsKept DEF HistoryInv
<1> QED  BY <1>14, <1>17 DEF HistoryInv

-----------------------------------------------------------------------------
(* The histories *)

LEMMA HistoryStarts == Init => HistoryInv
<1> SUFFICES ASSUME Init  PROVE HistoryInv
  OBVIOUS
<1>1. \A o \in Opportunities : opportunities[o] = <<>> /\ evaluations[o] = <<>>
  BY DEF Init
<1>2. Versions(<<>>) = {} /\ {} = 1 .. 0
  BY DEF Versions
<1>3. Chain(<<>>)
  BY <1>2 DEF Chain
<1>4. opportunities \in [Opportunities -> Seq(OpportunityRow)] /\ evaluations \in [Opportunities -> Seq(EvaluationRow)]
  BY DEF Init
<1>5. SignalsChained
  BY <1>1 DEF SignalsChained
<1>6. RowsInv
  BY <1>1, <1>3, <1>4, <1>5 DEF RowsInv
<1>7. CallsInv
  BY DEF Init, CallsInv, CallInv
<1> QED  BY <1>6, <1>7 DEF HistoryInv

LEMMA EvaluateKeeps ==
  ASSUME NEW p \in Runners, HistoryInv, Evaluate(p)
  PROVE  HistoryInv'
<1>1. CASE GetLatestOpportunity(p)
  BY <1>1, GetLatestOpportunityKeeps
<1>2. CASE GetLatestEvaluation(p)
  BY <1>2, GetLatestEvaluationKeeps
<1>3. CASE CheckOpportunity(p)
  BY <1>3, CheckOpportunityKeeps
<1>4. CASE InsertOpportunity(p)
  BY <1>4, InsertOpportunityKeeps
<1>5. CASE CheckEvaluation(p)
  BY <1>5, CheckEvaluationKeeps
<1>6. CASE InsertEvaluation(p)
  BY <1>6, InsertEvaluationKeeps
<1> QED  BY <1>1, <1>2, <1>3, <1>4, <1>5, <1>6 DEF Evaluate

LEMMA HistoryGoesOn == HistoryInv /\ [Next]_vars => HistoryInv'
<1> SUFFICES ASSUME HistoryInv, [Next]_vars  PROVE HistoryInv'
  OBVIOUS
<1>1. CASE UNCHANGED vars
  BY <1>1 DEF vars, HistoryInv, RowsInv, CallsInv, SignalsChained
<1>2. ASSUME NEW p \in Runners, Begin(p)  PROVE HistoryInv'
  <2>1. Batch(p) \subseteq Sides(p)
    BY DEF Batch
  <2> QED  BY <1>2, <2>1, ContinueFine DEF Begin
<1>3. ASSUME NEW p \in Runners, Evaluate(p)  PROVE HistoryInv'
  BY <1>3, EvaluateKeeps
<1>4. ASSUME NEW p \in Runners, Raise(p)  PROVE HistoryInv'
  BY <1>4, NextSideFine DEF Raise
<1>5. ASSUME NEW p \in Runners, SkipRecord(p)  PROVE HistoryInv'
  <2>1. run[p].todo \subseteq Sides(p)
    BY <1>5, CallOf DEF SkipRecord, At
  <2>2. PICK todo : todo \subseteq run[p].todo /\ Continue(p, todo)
    BY <1>5 DEF SkipRecord
  <2>3. UNCHANGED <<opportunities, evaluations>>
    BY <1>5 DEF SkipRecord
  <2>4. todo \subseteq Sides(p)
    BY <2>1, <2>2
  <2> QED  BY <2>2, <2>3, <2>4, ContinueFine
<1>6. ASSUME NEW p \in Runners, Crash(p)  PROVE HistoryInv'
  <2>1. CallInv(p, Idle, opportunities, evaluations)
    BY DEF CallInv
  <2> QED  BY <1>6, <2>1, CallsMove DEF Crash
<1> QED  BY <1>1, <1>2, <1>3, <1>4, <1>5, <1>6 DEF Next

LEMMA HistoryAlways == Spec => []HistoryInv
BY HistoryStarts, HistoryGoesOn, PTL DEF Spec

LEMMA FaultsCounted == Spec => [](faults \in Nat)
<1>1. Init => faults \in Nat
  BY DEF Init
<1>2. faults \in Nat /\ [Next]_vars => (faults \in Nat)'
  <2> SUFFICES ASSUME faults \in Nat, [Next]_vars  PROVE faults' \in Nat
    OBVIOUS
  <2>1. ASSUME NEW p \in Runners, Begin(p) \/ Evaluate(p)  PROVE faults' = faults
    BY <2>1, Zenon DEF Begin, Evaluate, GetLatestOpportunity, GetLatestEvaluation,
       CheckOpportunity, InsertOpportunity, CheckEvaluation, InsertEvaluation
  <2>2. ASSUME NEW p \in Runners, Raise(p) \/ SkipRecord(p) \/ Crash(p)
        PROVE  faults' = faults + 1
    BY <2>2, Zenon DEF Raise, SkipRecord, Crash, Strike
  <2>3. CASE Next
    BY <2>1, <2>2, <2>3 DEF Next
  <2>4. CASE UNCHANGED vars
    BY <2>4 DEF vars
  <2> QED  BY <2>3, <2>4
<1> QED  BY <1>1, <1>2, PTL DEF Spec

\* The histories can be read back as one story, however many runs overlap, raise or crash:
\* although the check of the sequence and the insert are two statements (save_opportunity,
\* save_opportunity_evaluation) and a run may stop between its two saves
\* (evaluate_opportunity), no version is skipped, no evaluation is ahead of its opportunity,
\* and previous_signal_id names an evaluation that is there, of an earlier version.
THEOREM HistoryAlwaysConsistent == Spec => []HistoryConsistent
<1>1. HistoryInv => NoGaps
  <2>1. ASSUME NEW rows, Chain(rows)  PROVE Consecutive(Versions(rows))
    BY <2>1 DEF Chain, Consecutive
  <2> QED  BY <2>1 DEF HistoryInv, RowsInv, NoGaps
<1>2. HistoryInv => EvaluationsNotAhead /\ SignalsChained
  BY DEF HistoryInv, RowsInv, EvaluationsNotAhead
<1>3. HistoryInv /\ faults \in Nat => HistoryTypeOK
  <2> SUFFICES ASSUME HistoryInv, faults \in Nat  PROVE HistoryTypeOK
    OBVIOUS
  <2>1. ASSUME NEW p \in Runners  PROVE run[p].at \in Steps \cup {"idle"}
    <3>1. CASE run[p] = Idle
      BY <3>1 DEF Idle
    <3>2. CASE run[p] # Idle
      BY <3>2 DEF HistoryInv, CallsInv, CallInv
    <3> QED  BY <3>1, <3>2
  <2> QED  BY <2>1 DEF HistoryTypeOK, HistoryInv, RowsInv, CallsInv
<1>4. HistoryInv /\ faults \in Nat => HistoryConsistent
  BY <1>1, <1>2, <1>3 DEF HistoryConsistent
<1> QED  BY <1>4, HistoryAlways, FaultsCounted, PTL
-----------------------------------------------------------------------------
(* Opportunities that only one run evaluates. Its rows are then those of one   *)
(* run after another, and what the run read is still the latest when it writes. *)

\* The rows are numbered in order.
Straight(rows) == \A i \in DOMAIN rows : rows[i].version = i

\* The run has saved the opportunity o and not yet its evaluation.
Halfway(p, o) ==
    run[p] # Idle /\ This(p) = o /\ run[p].at \in {"check_evaluation", "insert_evaluation"}

\* What a run has read of an opportunity of its own is still all there is.
CallAlone(p, c, os, es) ==
    c # Idle => LET o == Side(p, First(c.todo)) IN NotShared(o) =>
        /\ c.at \in {"get_evaluation", "check_opportunity", "insert_opportunity"} =>
            c.seen = Len(os[o])
        /\ c.at \notin {"get_opportunity", "get_evaluation"} => c.base = Len(es[o])
        /\ c.at \in {"check_evaluation", "insert_evaluation"} => c.seen + 1 = Len(os[o])

\* As long as nothing failed, each opportunity has its evaluation, or will have it next.
Paired(o) ==
    \/ Len(opportunities[o]) = Len(evaluations[o]) /\ \A p \in Runners : ~Halfway(p, o)
    \/ Len(opportunities[o]) = Len(evaluations[o]) + 1 /\ \E p \in Runners : Halfway(p, o)

AloneInv ==
    /\ HistoryInv
    /\ faults \in Nat
    /\ \A o \in Opportunities : NotShared(o) =>
        /\ Straight(opportunities[o]) /\ Straight(evaluations[o])
        /\ faults = 0 => Paired(o)
    /\ \A p \in Runners : CallAlone(p, run[p], opportunities, evaluations)
    /\ VersionsAgree

LEMMA StraightRows ==
  ASSUME NEW R, NEW rows \in Seq(R), Straight(rows)
  PROVE  /\ Len(rows) \in Nat /\ Versions(rows) = 1 .. Len(rows)
         /\ LatestVersion(rows) = Len(rows)
<1>1. Len(rows) \in Nat /\ DOMAIN rows = 1 .. Len(rows)
  OBVIOUS
<1>2. Versions(rows) = 1 .. Len(rows)
  BY <1>1 DEF Versions, Straight
<1> QED  BY <1>1, <1>2, LatestOfChain

LEMMA StraightGrows ==
  ASSUME NEW R, NEW rows \in Seq(R), Straight(rows), NEW row \in R, row.version = Len(rows) + 1
  PROVE  Straight(Append(rows, row)) /\ Len(Append(rows, row)) = Len(rows) + 1
<1>1. /\ DOMAIN Append(rows, row) = DOMAIN rows \cup {Len(rows) + 1}
      /\ \A i \in DOMAIN rows : Append(rows, row)[i] = rows[i]
      /\ Append(rows, row)[Len(rows) + 1] = row
  BY AppendVersion
<1>2. Straight(Append(rows, row))
  BY <1>1 DEF Straight
<1> QED  BY <1>2

\* Only one run is ever at an opportunity that is not shared.
LEMMA OnlyOne ==
  ASSUME HistoryInv, NEW p \in Runners, NEW q \in Runners, run[p] # Idle, run[q] # Idle,
         This(p) = This(q), NotShared(This(p))
  PROVE  p = q
<1>1. Evaluates(p, This(p)) /\ Evaluates(q, This(q))
  BY CallOf, FirstSideTypes DEF Evaluates, This
<1> QED  BY <1>1 DEF NotShared

LEMMA AloneRows ==
  ASSUME AloneInv, NEW o \in Opportunities, NotShared(o)
  PROVE  /\ LatestVersion(opportunities[o]) = Len(opportunities[o])
         /\ LatestVersion(evaluations[o]) = Len(evaluations[o])
         /\ Len(opportunities[o]) \in Nat /\ Len(evaluations[o]) \in Nat
BY ChainsOf, StraightRows DEF AloneInv

\* The state of a call and the rows of one opportunity decide what is asked of it.
LEMMA RunSets ==
  ASSUME HistoryInv, NEW p \in Runners, NEW c, run' = [run EXCEPT ![p] = c]
  PROVE  run'[p] = c /\ \A q \in Runners \ {p} : run'[q] = run[q]
<1>1. run = [q \in Runners |-> run[q]]
  BY DEF HistoryInv, CallsInv
<1> QED  BY <1>1

\* A step of p that adds no row and leaves it as far with its evaluation as it was.
LEMMA AloneMoves ==
  ASSUME AloneInv, HistoryInv', NEW p \in Runners, NEW c, run' = [run EXCEPT ![p] = c],
         UNCHANGED <<opportunities, evaluations>>, CallAlone(p, c, opportunities, evaluations),
         faults' \in Nat,
         faults' = 0 => /\ faults = 0
                        /\ \A o \in Opportunities : NotShared(o) => (Halfway(p, o)' <=> Halfway(p, o))
  PROVE  AloneInv'
<1>1. run'[p] = c /\ \A q \in Runners \ {p} : run'[q] = run[q]
  BY RunSets DEF AloneInv
<1>2. \A q \in Runners : CallAlone(q, run'[q], opportunities', evaluations')
  <2>1. CallAlone(p, run'[p], opportunities', evaluations')
    BY <1>1
  <2>2. \A q \in Runners \ {p} : CallAlone(q, run'[q], opportunities', evaluations')
    BY <1>1 DEF AloneInv
  <2> QED  BY <2>1, <2>2
<1>3. ASSUME NEW o \in Opportunities, NotShared(o), faults' = 0
      PROVE  Paired(o)'
  <2>1. \A q \in Runners : Halfway(q, o)' <=> Halfway(q, o)
    <3>1. \A q \in Runners \ {p} : Halfway(q, o)' <=> Halfway(q, o)
      BY <1>1 DEF Halfway, This
    <3> QED  BY <1>3, <3>1
  <2>2. Paired(o)
    BY <1>3 DEF AloneInv
  <2> QED  BY <2>1, <2>2 DEF Paired
<1>4. VersionsAgree'
  BY DEF AloneInv, VersionsAgree
<1> QED  BY <1>2, <1>3, <1>4 DEF AloneInv

\* A run that fails, or is done with a side it had not saved, or begins.
LEMMA AloneContinues ==
  ASSUME AloneInv, HistoryInv', NEW p \in Runners, NEW todo, Continue(p, todo),
         UNCHANGED <<opportunities, evaluations>>, faults' \in Nat,
         faults' = 0 => /\ faults = 0
                        /\ \A o \in Opportunities : NotShared(o) => ~Halfway(p, o)
  PROVE  AloneInv'
<1>1. PICK c : c = IF todo = {} THEN Idle ELSE Evaluating(todo)
  OBVIOUS
<1>2. run' = [run EXCEPT ![p] = c]
  BY <1>1 DEF Continue
<1>3. CallAlone(p, c, opportunities, evaluations)
  BY <1>1 DEF CallAlone, Evaluating
<1>4. \A o : ~Halfway(p, o)'
  <2>1. run'[p] = c
    BY <1>2, RunSets DEF AloneInv
  <2> QED  BY <1>1, <2>1 DEF Halfway, Evaluating
<1> QED  BY <1>2, <1>3, <1>4, AloneMoves

LEMMA AloneFails ==
  ASSUME AloneInv, HistoryInv', NEW p \in Runners, Raise(p) \/ SkipRecord(p) \/ Crash(p)
  PROVE  AloneInv'
<1>1. faults' \in Nat /\ faults' # 0 /\ UNCHANGED <<opportunities, evaluations>>
  BY DEF AloneInv, Raise, SkipRecord, Crash, Strike
<1>2. CASE Crash(p)
  <2>1. CallAlone(p, Idle, opportunities, evaluations)
    BY DEF CallAlone
  <2> QED  BY <1>1, <1>2, <2>1, AloneMoves DEF Crash
<1>3. CASE Raise(p) \/ SkipRecord(p)
  <2>1. PICK todo : Continue(p, todo)
    BY <1>3 DEF Raise, SkipRecord, NextSide
  <2> QED  BY <1>1, <2>1, AloneContinues
<1> QED  BY <1>2, <1>3

LEMMA AloneBegins ==
  ASSUME AloneInv, HistoryInv', NEW p \in Runners, Begin(p)
  PROVE  AloneInv'
<1>1. \A o : ~Halfway(p, o)
  BY DEF Begin, Halfway
<1>2. PICK todo : Continue(p, todo)
  BY DEF Begin
<1> QED  BY <1>1, <1>2, AloneContinues DEF Begin, AloneInv

LEMMA AloneReads ==
  ASSUME AloneInv, HistoryInv', NEW p \in Runners,
         GetLatestOpportunity(p) \/ GetLatestEvaluation(p)
  PROVE  AloneInv'
<1>0. /\ HistoryInv /\ run[p] # Idle /\ This(p) \in Opportunities
      /\ UNCHANGED <<opportunities, evaluations, faults>>
      /\ run[p].at \in {"get_opportunity", "get_evaluation"}
  BY CallOf DEF AloneInv, GetLatestOpportunity, GetLatestEvaluation, At
<1>1. CallAlone(p, run[p], opportunities, evaluations)
  BY DEF AloneInv
<1> DEFINE Moves(at, seen, base) ==
             /\ run' = [run EXCEPT ![p] = [at |-> at, todo |-> run[p].todo, seen |-> seen, base |-> base]]
             /\ at = "get_evaluation" => seen = LatestVersion(opportunities[This(p)])
             /\ at = "check_opportunity" => /\ seen = run[p].seen /\ run[p].at = "get_evaluation"
                                            /\ base = LatestVersion(evaluations[This(p)])
<1>a. PICK at \in {"get_evaluation", "check_opportunity"} : \E seen, base : Moves(at, seen, base)
  <2>1. CASE GetLatestOpportunity(p)
    BY <1>0, <2>1, GetLatestOpportunitySets
  <2>2. CASE GetLatestEvaluation(p)
    BY <1>0, <2>2, GetLatestEvaluationSets DEF GetLatestEvaluation, At
  <2> QED  BY <2>1, <2>2
<1>2. PICK seen, base : Moves(at, seen, base)
  BY <1>a
<1>3. PICK c : c = [at |-> at, todo |-> run[p].todo, seen |-> seen, base |-> base]
  OBVIOUS
<1>4. CallAlone(p, c, opportunities, evaluations)
  BY <1>0, <1>1, <1>2, <1>3, AloneRows DEF CallAlone, This
<1>5. \A o : ~Halfway(p, o) /\ ~Halfway(p, o)'
  <2>1. run'[p] = c
    BY <1>0, <1>2, <1>3, RunSets
  <2> QED  BY <1>0, <1>3, <2>1 DEF Halfway
<1>6. run' = [run EXCEPT ![p] = c]
  BY <1>2, <1>3
<1> QED  BY <1>0, <1>4, <1>5, <1>6, AloneMoves DEF AloneInv

\* A run that goes on with the same side, having changed nothing but where it is.
LEMMA AloneGoes ==
  ASSUME AloneInv, HistoryInv', NEW p \in Runners, NEW from, NEW step, At(p, from), Goto(p, step),
         UNCHANGED <<opportunities, evaluations, faults>>,
         <<from, step>> \in {<<"check_opportunity", "insert_opportunity">>,
                             <<"check_evaluation", "insert_evaluation">>}
  PROVE  AloneInv'
<1>1. PICK c : c = [at |-> step, todo |-> run[p].todo, seen |-> run[p].seen, base |-> run[p].base]
  OBVIOUS
<1>2. run' = [run EXCEPT ![p] = c] /\ HistoryInv
  BY <1>1, GotoSets DEF At, AloneInv
<1>3. CallAlone(p, run[p], opportunities, evaluations)
  BY DEF AloneInv
<1>4. CallAlone(p, c, opportunities, evaluations)
  <2>1. CASE from = "check_opportunity" /\ step = "insert_opportunity"
    <3>1. ASSUME NotShared(Side(p, First(run[p].todo)))
          PROVE  CallAlone(p, c, opportunities, evaluations)
      <4>1. LET o == Side(p, First(run[p].todo)) IN
                run[p].seen = Len(opportunities[o]) /\ run[p].base = Len(evaluations[o])
        BY <1>3, <2>1, <3>1 DEF CallAlone, At
      <4> QED  BY <1>1, <2>1, <4>1 DEF CallAlone
    <3> QED  BY <1>1, <3>1 DEF CallAlone
  <2>2. CASE from = "check_evaluation" /\ step = "insert_evaluation"
    <3>1. ASSUME NotShared(Side(p, First(run[p].todo)))
          PROVE  CallAlone(p, c, opportunities, evaluations)
      <4>1. LET o == Side(p, First(run[p].todo)) IN
                run[p].seen + 1 = Len(opportunities[o]) /\ run[p].base = Len(evaluations[o])
        BY <1>3, <2>2, <3>1 DEF CallAlone, At
      <4> QED  BY <1>1, <2>2, <4>1 DEF CallAlone
    <3> QED  BY <1>1, <3>1 DEF CallAlone
  <2> QED  BY <2>1, <2>2
<1>5. \A o : Halfway(p, o)' <=> Halfway(p, o)
  <2>1. run'[p] = c /\ run[p].at = from /\ run[p] # Idle /\ c # Idle
    BY <1>1, <1>2, RunSets DEF At, Idle
  <2> QED  BY <1>1, <2>1 DEF Halfway, This
<1> QED  BY <1>2, <1>4, <1>5, AloneMoves DEF AloneInv

LEMMA AloneChecks ==
  ASSUME AloneInv, HistoryInv', NEW p \in Runners, CheckOpportunity(p) \/ CheckEvaluation(p)
  PROVE  AloneInv'
<1>0. /\ HistoryInv /\ run[p] # Idle /\ This(p) \in Opportunities
      /\ UNCHANGED <<opportunities, evaluations, faults>>
  BY CallOf DEF AloneInv, CheckOpportunity, CheckEvaluation, At
<1>1. CASE CheckOpportunity(p) /\ Goto(p, "insert_opportunity")
  BY <1>0, <1>1, AloneGoes DEF CheckOpportunity
<1>2. CASE CheckEvaluation(p) /\ Goto(p, "insert_evaluation")
  BY <1>0, <1>2, AloneGoes DEF CheckEvaluation
<1>3. CASE CheckOpportunity(p) /\ NextSide(p)
  <2>1. \A o : ~Halfway(p, o)
    BY <1>3 DEF CheckOpportunity, At, Halfway
  <2> QED  BY <1>0, <1>3, <2>1, AloneContinues DEF NextSide, AloneInv
\* An evaluation is refused only if another run has saved one.
<1>4. CASE CheckEvaluation(p) /\ ~Goto(p, "insert_evaluation") /\ NextSide(p)
  <2>1. LatestVersion(evaluations[This(p)]) # run[p].base /\ run[p].at = "check_evaluation"
    BY <1>4 DEF CheckEvaluation, At
  <2>2. ~NotShared(This(p))
    <3>1. CallAlone(p, run[p], opportunities, evaluations)
      BY DEF AloneInv
    <3>2. NotShared(This(p)) => run[p].base = Len(evaluations[This(p)])
      BY <1>0, <2>1, <3>1 DEF CallAlone, This
    <3> QED  BY <1>0, <2>1, <3>2, AloneRows
  <2>3. \A o \in Opportunities : NotShared(o) => ~Halfway(p, o)
    BY <2>2 DEF Halfway
  <2> QED  BY <1>0, <1>4, <2>3, AloneContinues DEF NextSide, AloneInv
<1> QED  BY <1>1, <1>2, <1>3, <1>4 DEF CheckOpportunity, CheckEvaluation

\* What another run knows does not depend on the rows of this one's opportunity.
LEMMA OthersAlone ==
  ASSUME HistoryInv, NEW p \in Runners, run[p] # Idle, NEW q \in Runners \ {p},
         CallAlone(q, run[q], opportunities, evaluations), NEW os, NEW es,
         \A o \in Opportunities \ {This(p)} : os[o] = opportunities[o] /\ es[o] = evaluations[o]
  PROVE  CallAlone(q, run[q], os, es)
<1>1. SUFFICES ASSUME run[q] # Idle, NotShared(This(q))
               PROVE  CallAlone(q, run[q], os, es)
  BY DEF CallAlone, This
<1>2. This(q) \in Opportunities /\ This(q) # This(p)
  BY <1>1, CallOf, OnlyOne
<1>3. os[This(q)] = opportunities[This(q)] /\ es[This(q)] = evaluations[This(q)]
  BY <1>2
<1> QED  BY <1>1, <1>3 DEF CallAlone, This

LEMMA AloneInsertsOpportunity ==
  ASSUME AloneInv, HistoryInv', NEW p \in Runners, InsertOpportunity(p)
  PROVE  AloneInv'
<1> DEFINE o == This(p)
           old == opportunities[o]
           row == NewOpportunity(p)
<1>0. /\ HistoryInv /\ run[p] # Idle /\ o \in Opportunities /\ run[p].at = "insert_opportunity"
      /\ UNCHANGED <<evaluations, faults>>
  BY CallOf DEF AloneInv, InsertOpportunity, At
<1>1. PICK c : c = [at |-> "check_evaluation", todo |-> run[p].todo,
                    seen |-> run[p].seen, base |-> run[p].base]
  OBVIOUS
<1>2. run' = [run EXCEPT ![p] = c]
  BY <1>0, <1>1, GotoSets DEF InsertOpportunity
<1>3. run'[p] = c /\ \A q \in Runners \ {p} : run'[q] = run[q]
  BY <1>0, <1>2, RunSets
<1>4. /\ opportunities'[o] = Append(old, row)
      /\ \A other \in Opportunities \ {o} : opportunities'[other] = opportunities[other]
  BY <1>0 DEF InsertOpportunity, HistoryInv, RowsInv
<1>5. row \in OpportunityRow /\ row.version = run[p].seen + 1
  <2>1. run[p].seen \in Nat /\ run[p].base \in Nat
    <3>1. run[p].seen \in Known(old) /\ run[p].base \in Known(evaluations[o])
      BY <1>0, CallOf DEF CallInv, This
    <3> QED  BY <1>0, <3>1, ChainsOf, KnownIsNat
  <2> QED  BY <2>1 DEF NewOpportunity, OpportunityRow
<1>6. ASSUME NotShared(o)
      PROVE  /\ Straight(opportunities'[o]) /\ Len(opportunities'[o]) = Len(old) + 1
             /\ run[p].seen = Len(old) /\ run[p].base = Len(evaluations[o])
  <2>1. run[p].seen = Len(old) /\ run[p].base = Len(evaluations[o])
    <3>1. CallAlone(p, run[p], opportunities, evaluations)
      BY DEF AloneInv
    <3> QED  BY <1>0, <1>6, <3>1 DEF CallAlone, This
  <2>2. old \in Seq(OpportunityRow) /\ Straight(old)
    BY <1>0, <1>6, ChainsOf DEF AloneInv
  <2> QED  BY <1>4, <1>5, <2>1, <2>2, StraightGrows
<1>7. \A q \in Runners : CallAlone(q, run'[q], opportunities', evaluations')
  <2>1. CallAlone(p, c, opportunities', evaluations')
    BY <1>0, <1>1, <1>6 DEF CallAlone, This
  <2>2. \A q \in Runners \ {p} : CallAlone(q, run[q], opportunities', evaluations')
    BY <1>0, <1>4, OthersAlone DEF AloneInv
  <2> QED  BY <1>3, <2>1, <2>2
<1>8. ASSUME NEW other \in Opportunities, NotShared(other)
      PROVE  /\ Straight(opportunities'[other]) /\ Straight(evaluations'[other])
             /\ faults' = 0 => Paired(other)'
  <2>1. CASE other = o
    <3>1. \A q \in Runners : ~Halfway(q, o)
      <4>1. ASSUME NEW q \in Runners, Halfway(q, o)  PROVE q = p
        BY <1>0, <1>8, <2>1, <4>1, OnlyOne DEF Halfway
      <4>2. ~Halfway(p, o)
        BY <1>0 DEF Halfway
      <4> QED  BY <4>1, <4>2
    <3>2. faults = 0 => Len(old) = Len(evaluations[o])
      BY <1>8, <2>1, <3>1 DEF AloneInv, Paired
    <3>3. Halfway(p, o)'
      BY <1>1, <1>3 DEF Halfway, This, Idle
    <3>4. faults' = 0 => Paired(other)'
      <4>1. SUFFICES ASSUME faults' = 0  PROVE Paired(other)'
        OBVIOUS
      <4>2. Len(opportunities'[o]) = Len(evaluations'[o]) + 1
        BY <1>0, <1>6, <1>8, <2>1, <3>2, <4>1
      <4>3. \E q \in Runners : Halfway(q, o)'
        BY <3>3
      <4> QED  BY <1>1, <1>3, <2>1, <4>2, <4>3 DEF Paired, Halfway, This
    <3> QED  BY <1>0, <1>6, <1>8, <2>1, <3>4 DEF AloneInv
  <2>2. CASE other # o
    <3>1. /\ opportunities'[other] = opportunities[other] /\ evaluations'[other] = evaluations[other]
          /\ \A q \in Runners : Halfway(q, other)' <=> Halfway(q, other)
      BY <1>0, <1>1, <1>3, <1>4, <2>2 DEF Halfway, This
    <3> QED  BY <1>0, <1>8, <3>1 DEF AloneInv, Paired
  <2> QED  BY <2>1, <2>2
<1>9. VersionsAgree'
  BY <1>0 DEF AloneInv, VersionsAgree
<1> QED  BY <1>0, <1>7, <1>8, <1>9 DEF AloneInv

LEMMA AloneInsertsEvaluation ==
  ASSUME AloneInv, HistoryInv', NEW p \in Runners, InsertEvaluation(p)
  PROVE  AloneInv'
<1>0. /\ HistoryInv /\ run[p] # Idle /\ run[p].at = "insert_evaluation"
      /\ UNCHANGED <<opportunities, faults>>
  BY DEF AloneInv, InsertEvaluation, At
<1>1. PICK o : o = This(p)
  OBVIOUS
<1>2. o \in Opportunities /\ opportunities[o] \in Seq(OpportunityRow) /\ evaluations[o] \in Seq(EvaluationRow)
  BY <1>0, <1>1, CallOf, ChainsOf
<1>3. PICK old : old = evaluations[o]
  OBVIOUS
<1>4. PICK row : row = NewEvaluation(p)
  OBVIOUS
<1>5. PICK todo : Continue(p, todo)
  BY DEF InsertEvaluation, NextSide
<1>6. PICK c : c = IF todo = {} THEN Idle ELSE Evaluating(todo)
  OBVIOUS
<1>7. run'[p] = c /\ \A q \in Runners \ {p} : run'[q] = run[q]
  BY <1>0, <1>5, <1>6, RunSets DEF Continue
<1>8. /\ evaluations'[o] = Append(old, row)
      /\ \A other \in Opportunities \ {o} : evaluations'[other] = evaluations[other]
  BY <1>0, <1>1, <1>2, <1>3, <1>4 DEF InsertEvaluation, HistoryInv, RowsInv
<1>9. row \in EvaluationRow /\ row.version = run[p].base + 1 /\ row.of = run[p].seen + 1
  <2>1. run[p].seen \in Nat /\ run[p].base \in Nat
    <3>1. run[p].seen \in Known(opportunities[o]) /\ run[p].base \in Known(evaluations[o])
      BY <1>0, <1>1, CallOf DEF CallInv, This
    <3> QED  BY <1>0, <1>2, <3>1, ChainsOf, KnownIsNat
  <2> QED  BY <1>4, <2>1 DEF NewEvaluation, EvaluationRow
<1>10. ASSUME NotShared(o)
       PROVE  /\ Straight(evaluations'[o]) /\ Len(evaluations'[o]) = Len(old) + 1
              /\ run[p].seen + 1 = Len(opportunities[o]) /\ run[p].base = Len(old)
  <2>1. run[p].seen + 1 = Len(opportunities[o]) /\ run[p].base = Len(old)
    <3>1. CallAlone(p, run[p], opportunities, evaluations)
      BY DEF AloneInv
    <3> QED  BY <1>0, <1>1, <1>3, <1>10, <3>1 DEF CallAlone, This
  <2>2. old \in Seq(EvaluationRow) /\ Straight(old)
    BY <1>2, <1>3, <1>10 DEF AloneInv
  <2> QED  BY <1>8, <1>9, <2>1, <2>2, StraightGrows
\* It was the run itself that was halfway.
<1>11. ASSUME NotShared(o), faults = 0
       PROVE  Len(opportunities[o]) = Len(old) + 1
  <2>1. Halfway(p, o)
    BY <1>0, <1>1 DEF Halfway
  <2> QED  BY <1>2, <1>3, <1>11, <2>1 DEF AloneInv, Paired
<1>12. \A q \in Runners : CallAlone(q, run'[q], opportunities', evaluations')
  <2>1. CallAlone(p, c, opportunities', evaluations')
    BY <1>6 DEF CallAlone, Evaluating
  <2>2. \A q \in Runners \ {p} : CallAlone(q, run[q], opportunities', evaluations')
    BY <1>0, <1>1, <1>8, OthersAlone DEF AloneInv
  <2> QED  BY <1>7, <2>1, <2>2
<1>13. \A any : ~Halfway(p, any)'
  BY <1>6, <1>7 DEF Halfway, Evaluating
<1>14. ASSUME NEW other \in Opportunities, NotShared(other)
       PROVE  /\ Straight(opportunities'[other]) /\ Straight(evaluations'[other])
              /\ faults' = 0 => Paired(other)'
  <2>1. CASE other = o
    <3>1. ASSUME NEW q \in Runners, q # p  PROVE ~Halfway(q, o)'
      <4>1. ~Halfway(q, o)
        BY <1>0, <1>1, <1>14, <2>1, <3>1, OnlyOne DEF Halfway
      <4> QED  BY <1>7, <3>1, <4>1 DEF Halfway, This
    <3>2. \A q \in Runners : ~Halfway(q, o)'
      BY <1>13, <3>1
    <3>3. faults' = 0 => Len(opportunities'[o]) = Len(evaluations'[o])
      BY <1>0, <1>10, <1>11, <1>14, <2>1
    <3> QED  BY <1>0, <1>10, <1>14, <2>1, <3>2, <3>3 DEF AloneInv, Paired
  <2>2. CASE other # o
    <3>1. /\ opportunities'[other] = opportunities[other] /\ evaluations'[other] = evaluations[other]
          /\ ~Halfway(p, other)
          /\ \A q \in Runners \ {p} : Halfway(q, other)' <=> Halfway(q, other)
      BY <1>0, <1>1, <1>7, <1>8, <2>2 DEF Halfway, This
    <3>2. \A q \in Runners : Halfway(q, other)' <=> Halfway(q, other)
      BY <1>13, <3>1
    <3> QED  BY <1>0, <1>14, <3>1, <3>2 DEF AloneInv, Paired
  <2> QED  BY <2>1, <2>2
<1>15. VersionsAgree'
  <2>1. SUFFICES ASSUME faults = 0, NEW other \in Opportunities, NotShared(other),
                        NEW i \in DOMAIN evaluations'[other]
                 PROVE  evaluations'[other][i].version = evaluations'[other][i].of
    BY <1>0 DEF VersionsAgree
  <2>2. CASE other # o
    BY <1>8, <2>1, <2>2 DEF AloneInv, VersionsAgree
  <2>3. CASE other = o /\ i \in DOMAIN old
    <3>1. evaluations'[o][i] = old[i]
      BY <1>2, <1>3, <1>8, <1>9, <2>3, AppendVersion
    <3> QED  BY <1>3, <2>1, <2>3, <3>1 DEF AloneInv, VersionsAgree
  <2>4. CASE other = o /\ i \notin DOMAIN old
    <3>1. evaluations'[o][i] = row
      BY <1>2, <1>3, <1>8, <1>9, <2>1, <2>4, AppendVersion
    <3>2. row.version = row.of
      BY <1>9, <1>10, <1>11, <2>1, <2>4
    <3> QED  BY <2>4, <3>1, <3>2
  <2> QED  BY <2>2, <2>3, <2>4
<1> QED  BY <1>0, <1>12, <1>14, <1>15 DEF AloneInv

LEMMA AloneStarts == Init => AloneInv
<1> SUFFICES ASSUME Init  PROVE AloneInv
  OBVIOUS
<1>1. \A o \in Opportunities : opportunities[o] = <<>> /\ evaluations[o] = <<>>
  BY DEF Init
<1>2. \A p \in Runners : run[p] = Idle
  BY DEF Init
<1>3. Straight(<<>>) /\ Len(<<>>) = 0
  BY DEF Straight
<1>4. \A o \in Opportunities : Paired(o)
  BY <1>1, <1>2, <1>3 DEF Paired, Halfway
<1>5. \A p \in Runners : CallAlone(p, run[p], opportunities, evaluations)
  BY <1>2 DEF CallAlone
<1>6. VersionsAgree
  BY <1>1 DEF VersionsAgree
<1> QED  BY <1>1, <1>3, <1>4, <1>5, <1>6, HistoryStarts DEF AloneInv, Init

LEMMA AloneAlways == Spec => []AloneInv
<1>1. AloneInv /\ [Next]_vars => AloneInv'
  <2> SUFFICES ASSUME AloneInv, [Next]_vars  PROVE AloneInv'
    OBVIOUS
  <2>0. HistoryInv'
    BY HistoryGoesOn DEF AloneInv
  <2>1. CASE UNCHANGED vars
    <3>1. \A q, o : Halfway(q, o)' <=> Halfway(q, o)
      BY <2>1 DEF vars, Halfway, This
    <3> QED  BY <2>0, <2>1, <3>1 DEF vars, AloneInv, Paired, VersionsAgree
  <2>2. ASSUME NEW p \in Runners, Evaluate(p)  PROVE AloneInv'
    BY <2>0, <2>2, AloneReads, AloneChecks, AloneInsertsOpportunity, AloneInsertsEvaluation DEF Evaluate
  <2>3. ASSUME NEW p \in Runners, Begin(p) \/ Raise(p) \/ SkipRecord(p) \/ Crash(p)  PROVE AloneInv'
    BY <2>0, <2>3, AloneBegins, AloneFails
  <2> QED  BY <2>1, <2>2, <2>3 DEF Next
<1> QED  BY <1>1, AloneStarts, PTL DEF Spec

\* Where a single run evaluates a record no version is saved twice, whatever fails between
\* the check of the sequence and the insert, and between one save and the other
\* (save_opportunity, save_opportunity_evaluation).
THEOREM AlwaysUniqueUnlessShared == Spec => []UniqueUnlessShared
<1>1. ASSUME AloneInv
      PROVE  UniqueUnlessShared
  <2>1. SUFFICES ASSUME NEW o \in Opportunities, NotShared(o)
                 PROVE  /\ Cardinality(Versions(opportunities[o])) = Len(opportunities[o])
                        /\ Cardinality(Versions(evaluations[o])) = Len(evaluations[o])
    BY DEF UniqueUnlessShared
  <2>2. ASSUME NEW k \in Nat  PROVE Cardinality(1 .. k) = k
    BY <2>2, FS_Interval
  <2>3. /\ Versions(opportunities[o]) = 1 .. Len(opportunities[o]) /\ Len(opportunities[o]) \in Nat
        /\ Versions(evaluations[o]) = 1 .. Len(evaluations[o]) /\ Len(evaluations[o]) \in Nat
    BY <1>1, <2>1, ChainsOf, StraightRows DEF AloneInv
  <2> QED  BY <2>2, <2>3
<1> QED  BY <1>1, AloneAlways, PTL

\* There, and as long as nothing failed, an evaluation has the state_version of its
\* opportunity, as CONTRACTS_FASE3.md says (evaluate_opportunity).
THEOREM VersionsAlwaysAgree == Spec => []VersionsAgree
<1>1. AloneInv => VersionsAgree
  BY DEF AloneInv
<1> QED  BY <1>1, AloneAlways, PTL
=============================================================================
