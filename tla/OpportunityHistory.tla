------------------------- MODULE OpportunityHistory -------------------------
(* The history of opportunities and of their evaluations, as the decision     *)
(* pipeline (src/orchestration/decision_pipeline.py) writes it through         *)
(* OpportunityRepository (src/opportunity/opportunity_repository.py).          *)
(*                                                                             *)
(* The hourly job and the requests of the analysis service run the pipeline    *)
(* each in a process or thread of its own, on one database. The connection     *)
(* begins a transaction only at its first write, so that each SELECT and each  *)
(* INSERT of a run is a step of its own; what a run decides (signals, payoff,  *)
(* evidence, policy) is computed before the first of them.                     *)
EXTENDS Naturals, Sequences, FiniteSets

CONSTANTS
    Runners,        \* the job and the requests that run the pipeline
    Records,        \* the normalized records in play, all with a market
    BatchOf,        \* the records each runner goes through, in order
    MaxVersions,    \* no run takes up an opportunity that has this many rows
    MaxFaults       \* how many runs may crash, or raise, between two steps

ASSUME HistoryAssumption ==
    /\ BatchOf \in [Runners -> Seq(Records)]
    /\ \A p \in Runners : BatchOf[p] # <<>>
    /\ MaxVersions \in Nat /\ MaxFaults \in Nat

\* An opportunity id is computed from the record and the side.
Opportunities == Records \X {"YES", "NO"}

VARIABLES
    opportunities,  \* the rows of each opportunity, in the order of insertion
    evaluations,    \* the rows of its evaluations, likewise
    run,            \* what each runner is doing
    faults          \* crashes and exceptions so far

vars == <<opportunities, evaluations, run, faults>>

\* 0 stands for None. An evaluation id is eval:<opportunity>:<version>, hence
\* given by the version; of is the version of the opportunity its run saved.
OpportunityRow == [version : Nat, previous_signal_id : Nat]
EvaluationRow == [version : Nat, of : Nat]

Steps == {"get_opportunity", "get_evaluation", "check_opportunity", "insert_opportunity",
          "check_evaluation", "insert_evaluation"}
Idle == [at |-> "idle"]

HistoryTypeOK ==
    /\ opportunities \in [Opportunities -> Seq(OpportunityRow)]
    /\ evaluations \in [Opportunities -> Seq(EvaluationRow)]
    /\ DOMAIN run = Runners
    /\ \A p \in Runners : run[p].at \in Steps \cup {"idle"}
    /\ faults \in Nat

Init ==
    /\ opportunities = [o \in Opportunities |-> <<>>]
    /\ evaluations = [o \in Opportunities |-> <<>>]
    /\ run = [p \in Runners |-> Idle]
    /\ faults = 0

Versions(rows) == {rows[i].version : i \in DOMAIN rows}

\* ORDER BY state_version DESC LIMIT 1, or 0 if there is no row.
LatestVersion(rows) ==
    CHOOSE v \in Versions(rows) \cup {0} : \A w \in Versions(rows) : w <= v

At(p, step) == run[p] # Idle /\ run[p].at = step

\* Both sides of each record, one record after the other. What a run still has to
\* do is a set of places in its batch; the bound of the model leaves out those
\* whose opportunity has MaxVersions rows.
Sides(p) == 1 .. 2 * Len(BatchOf[p])
Side(p, i) == <<BatchOf[p][(i + 1) \div 2], IF i % 2 = 1 THEN "YES" ELSE "NO">>
Batch(p) == {i \in Sides(p) : Len(opportunities[Side(p, i)]) < MaxVersions}

First(places) == CHOOSE i \in places : \A j \in places : i <= j
This(p) == Side(p, First(run[p].todo))

Evaluating(todo) == [at |-> "get_opportunity", todo |-> todo, seen |-> 0, base |-> 0]

\* The run goes on with the next side, whatever became of this one.
Continue(p, todo) ==
    run' = [run EXCEPT ![p] = IF todo = {} THEN Idle ELSE Evaluating(todo)]
NextSide(p) == Continue(p, run[p].todo \ {First(run[p].todo)})

Goto(p, step) == run' = [run EXCEPT ![p].at = step]
-----------------------------------------------------------------------------
(* run_decision_pipeline and evaluate_opportunity *)

Begin(p) ==
    /\ run[p] = Idle
    /\ Batch(p) # {}
    /\ Continue(p, Batch(p))
    /\ UNCHANGED <<opportunities, evaluations, faults>>

GetLatestOpportunity(p) ==
    /\ At(p, "get_opportunity")
    /\ run' = [run EXCEPT ![p].at = "get_evaluation",
                          ![p].seen = LatestVersion(opportunities[This(p)])]
    /\ UNCHANGED <<opportunities, evaluations, faults>>

GetLatestEvaluation(p) ==
    /\ At(p, "get_evaluation")
    /\ run' = [run EXCEPT ![p].at = "check_opportunity",
                          ![p].base = LatestVersion(evaluations[This(p)])]
    /\ UNCHANGED <<opportunities, evaluations, faults>>

\* Bug variant: previous_signal_id is not looked at.
Admissible_AnySignal(p) == LatestVersion(opportunities[This(p)]) = run[p].seen

\* Each is numbered after the latest of its own kind.
NewOpportunity(p) == [version |-> run[p].seen + 1, previous_signal_id |-> run[p].base]
\* Bug variant: the version is not incremented.
NewEvaluation_OldVersion(p) == [version |-> run[p].base, of |-> run[p].seen + 1]
NewEvaluation(p) == [version |-> run[p].base + 1, of |-> run[p].seen + 1]

\* save_opportunity takes only the version after the latest, and wants the
\* evaluation it follows from named in every version but the first.
Admissible(p) ==
    /\ LatestVersion(opportunities[This(p)]) = run[p].seen
    /\ (run[p].seen = 0) = (run[p].base = 0)

CheckOpportunity(p) ==
    /\ At(p, "check_opportunity")
    /\ IF Admissible(p) THEN Goto(p, "insert_opportunity") ELSE NextSide(p)
    /\ UNCHANGED <<opportunities, evaluations, faults>>

InsertOpportunity(p) ==
    /\ At(p, "insert_opportunity")
    /\ opportunities' = [opportunities EXCEPT ![This(p)] =
        Append(@, NewOpportunity(p))]
    /\ Goto(p, "check_evaluation")
    /\ UNCHANGED <<evaluations, faults>>

\* Bug variant: an evaluation must have one before it.
CheckEvaluation_NeverFirst(p) ==
    /\ At(p, "check_evaluation")
    /\ IF run[p].base > 0 /\ LatestVersion(evaluations[This(p)]) = run[p].base
       THEN Goto(p, "insert_evaluation") ELSE NextSide(p)
    /\ UNCHANGED <<opportunities, evaluations, faults>>

CheckEvaluation(p) ==
    /\ At(p, "check_evaluation")
    /\ IF LatestVersion(evaluations[This(p)]) = run[p].base
       THEN Goto(p, "insert_evaluation") ELSE NextSide(p)
    /\ UNCHANGED <<opportunities, evaluations, faults>>

InsertEvaluation(p) ==
    /\ At(p, "insert_evaluation")
    /\ evaluations' = [evaluations EXCEPT ![This(p)] =
        Append(@, NewEvaluation(p))]
    /\ NextSide(p)
    /\ UNCHANGED <<opportunities, faults>>
-----------------------------------------------------------------------------
(* Faults *)

Strike == faults < MaxFaults /\ faults' = faults + 1

\* Bug variant: what failed after the opportunity was saved is tried again from there.
Raise_Retries(p) ==
    /\ run[p] # Idle
    /\ IF run[p].at = "check_evaluation" THEN Goto(p, "insert_opportunity") ELSE NextSide(p)
    /\ Strike
    /\ UNCHANGED <<opportunities, evaluations>>

\* An exception, such as a locked database, ends the evaluation of one side.
Raise(p) ==
    /\ run[p] # Idle
    /\ NextSide(p)
    /\ Strike
    /\ UNCHANGED <<opportunities, evaluations>>

\* The context of a record fails: neither of its sides is evaluated.
SkipRecord(p) ==
    /\ At(p, "get_opportunity") /\ This(p)[2] = "YES"
    /\ LET i == First(run[p].todo) IN Continue(p, run[p].todo \ {i, i + 1})
    /\ Strike
    /\ UNCHANGED <<opportunities, evaluations>>

Crash(p) ==
    /\ run[p] # Idle
    /\ run' = [run EXCEPT ![p] = Idle]
    /\ Strike
    /\ UNCHANGED <<opportunities, evaluations>>

Evaluate(p) ==
    \/ GetLatestOpportunity(p) \/ GetLatestEvaluation(p)
    \/ CheckOpportunity(p) \/ InsertOpportunity(p)
    \/ CheckEvaluation(p) \/ InsertEvaluation(p)

Next == \E p \in Runners :
    Begin(p) \/ Evaluate(p) \/ Raise(p) \/ SkipRecord(p) \/ Crash(p)

Spec == Init /\ [][Next]_vars

\* The job is scheduled again every hour, and a run that does not die goes on.
FairSpec == Spec /\ \A p \in Runners : WF_vars(Begin(p) \/ Evaluate(p))
-----------------------------------------------------------------------------
(* Properties *)

\* However runs overlap and fail, no version is skipped: save_opportunity and
\* save_opportunity_evaluation promise it although they check before they insert.
Consecutive(versions) == \A v \in versions : v = 1 \/ v - 1 \in versions
NoGaps == \A o \in Opportunities :
    Consecutive(Versions(opportunities[o])) /\ Consecutive(Versions(evaluations[o]))

\* An evaluation never has a version that its opportunity did not reach: a lost
\* step of evaluate_opportunity can only leave the evaluations behind.
EvaluationsNotAhead == \A o \in Opportunities :
    Versions(evaluations[o]) \subseteq Versions(opportunities[o])

\* previous_signal_id names an evaluation that is there and that an earlier
\* version can have had; it is None in the first version, and only there.
SignalsChained == \A o \in Opportunities : \A i \in DOMAIN opportunities[o] :
    LET row == opportunities[o][i] IN
        IF row.version = 1 THEN row.previous_signal_id = 0
        ELSE /\ row.previous_signal_id \in Versions(evaluations[o])
             /\ row.previous_signal_id < row.version

\* No other run evaluates the record.
Evaluates(p, o) == \E i \in Sides(p) : Side(p, i) = o
NotShared(o) == \A p, q \in Runners : Evaluates(p, o) /\ Evaluates(q, o) => p = q

\* Where a single run evaluates a record, no version is saved twice, whatever
\* fails: the sequence checks are enough against what a run left behind.
UniqueUnlessShared == \A o \in Opportunities : NotShared(o) =>
    /\ Cardinality(Versions(opportunities[o])) = Len(opportunities[o])
    /\ Cardinality(Versions(evaluations[o])) = Len(evaluations[o])

\* CONTRACTS_FASE3.md, section 13: the state_version of an evaluation is that of
\* its opportunity at the time. Here it is as long as no run has failed and no
\* other evaluates the same record.
VersionsAgree == faults = 0 => \A o \in Opportunities : NotShared(o) =>
    \A i \in DOMAIN evaluations[o] : evaluations[o][i].version = evaluations[o][i].of

\* Every opportunity saved is evaluated in the end, as long as no run has failed.
EvaluatedUnlessFailed == \A o \in Opportunities :
    (opportunities[o] # <<>>) ~> (evaluations[o] # <<>> \/ faults > 0)

\* The histories can be read back as one story, however many runs overlap, raise or crash:
\* no version is skipped, no evaluation is ahead of its opportunity, and every chain of
\* signals leads to evaluations that are there (save_opportunity,
\* save_opportunity_evaluation).
HistoryConsistent == HistoryTypeOK /\ NoGaps /\ EvaluationsNotAhead /\ SignalsChained
=============================================================================
