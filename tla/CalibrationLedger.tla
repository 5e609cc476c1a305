-------------------------- MODULE CalibrationLedger --------------------------
(* The governance ledger of the tennis calibrator                              *)
(* (src/evaluation/calibration_governance.py) and the verdicts it records      *)
(* (src/evaluation/calibration_verdict.py).                                    *)
(*                                                                             *)
(* Processes register entries and evaluate attempts. Each reads and verifies   *)
(* the ledger when it begins; each append locks the file, verifies it again    *)
(* and writes one line, but does not look again at what the call had checked.  *)
(* A process killed while it writes leaves a torn line, and from then on       *)
(* nobody can read the ledger. The hash chain is taken as collision free: a    *)
(* line that was written whole is there as it was written. The anchor in Git   *)
(* is outside this module.                                                     *)
EXTENDS Integers, Sequences, FiniteSets

CONSTANTS
    Procs,              \* processes that run the script or the library
    Preregs, Attempts,  \* ids in play
    Manifests,          \* the snapshot manifests in the repository
    Metrics,            \* what a partition may be measured to
    Time,               \* values of recorded_at
    MinNewValidation, MinNewTotal,      \* MIN_NEW_VALIDATION_EVENTS, ..._TOTAL_...
    MaxUpsets           \* how often a process may be killed, or a call begin while another one runs

\* Deltas are -1 below -tau, 1 above tau and 0 between; enough means n >= n_min
\* and a training that was completed.
AllMetrics == [valid : BOOLEAN, enough : BOOLEAN, ece : -1 .. 1, brier : -1 .. 1]

ASSUME LedgerAssumption ==
    /\ Metrics \subseteq AllMetrics
    /\ Time \subseteq Nat
    /\ \A m \in Manifests :
        /\ m.trained_at \in Nat /\ m.cutoff \in Nat /\ m.prereg_id \in Preregs
        /\ m.train \cap m.validation = {} /\ m.test \cap (m.train \cup m.validation) = {}
        /\ IsFiniteSet(m.train \cup m.validation \cup m.test)
    /\ MinNewValidation \in Nat /\ MinNewTotal \in Nat
    /\ MaxUpsets \in Nat

VARIABLES
    ledger,     \* its whole lines
    torn,       \* does a line cut short follow them?
    call,       \* what each process is doing
    faults,     \* processes killed so far
    overlaps    \* calls that began while another one was running

vars == <<ledger, torn, call, faults, overlaps>>

Verdicts == {"ERROR", "INCONCLUSO", "RECHAZADO", "ELEGIBLE_PRELIMINAR", "ELEGIBLE"}
Statuses == {"OK", "INVALID", "ERROR"}      \* of a reading of the test

\* of is the prereg_id or the attempt_id, payload what else the entry says.
Entry(type, of, payload, time) == [type |-> type, of |-> of, payload |-> payload, time |-> time]

Idle == [at |-> "idle"]
\* The steps of an evaluation that has not read the test.
StepsBefore == {"phase1", "check_test", "test_read", "provider", "final"}

Init ==
    /\ ledger = <<>>
    /\ torn = FALSE
    /\ call = [p \in Procs |-> Idle]
    /\ faults = 0
    /\ overlaps = 0

Places(type, of) == {i \in DOMAIN ledger : ledger[i].type = type /\ ledger[i].of = of}
Has(type, of) == Places(type, of) # {}
All(type) == {i \in DOMAIN ledger : ledger[i].type = type}

\* The payload of the only entry of its type and attempt.
The(type, of) == ledger[CHOOSE i \in Places(type, of) : TRUE].payload
-----------------------------------------------------------------------------
(* calibration_verdict.py *)

\* _classify
Deterioro(m) == m.ece = -1 \/ m.brier = -1
Nulo(m) == m.ece = 0 /\ m.brier = 0

EvaluateValidation(m) ==
    CASE ~m.valid -> "ERROR"
      [] m.valid /\ ~m.enough -> "INCONCLUSO"
      [] m.valid /\ m.enough /\ Deterioro(m) -> "RECHAZADO"
      [] m.valid /\ m.enough /\ Nulo(m) -> "INCONCLUSO"
      [] OTHER -> "ELEGIBLE_PRELIMINAR"

\* What reading the test may yield beside metrics.
NotMetrics == [valid |-> FALSE, enough |-> FALSE, ece |-> 0, brier |-> 0, raised |-> FALSE]
Raised == [valid |-> FALSE, enough |-> FALSE, ece |-> 0, brier |-> 0, raised |-> TRUE]
Outcomes == Metrics \cup {NotMetrics, Raised}

\* Bug variant of EvaluateTestVeto: a test that could not be measured is no obstacle.
EvaluateTestVeto_InvalidPasses(m) ==
    CASE m.valid /\ ~m.enough -> "INCONCLUSO"
      [] m.valid /\ m.enough /\ Deterioro(m) -> "RECHAZADO"
      [] OTHER -> "ELEGIBLE"

\* The test can only keep a preliminary verdict or lower it.
EvaluateTestVeto(m) ==
    CASE ~m.valid -> "ERROR"
      [] m.valid /\ ~m.enough -> "INCONCLUSO"
      [] m.valid /\ m.enough /\ Deterioro(m) -> "RECHAZADO"
      [] OTHER -> "ELEGIBLE"

Status(o) == IF o = Raised THEN "ERROR" ELSE IF o = NotMetrics THEN "INVALID" ELSE "OK"
-----------------------------------------------------------------------------
(* Manifests *)

Labeled(m) == m.train \cup m.validation \cup m.test

\* read_held_out_once tells tests apart by the base model and the test events.
TestKey(m) == <<m.base, m.test>>
Keys == {TestKey(m) : m \in Manifests}

\* compute_novelty
Seen(priors) == UNION {Labeled(prior) : prior \in priors}

\* check_attempt_allowed
AttemptAllowed(m, priors) == priors # {} =>
    /\ \A prior \in priors : m.db # prior.db /\ m.cutoff > prior.cutoff
    /\ Seen(priors) \subseteq Labeled(m)
    /\ Cardinality(m.validation \ Seen(priors)) >= MinNewValidation
    /\ Cardinality(Labeled(m) \ Seen(priors)) >= MinNewTotal

Closed(a) == Has("FINAL_VERDICT", a) \/ Has("ATTEMPT_ABANDONED", a)
Frozen == {ledger[i].of : i \in All("SNAPSHOT_FROZEN")}

\* Bug variant: the snapshot of an attempt that was abandoned does not count.
Priors_Evaluated ==
    {ledger[i].payload.manifest : i \in {j \in All("SNAPSHOT_FROZEN") : Has("FINAL_VERDICT", ledger[j].of)}}

Priors == {ledger[i].payload.manifest : i \in All("SNAPSHOT_FROZEN")}

\* verify_prereg_precedes_training: of the first entry of that prereg_id.
PreregPrecedes(r, trained_at) ==
    /\ Has("PREREG_SIGNED", r)
    /\ LET first == CHOOSE i \in Places("PREREG_SIGNED", r) :
                        \A j \in Places("PREREG_SIGNED", r) : i <= j
       IN  ledger[first].time < trained_at /\ ledger[first].payload.signed_at < trained_at
-----------------------------------------------------------------------------
(* register_entry: the ledger is read and the entry checked, each type by its  *)
(* own conditions; the append is a later step.                                 *)

Begin(p) ==
    /\ call[p] = Idle
    /\ ~torn                    \* read_ledger
    /\ IF \A q \in Procs : call[q] = Idle
       THEN UNCHANGED overlaps
       ELSE faults + overlaps < MaxUpsets /\ overlaps' = overlaps + 1

Prepare(p, e) ==
    /\ call' = [call EXCEPT ![p] = [at |-> "register", entry |-> e]]
    /\ UNCHANGED <<ledger, torn, faults>>

SignPrereg(p, r, signed_at, t) ==
    /\ Begin(p)
    /\ ~Has("PREREG_SIGNED", r)
    /\ Prepare(p, Entry("PREREG_SIGNED", r, [signed_at |-> signed_at], t))

FreezeSnapshot(p, a, m, t) ==
    /\ Begin(p)
    /\ Has("PREREG_SIGNED", m.prereg_id)
    /\ ~Has("SNAPSHOT_FROZEN", a)
    /\ \A b \in Frozen : Closed(b)
    /\ AttemptAllowed(m, Priors)
    /\ Prepare(p, Entry("SNAPSHOT_FROZEN", a, [manifest |-> m], t))

RegisterBase(p, a, m, t) ==
    /\ Begin(p)
    /\ Cardinality({i \in Places("SNAPSHOT_FROZEN", a) : ledger[i].payload.manifest = m}) = 1
    /\ ~Has("BASE_TRAINED", a)
    /\ PreregPrecedes(m.prereg_id, m.trained_at)
    /\ Prepare(p, Entry("BASE_TRAINED", a, [manifest |-> m], t))

\* The metrics are those of the calibrator's sidecar.
RegisterCalibrator(p, a, metrics, t) ==
    /\ Begin(p)
    /\ Cardinality(Places("BASE_TRAINED", a)) = 1
    /\ ~Has("CALIBRATOR_TRAINED", a)
    /\ Prepare(p, Entry("CALIBRATOR_TRAINED", a, [metrics |-> metrics], t))

AbandonAttempt(p, a, t) ==
    /\ Begin(p)
    /\ Has("SNAPSHOT_FROZEN", a)
    /\ ~Closed(a)
    /\ Prepare(p, Entry("ATTEMPT_ABANDONED", a, [reason |-> "any"], t))
-----------------------------------------------------------------------------
(* evaluate_attempt and read_held_out_once *)

Reached(p, step) == call[p].at = step

\* _append_entry, under the lock of the file. Times never go back.
Writable(time) == ~torn /\ \A i \in DOMAIN ledger : ledger[i].time <= time

Append_(e) ==
    /\ Writable(e.time)
    /\ ledger' = Append(ledger, e)
    /\ UNCHANGED <<torn, faults, overlaps>>

Register(p) ==
    /\ Reached(p, "register")
    /\ Append_(call[p].entry)
    /\ call' = [call EXCEPT ![p] = Idle]

Evaluable(a) ==
    /\ \A type \in {"SNAPSHOT_FROZEN", "BASE_TRAINED", "CALIBRATOR_TRAINED"} :
        Cardinality(Places(type, a)) = 1
    /\ ~Closed(a)

\* The script has no provider of the test: it stops at a preliminary verdict
\* without writing anything. consistent: manifest and metrics are the registered ones.
Evaluate(p, a, consistent, provider, t) ==
    /\ Begin(p)
    /\ Evaluable(a)
    /\ LET verdict == EvaluateValidation(The("CALIBRATOR_TRAINED", a).metrics) IN
        /\ consistent /\ verdict = "ELEGIBLE_PRELIMINAR" => provider
        /\ call' = [call EXCEPT ![p] =
            [at |-> IF consistent THEN "phase1" ELSE "final", attempt |-> a, time |-> t,
             key |-> TestKey(The("SNAPSHOT_FROZEN", a).manifest), status |-> "UNREAD",
             verdict |-> IF consistent THEN verdict ELSE "ERROR"]]
    /\ UNCHANGED <<ledger, torn, faults>>

\* The call writes an entry of its attempt, with this payload, and goes on.
Write(p, type, payload, step) ==
    /\ Append_(Entry(type, call[p].attempt, payload, call[p].time))
    /\ call' = [call EXCEPT ![p].at = step]

WritePhase1(p) ==
    /\ Reached(p, "phase1")
    /\ LET verdict == call[p].verdict IN
        Write(p, "PHASE1_VERDICT", [verdict |-> verdict],
              IF verdict = "ELEGIBLE_PRELIMINAR" THEN "check_test" ELSE "final")

\* The last PHASE1_VERDICT of a is the one that counts.
Preliminary(a) ==
    \E i \in Places("PHASE1_VERDICT", a) :
        /\ ledger[i].payload.verdict = "ELEGIBLE_PRELIMINAR"
        /\ \A j \in Places("PHASE1_VERDICT", a) : j <= i

\* Bug variant: only a reading that gave a result counts as one.
TestWasRead_WithResult(key) ==
    \E i \in All("TEST_READ") : ledger[i].payload.key = key /\ Has("TEST_RESULT", ledger[i].of)

TestWasRead(key) == \E i \in All("TEST_READ") : ledger[i].payload.key = key

\* A reading that is refused ends the evaluation with ERROR.
CheckTest(p) ==
    /\ Reached(p, "check_test")
    /\ ~torn
    /\ LET a == call[p].attempt
           allowed == /\ ~Has("ATTEMPT_ABANDONED", a)
                      /\ Preliminary(a)
                      /\ ~TestWasRead(call[p].key)
       IN  call' = [call EXCEPT ![p].at = IF allowed THEN "test_read" ELSE "final",
                                ![p].verdict = IF allowed THEN @ ELSE "ERROR"]
    /\ UNCHANGED <<ledger, torn, faults, overlaps>>

WriteTestRead(p) ==
    /\ Reached(p, "test_read")
    /\ Write(p, "TEST_READ", [key |-> call[p].key], "provider")

\* The veto is of o alone: it makes no difference that it is decided after TEST_RESULT.
ReadTest(p, o) ==
    /\ Reached(p, "provider")
    /\ call' = [call EXCEPT ![p].at = "test_result", ![p].status = Status(o),
                            ![p].verdict = EvaluateTestVeto(o)]
    /\ UNCHANGED <<ledger, torn, faults, overlaps>>

WriteTestResult(p) ==
    /\ Reached(p, "test_result")
    /\ Write(p, "TEST_RESULT", [status |-> call[p].status], "final")

WriteFinal(p) ==
    /\ Reached(p, "final")
    /\ Append_(Entry("FINAL_VERDICT", call[p].attempt, [verdict |-> call[p].verdict], call[p].time))
    /\ call' = [call EXCEPT ![p] = Idle]

Writing(p) == call[p] # Idle /\ call[p].at \notin {"check_test", "provider"}
WriteTime(p) == IF Reached(p, "register") THEN call[p].entry.time ELSE call[p].time

\* A GovernanceError ends the call: the ledger is torn, or the time goes back, or
\* what read_ledger sees, without the lock, is half of another process's line.
Refuse(p) ==
    /\ \/ Writing(p) /\ ~Writable(WriteTime(p))
       \/ Reached(p, "check_test") /\ (torn \/ \E q \in Procs : Writing(q))
    /\ call' = [call EXCEPT ![p] = Idle]
    /\ UNCHANGED <<ledger, torn, faults, overlaps>>

\* The process is killed, perhaps in the middle of a line.
Kill(p) ==
    /\ call[p] # Idle
    /\ faults + overlaps < MaxUpsets
    /\ faults' = faults + 1
    /\ call' = [call EXCEPT ![p] = Idle]
    /\ torn' \in {torn} \cup (IF Writing(p) /\ Writable(WriteTime(p)) THEN {TRUE} ELSE {})
    /\ UNCHANGED <<ledger, overlaps>>

Next == \E p \in Procs :
    \/ \E t \in Time :
        \/ \E r \in Preregs, signed_at \in Time : SignPrereg(p, r, signed_at, t)
        \/ \E a \in Attempts :
            \/ \E m \in Manifests : FreezeSnapshot(p, a, m, t) \/ RegisterBase(p, a, m, t)
            \/ \E metrics \in Metrics : RegisterCalibrator(p, a, metrics, t)
            \/ AbandonAttempt(p, a, t)
            \/ \E consistent, provider \in BOOLEAN : Evaluate(p, a, consistent, provider, t)
    \/ Register(p) \/ WritePhase1(p) \/ CheckTest(p) \/ WriteTestRead(p)
    \/ \E o \in Outcomes : ReadTest(p, o)
    \/ WriteTestResult(p) \/ WriteFinal(p) \/ Refuse(p) \/ Kill(p)

Spec == Init /\ [][Next]_vars
-----------------------------------------------------------------------------
(* Properties *)

Written(types, ofs, payloads) == [type : types, of : ofs, payload : payloads, time : Time]

\* What register_entry may write, and what only evaluate_attempt may.
RegisteredEntries ==
    Written({"PREREG_SIGNED"}, Preregs, [signed_at : Time])
    \cup Written({"SNAPSHOT_FROZEN", "BASE_TRAINED"}, Attempts, [manifest : Manifests])
    \cup Written({"CALIBRATOR_TRAINED"}, Attempts, [metrics : Metrics])
    \cup Written({"ATTEMPT_ABANDONED"}, Attempts, [reason : {"any"}])

EvaluationEntries ==
    Written({"PHASE1_VERDICT", "FINAL_VERDICT"}, Attempts, [verdict : Verdicts])
    \cup Written({"TEST_READ"}, Attempts, [key : Keys])
    \cup Written({"TEST_RESULT"}, Attempts, [status : Statuses])

Evaluating(steps, statuses) ==
    [at : steps, attempt : Attempts, time : Time, key : Keys, status : statuses, verdict : Verdicts]

Calls ==
    {Idle}
    \cup [at : {"register"}, entry : RegisteredEntries]
    \cup Evaluating(StepsBefore, {"UNREAD"})
    \cup Evaluating({"test_result", "final"}, Statuses)

\* Entries have the payload of their type, and a verdict is one of Verdict; what
\* only the evaluation may write is never registered.
LedgerTypeOK ==
    /\ ledger \in Seq(RegisteredEntries \cup EvaluationEntries)
    /\ torn \in BOOLEAN
    /\ call \in [Procs -> Calls]
    /\ faults \in Nat /\ overlaps \in Nat /\ faults + overlaps <= MaxUpsets

\* An ELEGIBLE is only ever written after a preliminary one, a reading of the
\* test and a valid result of it, all of the same attempt, in this order.
VerdictsEarned == \A i \in All("FINAL_VERDICT") : ledger[i].payload.verdict = "ELEGIBLE" =>
    LET a == ledger[i].of IN
        \E j \in Places("PHASE1_VERDICT", a), k \in Places("TEST_READ", a),
           l \in Places("TEST_RESULT", a) :
            /\ j < k /\ k < l /\ l < i
            /\ ledger[j].payload.verdict = "ELEGIBLE_PRELIMINAR" /\ ledger[l].payload.status = "OK"

\* However processes overlap, an attempt is registered in the order of its work,
\* below a preregistration recorded before its model was trained.
Follows(i, type, of) == \E j \in Places(type, of) : j < i
RegisteredInOrder ==
    /\ \A i \in All("BASE_TRAINED") :
        /\ Follows(i, "SNAPSHOT_FROZEN", ledger[i].of)
        /\ \E j \in Places("PREREG_SIGNED", ledger[i].payload.manifest.prereg_id) :
            j < i /\ ledger[j].time < ledger[i].payload.manifest.trained_at
    /\ \A i \in All("CALIBRATOR_TRAINED") : Follows(i, "BASE_TRAINED", ledger[i].of)
    /\ \A i \in All("PHASE1_VERDICT") : Follows(i, "CALIBRATOR_TRAINED", ledger[i].of)

(* What follows is promised by governance/calibration/README.md and kept as    *)
(* long as no call begins while another one runs.                              *)

\* A test is read at most once, also after an evaluation that was interrupted.
TestReadOnce == overlaps > 0 \/ \A i, j \in All("TEST_READ") :
    ledger[i].payload = ledger[j].payload => i = j

\* An open attempt is closed before another one is begun.
OneOpenAttempt == overlaps > 0 \/ \A i, j \in All("SNAPSHOT_FROZEN") : i < j =>
    \E k \in Places("FINAL_VERDICT", ledger[i].of) \cup Places("ATTEMPT_ABANDONED", ledger[i].of) :
        i < k /\ k < j

\* An attempt that ended is not evaluated and does not end again: an abandoned one
\* never becomes ELEGIBLE. (Its models may still be registered.)
Evaluation == {"PHASE1_VERDICT", "TEST_READ", "TEST_RESULT", "FINAL_VERDICT", "ATTEMPT_ABANDONED"}
ClosedForGood == overlaps > 0 \/
    \A i \in All("FINAL_VERDICT") \cup All("ATTEMPT_ABANDONED") :
        \A j \in i + 1 .. Len(ledger) :
            ledger[j].of = ledger[i].of => ledger[j].type \notin Evaluation

\* Every snapshot has all the events of every earlier one, that of an abandoned
\* attempt too, and validates on events that were in no role in it.
SnapshotsGrow == overlaps > 0 \/ \A i, j \in All("SNAPSHOT_FROZEN") : i < j =>
    LET earlier == ledger[i].payload.manifest  later == ledger[j].payload.manifest IN
        /\ earlier.cutoff < later.cutoff
        /\ Labeled(earlier) \subseteq Labeled(later)
        /\ Cardinality(later.validation \ Labeled(earlier)) >= MinNewValidation

\* An ELEGIBLE is the work of one evaluation that nothing interrupted.
EarnedAtOnce == overlaps > 0 \/ \A i \in All("FINAL_VERDICT") : ledger[i].payload.verdict = "ELEGIBLE" =>
    /\ i > 3
    /\ \A j \in i - 3 .. i : ledger[j].of = ledger[i].of
    /\ ledger[i - 3].type = "PHASE1_VERDICT" /\ ledger[i - 2].type = "TEST_READ"
    /\ ledger[i - 1].type = "TEST_RESULT"

\* The order of the ledger is the order the governance asks for: registrations first, one
\* attempt at a time, none that comes back, snapshots that only grow, and verdicts that
\* follow at once from what they rest on (register_entry, evaluate_attempt).
LedgerInOrder == LedgerTypeOK /\ RegisteredInOrder /\ OneOpenAttempt /\ ClosedForGood /\ SnapshotsGrow /\ EarnedAtOnce
=============================================================================
