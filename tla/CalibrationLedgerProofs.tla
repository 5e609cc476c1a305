----------------------- MODULE CalibrationLedgerProofs -----------------------
(* Theorems about the governance ledger that hold for any number of processes, *)
(* attempts and upsets: the type of what is written, the order in which an     *)
(* attempt is registered, and that every ELEGIBLE was earned.                  *)
EXTENDS CalibrationLedger, FiniteSetTheorems, TLAPS

Steps == StepsBefore \cup {"test_result"}

AllEntries == RegisteredEntries \cup EvaluationEntries

\* What is in the ledger stays in its place.
Kept ==
    /\ DOMAIN ledger \subseteq DOMAIN ledger'
    /\ \A i \in DOMAIN ledger : ledger'[i] = ledger[i]

\* At most e is new, and it is the last one.
OnlyNew(e) == \A i \in DOMAIN ledger' \ DOMAIN ledger :
    ledger'[i] = e /\ \A j \in DOMAIN ledger : j < i
-----------------------------------------------------------------------------
LEMMA AppendKeeps ==
  ASSUME NEW e \in AllEntries, ledger \in Seq(AllEntries), ledger' = Append(ledger, e)
  PROVE  /\ ledger' \in Seq(AllEntries)
         /\ Kept
         /\ OnlyNew(e)
<1>1. Len(ledger) \in Nat /\ DOMAIN ledger = 1 .. Len(ledger)
  OBVIOUS
<1>2. ledger' \in Seq(AllEntries)
  OBVIOUS
<1>3. DOMAIN ledger' = 1 .. Len(ledger) + 1
  BY <1>1
<1>4. \A i \in 1 .. Len(ledger) : ledger'[i] = ledger[i]
  BY <1>1
<1>5. ledger'[Len(ledger) + 1] = e
  BY <1>1
<1>6. Kept
  BY <1>1, <1>3, <1>4 DEF Kept
<1>7. OnlyNew(e)
  BY <1>1, <1>3, <1>5 DEF OnlyNew
<1> QED  BY <1>2, <1>6, <1>7

\* A verdict on metrics is a verdict.
LEMMA VerdictTypes ==
  ASSUME NEW m
  PROVE  /\ EvaluateValidation(m) \in Verdicts \ {"ELEGIBLE"}
         /\ EvaluateTestVeto(m) \in Verdicts
BY DEF EvaluateValidation, EvaluateTestVeto, Verdicts

\* Only a result that was written as OK is let through.
LEMMA ElegibleMeansOK ==
  ASSUME NEW o \in Outcomes, EvaluateTestVeto(o) = "ELEGIBLE"
  PROVE  Status(o) = "OK"
<1>1. o.valid
  BY DEF EvaluateTestVeto
<1>2. o # Raised /\ o # NotMetrics
  BY <1>1 DEF Raised, NotMetrics
<1> QED  BY <1>2 DEF Status

\* What the ledger holds of an attempt has the payload of its type.
LEMMA EntryPayloads ==
  ASSUME ledger \in Seq(AllEntries), NEW i \in DOMAIN ledger
  PROVE  /\ ledger[i].type \in {"SNAPSHOT_FROZEN", "BASE_TRAINED"}
                => ledger[i].payload.manifest \in Manifests
         /\ ledger[i].type = "CALIBRATOR_TRAINED" => ledger[i].payload.metrics \in Metrics
         /\ ledger[i].type # "PREREG_SIGNED" => ledger[i].of \in Attempts
<1>1. ledger[i] \in AllEntries
  OBVIOUS
<1> QED
  BY <1>1 DEF AllEntries, RegisteredEntries, EvaluationEntries, Written
-----------------------------------------------------------------------------
(* Type correctness *)

LEMMA CallTypes ==
  ASSUME NEW c \in Calls
  PROVE  /\ c.at = "register" => c.entry \in RegisteredEntries
         /\ c.at \in Steps \ {"final"} => c \in Evaluating(StepsBefore, {"UNREAD"})
                                                    \cup Evaluating({"test_result"}, Statuses)
         /\ c.at \in Steps => /\ c.attempt \in Attempts /\ c.time \in Time
                              /\ c.key \in Keys /\ c.verdict \in Verdicts
         /\ c.at = "test_result" => c \in Evaluating({"test_result"}, Statuses)
         /\ c.at \in StepsBefore \ {"final"} => c \in Evaluating(StepsBefore, {"UNREAD"})
BY DEF Calls, Idle, Steps, StepsBefore, Evaluating

\* A call that writes an entry of its evaluation.
LEMMA WriteTypes ==
  ASSUME LedgerTypeOK, NEW p \in Procs, call[p].at \in Steps, NEW type, NEW payload,
         NEW step, [call[p] EXCEPT !.at = step] \in Calls, Write(p, type, payload, step),
         \A a \in Attempts, t \in Time : Entry(type, a, payload, t) \in EvaluationEntries
  PROVE  /\ LedgerTypeOK'
         /\ Kept
         /\ OnlyNew(Entry(type, call[p].attempt, payload, call[p].time))
<1> DEFINE e == Entry(type, call[p].attempt, payload, call[p].time)
<1>1. call[p] \in Calls
  BY DEF LedgerTypeOK
<1>2. call[p].attempt \in Attempts /\ call[p].time \in Time
  BY <1>1, CallTypes
<1>3. e \in AllEntries
  BY <1>2 DEF AllEntries
<1>4. ledger' = Append(ledger, e) /\ UNCHANGED <<torn, faults, overlaps>>
  BY DEF Write, Append_
<1>5. ledger' \in Seq(AllEntries) /\ Kept /\ OnlyNew(e)
  BY <1>3, <1>4, AppendKeeps DEF LedgerTypeOK, AllEntries
<1>7. call' \in [Procs -> Calls]
  BY DEF Write, LedgerTypeOK
<1> QED  BY <1>4, <1>5, <1>7 DEF LedgerTypeOK, AllEntries

\* A call that prepares an entry, or ends, or goes on without writing.
LEMMA QuietTypes ==
  ASSUME LedgerTypeOK, NEW p \in Procs, NEW c \in Calls, call' = [call EXCEPT ![p] = c],
         UNCHANGED ledger, torn' \in BOOLEAN, faults' \in Nat, overlaps' \in Nat,
         faults' + overlaps' <= MaxUpsets
  PROVE  LedgerTypeOK'
BY DEF LedgerTypeOK

LEMMA BeginTypes ==
  ASSUME LedgerTypeOK, NEW p \in Procs, Begin(p), UNCHANGED faults
  PROVE  overlaps' \in Nat /\ faults' + overlaps' <= MaxUpsets
BY LedgerAssumption DEF LedgerTypeOK, Begin

LEMMA PrepareTypes ==
  ASSUME LedgerTypeOK, NEW p \in Procs, NEW e \in RegisteredEntries, Begin(p), Prepare(p, e)
  PROVE  LedgerTypeOK'
<1>1. [at |-> "register", entry |-> e] \in Calls
  BY DEF Calls
<1>2. overlaps' \in Nat /\ faults' + overlaps' <= MaxUpsets
  BY BeginTypes DEF Prepare
<1> QED  BY <1>1, <1>2, QuietTypes DEF Prepare, LedgerTypeOK

\* The steps of register_entry; the entry is one of RegisteredEntries.
LEMMA RegistrationTypes ==
  ASSUME LedgerTypeOK, NEW p \in Procs, NEW t \in Time
  PROVE  /\ \A r \in Preregs, signed_at \in Time : SignPrereg(p, r, signed_at, t) => LedgerTypeOK'
         /\ \A a \in Attempts :
                /\ \A m \in Manifests :
                    FreezeSnapshot(p, a, m, t) \/ RegisterBase(p, a, m, t) => LedgerTypeOK'
                /\ \A metrics \in Metrics : RegisterCalibrator(p, a, metrics, t) => LedgerTypeOK'
                /\ AbandonAttempt(p, a, t) => LedgerTypeOK'
<1>1. ASSUME NEW r \in Preregs, NEW signed_at \in Time, SignPrereg(p, r, signed_at, t)
      PROVE  LedgerTypeOK'
  <2>1. Entry("PREREG_SIGNED", r, [signed_at |-> signed_at], t) \in RegisteredEntries
    BY DEF Entry, RegisteredEntries, Written
  <2> QED  BY <1>1, <2>1, PrepareTypes DEF SignPrereg
<1>2. ASSUME NEW a \in Attempts, NEW m \in Manifests, FreezeSnapshot(p, a, m, t)
      PROVE  LedgerTypeOK'
  <2>1. Entry("SNAPSHOT_FROZEN", a, [manifest |-> m], t) \in RegisteredEntries
    BY DEF Entry, RegisteredEntries, Written
  <2> QED  BY <1>2, <2>1, PrepareTypes DEF FreezeSnapshot
<1>3. ASSUME NEW a \in Attempts, NEW m \in Manifests, RegisterBase(p, a, m, t)
      PROVE  LedgerTypeOK'
  <2>1. Entry("BASE_TRAINED", a, [manifest |-> m], t) \in RegisteredEntries
    BY DEF Entry, RegisteredEntries, Written
  <2> QED  BY <1>3, <2>1, PrepareTypes DEF RegisterBase
<1>4. ASSUME NEW a \in Attempts, NEW metrics \in Metrics, RegisterCalibrator(p, a, metrics, t)
      PROVE  LedgerTypeOK'
  <2>1. Entry("CALIBRATOR_TRAINED", a, [metrics |-> metrics], t) \in RegisteredEntries
    BY DEF Entry, RegisteredEntries, Written
  <2> QED  BY <1>4, <2>1, PrepareTypes DEF RegisterCalibrator
<1>5. ASSUME NEW a \in Attempts, AbandonAttempt(p, a, t)
      PROVE  LedgerTypeOK'
  <2>1. Entry("ATTEMPT_ABANDONED", a, [reason |-> "any"], t) \in RegisteredEntries
    BY DEF Entry, RegisteredEntries, Written
  <2> QED  BY <1>5, <2>1, PrepareTypes DEF AbandonAttempt
<1> QED  BY <1>1, <1>2, <1>3, <1>4, <1>5

\* Evaluate finds the manifest of the attempt in the ledger.
LEMMA EvaluateTypes ==
  ASSUME LedgerTypeOK, NEW p \in Procs, NEW a \in Attempts, NEW consistent \in BOOLEAN,
         NEW provider \in BOOLEAN, NEW t \in Time, Evaluate(p, a, consistent, provider, t)
  PROVE  LedgerTypeOK'
<1> DEFINE i == CHOOSE i \in Places("SNAPSHOT_FROZEN", a) : TRUE
           key == TestKey(The("SNAPSHOT_FROZEN", a).manifest)
           verdict == EvaluateValidation(The("CALIBRATOR_TRAINED", a).metrics)
           c == [at |-> IF consistent THEN "phase1" ELSE "final", attempt |-> a, time |-> t,
                 key |-> key, status |-> "UNREAD",
                 verdict |-> IF consistent THEN verdict ELSE "ERROR"]
<1>1. Cardinality(Places("SNAPSHOT_FROZEN", a)) = 1
  BY DEF Evaluate, Evaluable
<1>2. Places("SNAPSHOT_FROZEN", a) # {}
  BY <1>1, FS_EmptySet
<1>3. i \in DOMAIN ledger /\ ledger[i].type = "SNAPSHOT_FROZEN"
  BY <1>2 DEF Places
<1>4. key \in Keys
  BY <1>3, EntryPayloads DEF The, Keys, LedgerTypeOK, AllEntries
<1>5. verdict \in Verdicts
  BY VerdictTypes
<1>6. c \in Calls
  <2>1. c.verdict \in Verdicts
    BY <1>5 DEF Verdicts
  <2>2. c \in Evaluating(StepsBefore, {"UNREAD"})
    BY <1>4, <2>1 DEF Evaluating, StepsBefore
  <2> QED  BY <2>2 DEF Calls
<1>7. call' = [call EXCEPT ![p] = c] /\ UNCHANGED <<ledger, torn, faults>> /\ Begin(p)
  BY DEF Evaluate
<1>8. overlaps' \in Nat /\ faults' + overlaps' <= MaxUpsets
  BY <1>7, BeginTypes
<1> QED  BY <1>6, <1>7, <1>8, QuietTypes DEF LedgerTypeOK

\* register_entry writes what it prepared.
LEMMA RegisterTypes ==
  ASSUME LedgerTypeOK, NEW p \in Procs, Register(p)
  PROVE  /\ LedgerTypeOK'
         /\ call[p].entry \in RegisteredEntries
         /\ Kept
         /\ OnlyNew(call[p].entry)
<1>1. call[p] \in Calls /\ call[p].at = "register"
  BY DEF LedgerTypeOK, Register, Reached
<1>2. call[p].entry \in RegisteredEntries
  BY <1>1, CallTypes
<1>3. ledger' = Append(ledger, call[p].entry) /\ UNCHANGED <<torn, faults, overlaps>>
  BY DEF Register, Append_
<1>4. ledger' \in Seq(AllEntries) /\ Kept /\ OnlyNew(call[p].entry)
  BY <1>2, <1>3, AppendKeeps DEF LedgerTypeOK, AllEntries
<1>5. call' \in [Procs -> Calls]
  BY DEF Register, LedgerTypeOK, Calls
<1> QED  BY <1>2, <1>3, <1>4, <1>5 DEF LedgerTypeOK, AllEntries

(* The entries that the evaluation writes. *)

LEMMA WritePhase1Types ==
  ASSUME LedgerTypeOK, NEW p \in Procs, WritePhase1(p)
  PROVE  /\ LedgerTypeOK' /\ Kept
         /\ OnlyNew(Entry("PHASE1_VERDICT", call[p].attempt,
                          [verdict |-> call[p].verdict], call[p].time))
<1>1. call[p] \in Calls /\ call[p].at = "phase1"
  BY DEF LedgerTypeOK, WritePhase1, Reached
<1>2. call[p] \in Evaluating(StepsBefore, {"UNREAD"})
  BY <1>1, CallTypes DEF StepsBefore
<1>3. \A a \in Attempts, t \in Time :
          Entry("PHASE1_VERDICT", a, [verdict |-> call[p].verdict], t) \in EvaluationEntries
  BY <1>2 DEF Entry, EvaluationEntries, Written, Evaluating
<1>4. PICK step \in {"check_test", "final"} :
          Write(p, "PHASE1_VERDICT", [verdict |-> call[p].verdict], step)
  BY DEF WritePhase1
<1>5. [call[p] EXCEPT !.at = step] \in Calls
  BY <1>2 DEF Evaluating, Calls, StepsBefore
<1> QED  BY <1>1, <1>3, <1>4, <1>5, WriteTypes DEF Steps, StepsBefore

LEMMA WriteTestReadTypes ==
  ASSUME LedgerTypeOK, NEW p \in Procs, WriteTestRead(p)
  PROVE  /\ LedgerTypeOK' /\ Kept
         /\ OnlyNew(Entry("TEST_READ", call[p].attempt, [key |-> call[p].key], call[p].time))
<1>1. call[p] \in Calls /\ call[p].at = "test_read"
  BY DEF LedgerTypeOK, WriteTestRead, Reached
<1>2. call[p] \in Evaluating(StepsBefore, {"UNREAD"})
  BY <1>1, CallTypes DEF StepsBefore
<1>3. \A a \in Attempts, t \in Time :
          Entry("TEST_READ", a, [key |-> call[p].key], t) \in EvaluationEntries
  BY <1>2 DEF Entry, EvaluationEntries, Written, Evaluating
<1>4. Write(p, "TEST_READ", [key |-> call[p].key], "provider")
  BY DEF WriteTestRead
<1>5. [call[p] EXCEPT !.at = "provider"] \in Calls
  BY <1>2 DEF Evaluating, Calls, StepsBefore
<1> QED  BY <1>1, <1>3, <1>4, <1>5, WriteTypes DEF Steps, StepsBefore

LEMMA WriteTestResultTypes ==
  ASSUME LedgerTypeOK, NEW p \in Procs, WriteTestResult(p)
  PROVE  /\ LedgerTypeOK' /\ Kept
         /\ OnlyNew(Entry("TEST_RESULT", call[p].attempt,
                          [status |-> call[p].status], call[p].time))
<1>1. call[p] \in Calls /\ call[p].at = "test_result"
  BY DEF LedgerTypeOK, WriteTestResult, Reached
<1>2. call[p] \in Evaluating({"test_result"}, Statuses)
  BY <1>1, CallTypes
<1>3. \A a \in Attempts, t \in Time :
          Entry("TEST_RESULT", a, [status |-> call[p].status], t) \in EvaluationEntries
  BY <1>2 DEF Entry, EvaluationEntries, Written, Evaluating
<1>4. Write(p, "TEST_RESULT", [status |-> call[p].status], "final")
  BY DEF WriteTestResult
<1>5. [call[p] EXCEPT !.at = "final"] \in Calls
  BY <1>2 DEF Evaluating, Calls
<1> QED  BY <1>1, <1>3, <1>4, <1>5, WriteTypes DEF Steps, StepsBefore

LEMMA WriteFinalTypes ==
  ASSUME LedgerTypeOK, NEW p \in Procs, WriteFinal(p)
  PROVE  /\ LedgerTypeOK' /\ Kept
         /\ OnlyNew(Entry("FINAL_VERDICT", call[p].attempt,
                          [verdict |-> call[p].verdict], call[p].time))
<1> DEFINE e == Entry("FINAL_VERDICT", call[p].attempt, [verdict |-> call[p].verdict], call[p].time)
<1>1. call[p] \in Calls /\ call[p].at \in Steps
  BY DEF LedgerTypeOK, WriteFinal, Reached, Steps, StepsBefore
<1>2. e \in EvaluationEntries
  BY <1>1, CallTypes DEF Entry, EvaluationEntries, Written
<1>3. ledger' = Append(ledger, e) /\ UNCHANGED <<torn, faults, overlaps>>
  BY DEF WriteFinal, Append_
<1>4. ledger' \in Seq(AllEntries) /\ Kept /\ OnlyNew(e)
  BY <1>2, <1>3, AppendKeeps DEF LedgerTypeOK, AllEntries
<1>5. call' \in [Procs -> Calls]
  BY DEF WriteFinal, LedgerTypeOK, Calls
<1> QED  BY <1>3, <1>4, <1>5 DEF LedgerTypeOK, AllEntries

(* The other steps write nothing. *)

LEMMA CheckTestTypes ==
  ASSUME LedgerTypeOK, NEW p \in Procs, CheckTest(p)
  PROVE  LedgerTypeOK'
<1>1. call[p] \in Calls /\ call[p].at = "check_test"
  BY DEF LedgerTypeOK, CheckTest, Reached
<1>2. call[p] \in Evaluating(StepsBefore, {"UNREAD"})
  BY <1>1, CallTypes DEF StepsBefore
<1>3. PICK allowed \in BOOLEAN :
        call' = [call EXCEPT ![p] = [call[p] EXCEPT
                    !.at = IF allowed THEN "test_read" ELSE "final",
                    !.verdict = IF allowed THEN call[p].verdict ELSE "ERROR"]]
  BY DEF CheckTest
<1>4. call'[p] \in Evaluating(StepsBefore, {"UNREAD"})
  BY <1>2, <1>3 DEF Evaluating, StepsBefore, Verdicts, LedgerTypeOK
<1>5. call' \in [Procs -> Calls]
  BY <1>3, <1>4 DEF LedgerTypeOK, Calls
<1> QED  BY <1>5 DEF LedgerTypeOK, CheckTest

LEMMA ReadTestTypes ==
  ASSUME LedgerTypeOK, NEW p \in Procs, NEW o \in Outcomes, ReadTest(p, o)
  PROVE  LedgerTypeOK'
<1>1. call[p] \in Calls /\ call[p].at = "provider"
  BY DEF LedgerTypeOK, ReadTest, Reached
<1>2. call[p] \in Evaluating(StepsBefore, {"UNREAD"})
  BY <1>1, CallTypes DEF StepsBefore
<1>3. EvaluateTestVeto(o) \in Verdicts /\ Status(o) \in Statuses
  BY VerdictTypes DEF Status, Statuses
<1>4. call'[p] \in Evaluating({"test_result"}, Statuses)
  BY <1>2, <1>3 DEF ReadTest, Evaluating, LedgerTypeOK
<1>5. call'[p] \in Calls
  BY <1>4 DEF Calls, Evaluating
<1>6. call' \in [Procs -> Calls]
  BY <1>5 DEF LedgerTypeOK, ReadTest
<1> QED  BY <1>6 DEF LedgerTypeOK, ReadTest

LEMMA StoppedTypes ==
  ASSUME LedgerTypeOK, NEW p \in Procs, Refuse(p) \/ Kill(p)
  PROVE  LedgerTypeOK'
<1>1. Idle \in Calls
  BY DEF Calls
<1>2. CASE Refuse(p)
  BY <1>1, <1>2, QuietTypes DEF Refuse, LedgerTypeOK
<1>3. CASE Kill(p)
  <2>1. torn' \in BOOLEAN
    BY <1>3 DEF Kill, LedgerTypeOK
  <2>2. faults' \in Nat /\ faults' + overlaps' <= MaxUpsets /\ overlaps' \in Nat
    BY <1>3, LedgerAssumption DEF Kill, LedgerTypeOK
  <2> QED  BY <1>1, <1>3, <2>1, <2>2, QuietTypes DEF Kill
<1> QED  BY <1>2, <1>3

LEMMA TypeStep ==
  ASSUME LedgerTypeOK, [Next]_vars
  PROVE  LedgerTypeOK'
<1>1. CASE UNCHANGED vars
  BY <1>1 DEF LedgerTypeOK, vars
<1>2. ASSUME NEW p \in Procs, NEW t \in Time,
             \/ \E r \in Preregs, signed_at \in Time : SignPrereg(p, r, signed_at, t)
             \/ \E a \in Attempts :
                \/ \E m \in Manifests : FreezeSnapshot(p, a, m, t) \/ RegisterBase(p, a, m, t)
                \/ \E metrics \in Metrics : RegisterCalibrator(p, a, metrics, t)
                \/ AbandonAttempt(p, a, t)
      PROVE  LedgerTypeOK'
  BY <1>2, RegistrationTypes
<1>3. ASSUME NEW p \in Procs, NEW a \in Attempts, NEW t \in Time,
             \E consistent, provider \in BOOLEAN : Evaluate(p, a, consistent, provider, t)
      PROVE  LedgerTypeOK'
  BY <1>3, EvaluateTypes
<1>4. ASSUME NEW p \in Procs,
             \/ Register(p) \/ WritePhase1(p) \/ WriteTestRead(p) \/ WriteTestResult(p)
             \/ WriteFinal(p)
      PROVE  LedgerTypeOK'
  BY <1>4, RegisterTypes, WritePhase1Types, WriteTestReadTypes, WriteTestResultTypes,
     WriteFinalTypes
<1>5. ASSUME NEW p \in Procs,
             CheckTest(p) \/ (\E o \in Outcomes : ReadTest(p, o)) \/ Refuse(p) \/ Kill(p)
      PROVE  LedgerTypeOK'
  BY <1>5, CheckTestTypes, ReadTestTypes, StoppedTypes
<1> QED  BY <1>1, <1>2, <1>3, <1>4, <1>5 DEF Next

LEMMA TypeInit ==
  ASSUME Init
  PROVE  LedgerTypeOK
<1>1. <<>> \in Seq(RegisteredEntries \cup EvaluationEntries)
  OBVIOUS
<1>2. Idle \in Calls
  BY DEF Calls
<1>3. [p \in Procs |-> Idle] \in [Procs -> Calls]
  BY <1>2
<1>4. faults \in Nat /\ overlaps \in Nat /\ faults + overlaps <= MaxUpsets
  BY LedgerAssumption DEF Init
<1>5. ledger \in Seq(RegisteredEntries \cup EvaluationEntries) /\ torn \in BOOLEAN
  BY <1>1 DEF Init
<1>6. call \in [Procs -> Calls]
  BY <1>3 DEF Init
<1> QED  BY <1>4, <1>5, <1>6 DEF LedgerTypeOK

\* Entries and calls always have the types the code gives them.
THEOREM LedgerTypeCorrect == Spec => []LedgerTypeOK
<1>1. Init => LedgerTypeOK
  BY TypeInit
<1>2. LedgerTypeOK /\ [Next]_vars => LedgerTypeOK'
  BY TypeStep
<1> QED  BY <1>1, <1>2, PTL DEF Spec
-----------------------------------------------------------------------------
(* Every ELEGIBLE is earned. What a call may still write depends on where it   *)
(* is: that is the strengthening that makes VerdictsEarned inductive.          *)

\* How far the ledger shows the evaluation of attempt a to have come.
PreliminaryWritten(a) == \E j \in Places("PHASE1_VERDICT", a) :
    ledger[j].payload.verdict = "ELEGIBLE_PRELIMINAR"

ReadingWritten(a) == \E j \in Places("PHASE1_VERDICT", a), k \in Places("TEST_READ", a) :
    j < k /\ ledger[j].payload.verdict = "ELEGIBLE_PRELIMINAR"

ResultWritten(a) ==
    \E j \in Places("PHASE1_VERDICT", a), k \in Places("TEST_READ", a), l \in Places("TEST_RESULT", a) :
        /\ j < k /\ k < l
        /\ ledger[j].payload.verdict = "ELEGIBLE_PRELIMINAR" /\ ledger[l].payload.status = "OK"

CallEarned(p) ==
    /\ call[p].at = "phase1" => call[p].verdict # "ELEGIBLE"
    /\ call[p].at \in {"check_test", "test_read"} => PreliminaryWritten(call[p].attempt)
    /\ call[p].at \in {"provider", "test_result"} => ReadingWritten(call[p].attempt)
    /\ call[p].at = "test_result" /\ call[p].verdict = "ELEGIBLE" => call[p].status = "OK"
    /\ call[p].at = "final" /\ call[p].verdict = "ELEGIBLE" => ResultWritten(call[p].attempt)

EarnedInv == LedgerTypeOK /\ VerdictsEarned /\ \A p \in Procs : CallEarned(p)

\* What an attempt has in the ledger it keeps.
LEMMA ProgressKept ==
  ASSUME LedgerTypeOK, Kept, NEW a
  PROVE  /\ PreliminaryWritten(a) => PreliminaryWritten(a)'
         /\ ReadingWritten(a) => ReadingWritten(a)'
         /\ ResultWritten(a) => ResultWritten(a)'
BY DEF Kept, PreliminaryWritten, ReadingWritten, ResultWritten, Places

\* Another process's step leaves a call as it was and takes nothing from the ledger.
LEMMA OthersKeepEarned ==
  ASSUME LedgerTypeOK, Kept, NEW q \in Procs, CallEarned(q), call'[q] = call[q]
  PROVE  CallEarned(q)'
BY ProgressKept DEF CallEarned

\* The final verdicts of before are as earned as they were.
LEMMA OldVerdictsEarned ==
  ASSUME LedgerTypeOK, VerdictsEarned, Kept,
         \A i \in DOMAIN ledger' \ DOMAIN ledger :
            ledger'[i].type = "FINAL_VERDICT" => ledger'[i].payload.verdict # "ELEGIBLE"
  PROVE  VerdictsEarned'
BY DEF VerdictsEarned, Kept, All, Places

\* A step that writes nothing.
LEMMA QuietEarned ==
  ASSUME EarnedInv, LedgerTypeOK', UNCHANGED ledger, NEW p \in Procs, CallEarned(p)',
         \A q \in Procs \ {p} : call'[q] = call[q]
  PROVE  EarnedInv'
<1>1. Kept
  BY DEF Kept
<1>2. VerdictsEarned'
  BY DEF EarnedInv, VerdictsEarned, All, Places
<1>3. \A q \in Procs : CallEarned(q)'
  BY <1>1, OthersKeepEarned DEF EarnedInv
<1> QED  BY <1>2, <1>3 DEF EarnedInv

\* A call that only prepares an entry has nothing to show yet.
LEMMA PreparedEarned ==
  ASSUME EarnedInv, LedgerTypeOK', NEW p \in Procs, NEW e, Prepare(p, e)
  PROVE  EarnedInv'
<1>1. call'[p].at = "register" /\ UNCHANGED ledger
  BY DEF Prepare, EarnedInv, LedgerTypeOK
<1>2. CallEarned(p)'
  BY <1>1 DEF CallEarned
<1>3. \A q \in Procs \ {p} : call'[q] = call[q]
  BY DEF Prepare, EarnedInv, LedgerTypeOK
<1> QED  BY <1>1, <1>2, <1>3, QuietEarned

LEMMA StoppedEarned ==
  ASSUME EarnedInv, LedgerTypeOK', NEW p \in Procs, Refuse(p) \/ Kill(p)
  PROVE  EarnedInv'
<1>1. call' = [call EXCEPT ![p] = Idle] /\ UNCHANGED ledger
  BY DEF Refuse, Kill
<1>2. call'[p].at = "idle"
  BY <1>1 DEF EarnedInv, LedgerTypeOK, Idle
<1>3. CallEarned(p)'
  BY <1>2 DEF CallEarned
<1>4. \A q \in Procs \ {p} : call'[q] = call[q]
  BY <1>1 DEF EarnedInv, LedgerTypeOK
<1> QED  BY <1>1, <1>3, <1>4, QuietEarned

LEMMA EvaluateEarned ==
  ASSUME EarnedInv, LedgerTypeOK', NEW p \in Procs, NEW a \in Attempts,
         NEW consistent \in BOOLEAN, NEW provider \in BOOLEAN, NEW t \in Time,
         Evaluate(p, a, consistent, provider, t)
  PROVE  EarnedInv'
<1> DEFINE verdict == EvaluateValidation(The("CALIBRATOR_TRAINED", a).metrics)
<1>1. verdict # "ELEGIBLE"
  BY VerdictTypes
<1>2. call'[p].at \in {"phase1", "final"} /\ UNCHANGED ledger
  BY DEF Evaluate, EarnedInv, LedgerTypeOK
<1>3. call'[p].verdict # "ELEGIBLE"
  <2>1. call'[p].verdict = IF consistent THEN verdict ELSE "ERROR"
    BY DEF Evaluate, EarnedInv, LedgerTypeOK
  <2> QED  BY <1>1, <2>1
<1>4. CallEarned(p)'
  BY <1>2, <1>3 DEF CallEarned
<1>5. \A q \in Procs \ {p} : call'[q] = call[q]
  BY DEF Evaluate, EarnedInv, LedgerTypeOK
<1> QED  BY <1>2, <1>4, <1>5, QuietEarned

LEMMA CheckTestEarned ==
  ASSUME EarnedInv, LedgerTypeOK', NEW p \in Procs, CheckTest(p)
  PROVE  EarnedInv'
<1>1. call[p] \in Evaluating(StepsBefore, {"UNREAD"}) /\ call[p].at = "check_test"
  BY CallTypes DEF EarnedInv, LedgerTypeOK, CheckTest, Reached, StepsBefore
<1>2. PICK allowed \in BOOLEAN :
        call' = [call EXCEPT ![p] = [call[p] EXCEPT
                    !.at = IF allowed THEN "test_read" ELSE "final",
                    !.verdict = IF allowed THEN call[p].verdict ELSE "ERROR"]]
  BY DEF CheckTest
<1>3. /\ call'[p].at = IF allowed THEN "test_read" ELSE "final"
      /\ ~allowed => call'[p].verdict = "ERROR"
      /\ call'[p].attempt = call[p].attempt
  BY <1>1, <1>2 DEF Evaluating, EarnedInv, LedgerTypeOK
<1>4. PreliminaryWritten(call[p].attempt)
  BY <1>1 DEF EarnedInv, CallEarned
<1>5. UNCHANGED ledger
  BY DEF CheckTest
<1>6. PreliminaryWritten(call[p].attempt)'
  <2>1. Kept
    BY <1>5 DEF Kept
  <2>2. \A a : PreliminaryWritten(a) => PreliminaryWritten(a)'
    BY <2>1, ProgressKept DEF EarnedInv
  <2> QED  BY <1>3, <1>4, <2>2
<1>7. CallEarned(p)'
  BY <1>3, <1>6 DEF CallEarned
<1>8. \A q \in Procs \ {p} : call'[q] = call[q]
  BY <1>2 DEF EarnedInv, LedgerTypeOK
<1> QED  BY <1>5, <1>7, <1>8, QuietEarned

\* The veto says ELEGIBLE only of a reading whose status is OK.
LEMMA ReadTestEarned ==
  ASSUME EarnedInv, LedgerTypeOK', NEW p \in Procs, NEW o \in Outcomes, ReadTest(p, o)
  PROVE  EarnedInv'
<1>1. call[p] \in Evaluating(StepsBefore, {"UNREAD"}) /\ call[p].at = "provider"
  BY CallTypes DEF EarnedInv, LedgerTypeOK, ReadTest, Reached, StepsBefore
<1>2. /\ call'[p].at = "test_result" /\ call'[p].attempt = call[p].attempt
      /\ call'[p].status = Status(o) /\ call'[p].verdict = EvaluateTestVeto(o)
  BY <1>1 DEF ReadTest, Evaluating, EarnedInv, LedgerTypeOK
<1>3. ReadingWritten(call[p].attempt)
  BY <1>1 DEF EarnedInv, CallEarned
<1>4. UNCHANGED ledger
  BY DEF ReadTest
<1>5. ReadingWritten(call[p].attempt)'
  <2>1. Kept
    BY <1>4 DEF Kept
  <2>2. \A a : ReadingWritten(a) => ReadingWritten(a)'
    BY <2>1, ProgressKept DEF EarnedInv
  <2> QED  BY <1>2, <1>3, <2>2
<1>6. CallEarned(p)'
  BY <1>2, <1>5, ElegibleMeansOK DEF CallEarned
<1>7. \A q \in Procs \ {p} : call'[q] = call[q]
  BY DEF ReadTest, EarnedInv, LedgerTypeOK
<1> QED  BY <1>4, <1>6, <1>7, QuietEarned

(* The steps that write. *)

\* A step that writes anything but an ELEGIBLE keeps all that was earned.
LEMMA WritingEarned ==
  ASSUME EarnedInv, LedgerTypeOK', Kept, NEW e, OnlyNew(e),
         e.type = "FINAL_VERDICT" => e.payload.verdict # "ELEGIBLE",
         NEW p \in Procs, CallEarned(p)', \A q \in Procs \ {p} : call'[q] = call[q]
  PROVE  EarnedInv'
<1>1. VerdictsEarned'
  BY OldVerdictsEarned DEF EarnedInv, OnlyNew
<1>2. \A q \in Procs : CallEarned(q)'
  BY OthersKeepEarned DEF EarnedInv
<1> QED  BY <1>1, <1>2 DEF EarnedInv

\* The entry that was written is there, after all that was.
LEMMA WrittenLast ==
  ASSUME LedgerTypeOK, NEW e \in AllEntries, ledger' = Append(ledger, e)
  PROVE  \E n \in DOMAIN ledger' : ledger'[n] = e /\ \A j \in DOMAIN ledger : j < n
<1>1. Len(ledger) \in Nat /\ DOMAIN ledger = 1 .. Len(ledger)
  BY DEF LedgerTypeOK
<1>2. DOMAIN ledger' = 1 .. Len(ledger) + 1 /\ ledger'[Len(ledger) + 1] = e
  BY <1>1 DEF LedgerTypeOK, AllEntries
<1> QED  BY <1>1, <1>2

LEMMA RegisterEarned ==
  ASSUME EarnedInv, LedgerTypeOK', NEW p \in Procs, Register(p)
  PROVE  EarnedInv'
<1>1. call[p].entry \in RegisteredEntries /\ Kept /\ OnlyNew(call[p].entry)
  BY RegisterTypes DEF EarnedInv
<1>2. call[p].entry.type # "FINAL_VERDICT"
  BY <1>1 DEF RegisteredEntries, Written
<1>3. call'[p].at = "idle"
  BY DEF Register, EarnedInv, LedgerTypeOK, Idle
<1>4. CallEarned(p)'
  BY <1>3 DEF CallEarned
<1>5. \A q \in Procs \ {p} : call'[q] = call[q]
  BY DEF Register, EarnedInv, LedgerTypeOK
<1> QED  BY <1>1, <1>2, <1>4, <1>5, WritingEarned

LEMMA WritePhase1Earned ==
  ASSUME EarnedInv, LedgerTypeOK', NEW p \in Procs, WritePhase1(p)
  PROVE  EarnedInv'
<1> DEFINE e == Entry("PHASE1_VERDICT", call[p].attempt, [verdict |-> call[p].verdict], call[p].time)
<1>1. call[p] \in Evaluating(StepsBefore, {"UNREAD"}) /\ call[p].at = "phase1"
  BY CallTypes DEF EarnedInv, LedgerTypeOK, WritePhase1, Reached, StepsBefore
<1>2. LedgerTypeOK /\ Kept /\ OnlyNew(e)
  BY WritePhase1Types DEF EarnedInv
<1>3. ledger' = Append(ledger, e) /\ e \in AllEntries
  BY <1>1 DEF WritePhase1, Write, Append_, Entry, AllEntries, EvaluationEntries, Written, Evaluating
<1>4. /\ call'[p].attempt = call[p].attempt /\ call'[p].verdict = call[p].verdict
      /\ call'[p].at = IF call[p].verdict = "ELEGIBLE_PRELIMINAR" THEN "check_test" ELSE "final"
  BY <1>1, <1>2 DEF WritePhase1, Write, Evaluating, LedgerTypeOK
<1>5. ASSUME call[p].verdict = "ELEGIBLE_PRELIMINAR"
      PROVE  PreliminaryWritten(call[p].attempt)'
  <2>1. PICK n \in DOMAIN ledger' : ledger'[n] = e
    BY <1>2, <1>3, WrittenLast
  <2>2. /\ ledger'[n].type = "PHASE1_VERDICT" /\ ledger'[n].of = call'[p].attempt
        /\ ledger'[n].payload.verdict = "ELEGIBLE_PRELIMINAR"
    BY <1>4, <1>5, <2>1 DEF Entry
  <2> QED  BY <2>2 DEF PreliminaryWritten, Places
<1>6. call[p].verdict # "ELEGIBLE"
  BY <1>1 DEF EarnedInv, CallEarned
<1>7. CallEarned(p)'
  BY <1>4, <1>5, <1>6 DEF CallEarned
<1>8. \A q \in Procs \ {p} : call'[q] = call[q]
  BY <1>2 DEF WritePhase1, Write, LedgerTypeOK
<1>9. e.type # "FINAL_VERDICT"
  BY DEF Entry
<1> QED  BY <1>2, <1>7, <1>8, <1>9, WritingEarned

LEMMA WriteTestReadEarned ==
  ASSUME EarnedInv, LedgerTypeOK', NEW p \in Procs, WriteTestRead(p)
  PROVE  EarnedInv'
<1> DEFINE e == Entry("TEST_READ", call[p].attempt, [key |-> call[p].key], call[p].time)
<1>1. call[p] \in Evaluating(StepsBefore, {"UNREAD"}) /\ call[p].at = "test_read"
  BY CallTypes DEF EarnedInv, LedgerTypeOK, WriteTestRead, Reached, StepsBefore
<1>2. LedgerTypeOK /\ Kept /\ OnlyNew(e)
  BY WriteTestReadTypes DEF EarnedInv
<1>3. ledger' = Append(ledger, e) /\ e \in AllEntries
  BY <1>1 DEF WriteTestRead, Write, Append_, Entry, AllEntries, EvaluationEntries, Written, Evaluating
<1>4. call'[p].attempt = call[p].attempt /\ call'[p].at = "provider"
  BY <1>1, <1>2 DEF WriteTestRead, Write, Evaluating, LedgerTypeOK
<1>5. ReadingWritten(call[p].attempt)'
  <2>1. PICK n \in DOMAIN ledger' : ledger'[n] = e /\ \A j \in DOMAIN ledger : j < n
    BY <1>2, <1>3, WrittenLast
  <2>2. PICK j \in Places("PHASE1_VERDICT", call[p].attempt) :
            ledger[j].payload.verdict = "ELEGIBLE_PRELIMINAR"
    BY <1>1 DEF EarnedInv, CallEarned, PreliminaryWritten
  <2>3. j < n /\ j \in DOMAIN ledger' /\ ledger'[j] = ledger[j]
    BY <1>2, <2>1, <2>2 DEF Places, Kept
  <2>4. ledger'[n].type = "TEST_READ" /\ ledger'[n].of = call'[p].attempt
    BY <1>4, <2>1 DEF Entry
  <2>5. ledger'[j].type = "PHASE1_VERDICT" /\ ledger'[j].of = call'[p].attempt
    BY <1>4, <2>2, <2>3 DEF Places
  <2> QED  BY <2>2, <2>3, <2>4, <2>5 DEF ReadingWritten, Places
<1>6. CallEarned(p)'
  BY <1>4, <1>5 DEF CallEarned
<1>7. \A q \in Procs \ {p} : call'[q] = call[q]
  BY <1>2 DEF WriteTestRead, Write, LedgerTypeOK
<1>8. e.type # "FINAL_VERDICT"
  BY DEF Entry
<1> QED  BY <1>2, <1>6, <1>7, <1>8, WritingEarned

LEMMA WriteTestResultEarned ==
  ASSUME EarnedInv, LedgerTypeOK', NEW p \in Procs, WriteTestResult(p)
  PROVE  EarnedInv'
<1> DEFINE e == Entry("TEST_RESULT", call[p].attempt, [status |-> call[p].status], call[p].time)
<1>1. call[p] \in Evaluating({"test_result"}, Statuses) /\ call[p].at = "test_result"
  BY CallTypes DEF EarnedInv, LedgerTypeOK, WriteTestResult, Reached
<1>2. LedgerTypeOK /\ Kept /\ OnlyNew(e)
  BY WriteTestResultTypes DEF EarnedInv
<1>3. ledger' = Append(ledger, e) /\ e \in AllEntries
  BY <1>1 DEF WriteTestResult, Write, Append_, Entry, AllEntries, EvaluationEntries, Written, Evaluating
<1>4. /\ call'[p].attempt = call[p].attempt /\ call'[p].at = "final"
      /\ call'[p].verdict = call[p].verdict
  BY <1>1, <1>2 DEF WriteTestResult, Write, Evaluating, LedgerTypeOK
<1>5. ASSUME call[p].verdict = "ELEGIBLE"
      PROVE  ResultWritten(call[p].attempt)'
  <2>1. PICK n \in DOMAIN ledger' : ledger'[n] = e /\ \A j \in DOMAIN ledger : j < n
    BY <1>2, <1>3, WrittenLast
  <2>2. PICK j \in Places("PHASE1_VERDICT", call[p].attempt), k \in Places("TEST_READ", call[p].attempt) :
            j < k /\ ledger[j].payload.verdict = "ELEGIBLE_PRELIMINAR"
    BY <1>1 DEF EarnedInv, CallEarned, ReadingWritten
  <2>3. call[p].status = "OK"
    BY <1>1, <1>5 DEF EarnedInv, CallEarned
  <2>4. /\ k < n /\ j \in DOMAIN ledger' /\ ledger'[j] = ledger[j]
        /\ k \in DOMAIN ledger' /\ ledger'[k] = ledger[k]
    BY <1>2, <2>1, <2>2 DEF Places, Kept
  <2>5. /\ ledger'[n].type = "TEST_RESULT" /\ ledger'[n].of = call'[p].attempt
        /\ ledger'[n].payload.status = "OK"
    BY <1>4, <2>1, <2>3 DEF Entry
  <2>6. /\ ledger'[j].type = "PHASE1_VERDICT" /\ ledger'[j].of = call'[p].attempt
        /\ ledger'[k].type = "TEST_READ" /\ ledger'[k].of = call'[p].attempt
    BY <1>4, <2>2, <2>4 DEF Places
  <2> QED  BY <2>2, <2>4, <2>5, <2>6 DEF ResultWritten, Places
<1>6. CallEarned(p)'
  BY <1>4, <1>5 DEF CallEarned
<1>7. \A q \in Procs \ {p} : call'[q] = call[q]
  BY <1>2 DEF WriteTestResult, Write, LedgerTypeOK
<1>8. e.type # "FINAL_VERDICT"
  BY DEF Entry
<1> QED  BY <1>2, <1>6, <1>7, <1>8, WritingEarned

\* Where the ledger shows that a verdict placed at i was earned.
EarnedBefore(i, a) ==
    \E j \in Places("PHASE1_VERDICT", a), k \in Places("TEST_READ", a), l \in Places("TEST_RESULT", a) :
        /\ j < k /\ k < l /\ l < i
        /\ ledger[j].payload.verdict = "ELEGIBLE_PRELIMINAR" /\ ledger[l].payload.status = "OK"

LEMMA EarnedBeforeKept ==
  ASSUME LedgerTypeOK, Kept, NEW i, NEW a, EarnedBefore(i, a)
  PROVE  EarnedBefore(i, a)'
BY DEF Kept, EarnedBefore, Places

\* The final verdict stands on what the ledger already has of its attempt.
LEMMA WriteFinalEarned ==
  ASSUME EarnedInv, LedgerTypeOK', NEW p \in Procs, WriteFinal(p)
  PROVE  EarnedInv'
<1> DEFINE a == call[p].attempt
           e == Entry("FINAL_VERDICT", a, [verdict |-> call[p].verdict], call[p].time)
<1>1. LedgerTypeOK /\ Kept /\ OnlyNew(e) /\ call[p].at = "final"
  BY WriteFinalTypes DEF EarnedInv, WriteFinal, Reached
<1>2. ASSUME NEW i \in DOMAIN ledger', ledger'[i].type = "FINAL_VERDICT",
             ledger'[i].payload.verdict = "ELEGIBLE", NEW of, of = ledger'[i].of
      PROVE  EarnedBefore(i, of)'
  <2>1. CASE i \in DOMAIN ledger
    <3>1. ledger'[i] = ledger[i]
      BY <1>1, <2>1 DEF Kept
    <3>2. EarnedBefore(i, of)
      BY <1>2, <2>1, <3>1 DEF EarnedInv, VerdictsEarned, All, EarnedBefore
    <3> QED  BY <1>1, <3>2, EarnedBeforeKept
  <2>2. CASE i \notin DOMAIN ledger
    <3>1. ledger'[i] = e /\ \A j \in DOMAIN ledger : j < i
      BY <1>1, <1>2, <2>2 DEF OnlyNew
    <3>2. of = a /\ call[p].verdict = "ELEGIBLE"
      BY <1>2, <3>1 DEF Entry
    <3>3. ResultWritten(a)
      BY <1>1, <3>2 DEF EarnedInv, CallEarned
    <3>4. EarnedBefore(i, a)
      BY <3>1, <3>3 DEF ResultWritten, EarnedBefore, Places
    <3> QED  BY <1>1, <3>2, <3>4, EarnedBeforeKept
  <2> QED  BY <2>1, <2>2
<1>3. VerdictsEarned'
  BY <1>2 DEF VerdictsEarned, All, EarnedBefore
<1>4. call'[p].at = "idle" /\ \A q \in Procs \ {p} : call'[q] = call[q]
  BY <1>1 DEF WriteFinal, LedgerTypeOK, Idle
<1>5. \A q \in Procs : CallEarned(q)'
  <2>1. CallEarned(p)'
    BY <1>4 DEF CallEarned
  <2> QED  BY <1>1, <1>4, <2>1, OthersKeepEarned DEF EarnedInv
<1> QED  BY <1>3, <1>5 DEF EarnedInv

LEMMA EarnedStep ==
  ASSUME EarnedInv, [Next]_vars
  PROVE  EarnedInv'
<1>0. LedgerTypeOK'
  BY TypeStep DEF EarnedInv
<1>1. CASE UNCHANGED vars
  BY <1>0, <1>1 DEF EarnedInv, VerdictsEarned, CallEarned, PreliminaryWritten, ReadingWritten,
     ResultWritten, All, Places, vars
<1>2. ASSUME NEW p \in Procs, \E e : Prepare(p, e)
      PROVE  EarnedInv'
  BY <1>0, <1>2, PreparedEarned
<1>3. ASSUME NEW p \in Procs, NEW t \in Time,
             \/ \E r \in Preregs, signed_at \in Time : SignPrereg(p, r, signed_at, t)
             \/ \E a \in Attempts :
                \/ \E m \in Manifests : FreezeSnapshot(p, a, m, t) \/ RegisterBase(p, a, m, t)
                \/ \E metrics \in Metrics : RegisterCalibrator(p, a, metrics, t)
                \/ AbandonAttempt(p, a, t)
      PROVE  EarnedInv'
  BY <1>2, <1>3 DEF SignPrereg, FreezeSnapshot, RegisterBase, RegisterCalibrator, AbandonAttempt
<1>4. ASSUME NEW p \in Procs, NEW a \in Attempts, NEW t \in Time,
             \E consistent, provider \in BOOLEAN : Evaluate(p, a, consistent, provider, t)
      PROVE  EarnedInv'
  BY <1>0, <1>4, EvaluateEarned
<1>5. ASSUME NEW p \in Procs,
             \/ Register(p) \/ WritePhase1(p) \/ WriteTestRead(p) \/ WriteTestResult(p)
             \/ WriteFinal(p)
      PROVE  EarnedInv'
  BY <1>0, <1>5, RegisterEarned, WritePhase1Earned, WriteTestReadEarned, WriteTestResultEarned,
     WriteFinalEarned
<1>6. ASSUME NEW p \in Procs,
             CheckTest(p) \/ (\E o \in Outcomes : ReadTest(p, o)) \/ Refuse(p) \/ Kill(p)
      PROVE  EarnedInv'
  BY <1>0, <1>6, CheckTestEarned, ReadTestEarned, StoppedEarned
<1> QED  BY <1>1, <1>3, <1>4, <1>5, <1>6 DEF Next

\* However calls overlap and processes are killed, an ELEGIBLE in the ledger is
\* preceded by its preliminary verdict, its reading and a valid result.
THEOREM VerdictsAlwaysEarned == Spec => []VerdictsEarned
<1>1. Init => EarnedInv
  <2>1. ASSUME Init
        PROVE  VerdictsEarned /\ \A p \in Procs : CallEarned(p)
    BY <2>1 DEF Init, VerdictsEarned, CallEarned, All, Idle
  <2> QED  BY <2>1, TypeInit DEF EarnedInv
<1>2. EarnedInv /\ [Next]_vars => EarnedInv'
  BY EarnedStep
<1>3. EarnedInv => VerdictsEarned
  BY DEF EarnedInv
<1> QED  BY <1>1, <1>2, <1>3, PTL DEF Spec
-----------------------------------------------------------------------------
(* The order of the ledger. What the governance asks is a condition on an      *)
(* entry and the lines above it; what a call knows of the ledger makes the     *)
(* entry it is about to write meet it. Of two calls that overlap, the second   *)
(* may be wrong about the lines it has not seen: those conditions are kept as  *)
(* long as nobody overlaps (InTurn), the others whatever happens (Before).     *)

Closing == {"FINAL_VERDICT", "ATTEMPT_ABANDONED"}
Closes(k, a) == ledger[k].type \in Closing /\ ledger[k].of = a

\* What an entry e at the place n rests on is above it.
Before(n, e) ==
    /\ e.type = "BASE_TRAINED" =>
        /\ Follows(n, "SNAPSHOT_FROZEN", e.of)
        /\ \E j \in Places("PREREG_SIGNED", e.payload.manifest.prereg_id) :
            j < n /\ ledger[j].time < e.payload.manifest.trained_at
    /\ e.type = "CALIBRATOR_TRAINED" => Follows(n, "BASE_TRAINED", e.of)
    /\ e.type = "PHASE1_VERDICT" => Follows(n, "CALIBRATOR_TRAINED", e.of)
    /\ e.type \in Closing => Follows(n, "SNAPSHOT_FROZEN", e.of)

Grows(earlier, later) ==
    /\ earlier.cutoff < later.cutoff
    /\ Labeled(earlier) \subseteq Labeled(later)
    /\ Cardinality(later.validation \ Labeled(earlier)) >= MinNewValidation

\* The three lines above n are those of an evaluation of a that went through.
Evaluated(n, a) ==
    /\ n > 3
    /\ n - 3 \in Places("PHASE1_VERDICT", a)
    /\ n - 2 \in Places("TEST_READ", a)
    /\ n - 1 \in Places("TEST_RESULT", a)

\* Nothing above the place n is against an entry e there.
InTurn(n, e) ==
    /\ e.type = "TEST_READ" => \A i \in All("TEST_READ") : i < n => ledger[i].payload # e.payload
    /\ e.type = "SNAPSHOT_FROZEN" => \A i \in All("SNAPSHOT_FROZEN") : i < n =>
        /\ ledger[i].of # e.of
        /\ Grows(ledger[i].payload.manifest, e.payload.manifest)
        /\ \E k \in DOMAIN ledger : i < k /\ k < n /\ Closes(k, ledger[i].of)
    /\ e.type \in Evaluation => \A k \in DOMAIN ledger : k < n => ~Closes(k, e.of)
    /\ e.type = "FINAL_VERDICT" /\ e.payload.verdict = "ELEGIBLE" => Evaluated(n, e.of)

MayStand(n, e) == Before(n, e) /\ (overlaps = 0 => InTurn(n, e))
Ordered == \A n \in DOMAIN ledger : MayStand(n, ledger[n])

OneAtATime == overlaps = 0 =>
    \A p, q \in Procs : call[p] # Idle /\ call[q] # Idle => p = q

NextLine == Len(ledger) + 1

\* The last lines are those of the evaluation of a, up to this step.
Trace(c) ==
    /\ c.at \in {"check_test", "test_read"} => NextLine - 1 \in Places("PHASE1_VERDICT", c.attempt)
    /\ c.at \in {"provider", "test_result"} =>
        NextLine - 2 \in Places("PHASE1_VERDICT", c.attempt) /\ NextLine - 1 \in Places("TEST_READ", c.attempt)
    /\ c.at = "final" /\ c.verdict = "ELEGIBLE" => Evaluated(NextLine, c.attempt)

Knows(c) ==
    /\ c.at = "register" => MayStand(NextLine, c.entry)
    /\ c.at \in Steps =>
        /\ Has("SNAPSHOT_FROZEN", c.attempt) /\ Has("CALIBRATOR_TRAINED", c.attempt)
        /\ overlaps = 0 => ~Closed(c.attempt) /\ Trace(c)
    /\ c.at = "test_read" /\ overlaps = 0 => ~TestWasRead(c.key)

OrderInv == EarnedInv /\ Ordered /\ OneAtATime /\ \A p \in Procs : Knows(call[p])

\* An entry keeps what it rests on.
LEMMA BeforeKept ==
  ASSUME LedgerTypeOK, Kept, NEW n \in Int, NEW m \in Int, n <= m, NEW e, Before(n, e)
  PROVE  Before(m, e)'
<1>1. \A i \in DOMAIN ledger : i \in Nat
  BY DEF LedgerTypeOK
<1>2. \A type, of : Follows(n, type, of) => Follows(m, type, of)'
  BY <1>1 DEF Follows, Places, Kept
<1>3. ASSUME NEW j \in Places("PREREG_SIGNED", e.payload.manifest.prereg_id),
             j < n, ledger[j].time < e.payload.manifest.trained_at
      PROVE  /\ j \in Places("PREREG_SIGNED", e.payload.manifest.prereg_id)' /\ j < m
             /\ ledger'[j].time < e.payload.manifest.trained_at
  BY <1>1, <1>3 DEF Places, Kept
<1> QED  BY <1>2, <1>3 DEF Before

\* What is above an entry does not change.
LEMMA InTurnKept ==
  ASSUME LedgerTypeOK, Kept, NEW n \in Int, NEW e,
         \A i \in DOMAIN ledger' : i < n => i \in DOMAIN ledger, InTurn(n, e)
  PROVE  InTurn(n, e)'
<1>1. \A i \in DOMAIN ledger : i \in Nat /\ ledger'[i] = ledger[i] /\ i \in DOMAIN ledger'
  BY DEF LedgerTypeOK, Kept
<1>2. \A type : \A i \in All(type)' : i < n => i \in All(type) /\ ledger'[i] = ledger[i]
  BY <1>1 DEF All
<1>3. \A k \in DOMAIN ledger : \A a : Closes(k, a)' <=> Closes(k, a)
  BY <1>1 DEF Closes
<1>4. e.type = "TEST_READ" => \A i \in All("TEST_READ")' : i < n => ledger'[i].payload # e.payload
  BY <1>2 DEF InTurn
<1>5. ASSUME e.type = "SNAPSHOT_FROZEN", NEW i \in All("SNAPSHOT_FROZEN")', i < n
      PROVE  /\ ledger'[i].of # e.of
             /\ Grows(ledger'[i].payload.manifest, e.payload.manifest)
             /\ \E k \in DOMAIN ledger' : i < k /\ k < n /\ Closes(k, ledger[i].of)'
  <2>1. i \in All("SNAPSHOT_FROZEN") /\ ledger'[i] = ledger[i]
    BY <1>2, <1>5
  <2>2. PICK k \in DOMAIN ledger : i < k /\ k < n /\ Closes(k, ledger[i].of)
    BY <1>5, <2>1 DEF InTurn
  <2>3. Closes(k, ledger[i].of)'
    BY <1>1, <2>1, <2>2 DEF Closes
  <2> QED  BY <1>1, <1>5, <2>1, <2>2, <2>3 DEF InTurn
<1>6. e.type \in Evaluation => \A k \in DOMAIN ledger' : k < n => ~Closes(k, e.of)'
  BY <1>1 DEF InTurn, Closes
<1>7. Evaluated(n, e.of) => Evaluated(n, e.of)'
  BY <1>1 DEF Evaluated, Places
<1>8. e.type = "FINAL_VERDICT" /\ e.payload.verdict = "ELEGIBLE" => Evaluated(n, e.of)'
  BY <1>7 DEF InTurn
<1> QED  BY <1>4, <1>5, <1>6, <1>8 DEF InTurn

LEMMA MayStandKept ==
  ASSUME LedgerTypeOK, Kept, NEW n \in Int, NEW e,
         \A i \in DOMAIN ledger' : i < n => i \in DOMAIN ledger,
         overlaps' = 0 => overlaps = 0, MayStand(n, e)
  PROVE  MayStand(n, e)'
BY BeforeKept, InTurnKept DEF MayStand

\* A call keeps what it knows while others work, unless it overlaps with them.
LEMMA OthersKnow ==
  ASSUME LedgerTypeOK, LedgerTypeOK', Kept, NEW c, Knows(c), overlaps' = 0 => c = Idle
  PROVE  Knows(c)'
<1>1. Len(ledger) \in Nat /\ Len(ledger') \in Nat /\ Len(ledger) <= Len(ledger')
  <2>1. DOMAIN ledger = 1 .. Len(ledger) /\ DOMAIN ledger' = 1 .. Len(ledger')
        /\ Len(ledger) \in Nat /\ Len(ledger') \in Nat
    BY DEF LedgerTypeOK
  <2> QED  BY <2>1 DEF Kept
<1>2. CASE c = Idle
  BY <1>2 DEF Knows, Idle, Steps, StepsBefore
<1>3. CASE c # Idle
  <2>1. overlaps' # 0
    BY <1>3
  <2>2. PICK n : n = NextLine
    OBVIOUS
  <2>3. PICK m : m = NextLine'
    OBVIOUS
  <2>4. n \in Int /\ m \in Int /\ n <= m
    BY <1>1, <2>2, <2>3 DEF NextLine
  <2>5. ASSUME c.at = "register"
        PROVE  MayStand(NextLine, c.entry)'
    <3>1. PICK e : e = c.entry
      OBVIOUS
    <3>2. Before(n, e)
      BY <2>2, <2>5, <3>1 DEF Knows, MayStand
    <3>3. Before(m, e)'
      BY <2>4, <3>2, BeforeKept
    <3> QED  BY <2>1, <2>3, <3>1, <3>3 DEF MayStand
  <2>6. \A type, a : Has(type, a) => Has(type, a)'
    BY DEF Has, Places, Kept
  <2> QED  BY <2>1, <2>5, <2>6 DEF Knows
<1> QED  BY <1>2, <1>3

\* Nobody else is at work in a ledger without overlaps.
LEMMA AloneStays ==
  ASSUME LedgerTypeOK, NEW p \in Procs, \A q \in Procs \ {p} : call'[q] = call[q],
         overlaps' = 0 => \A q \in Procs \ {p} : call[q] = Idle
  PROVE  OneAtATime'
<1>1. \A q \in Procs \ {p} : overlaps' = 0 => call'[q] = Idle
  OBVIOUS
<1> QED  BY <1>1 DEF OneAtATime

\* A step that writes nothing.
LEMMA QuietOrdered ==
  ASSUME OrderInv, EarnedInv', UNCHANGED ledger, NEW p \in Procs,
         \A q \in Procs \ {p} : call'[q] = call[q],
         overlaps' = 0 => overlaps = 0 /\ \A q \in Procs \ {p} : call[q] = Idle,
         Knows(call[p])'
  PROVE  OrderInv'
<1>0. LedgerTypeOK /\ LedgerTypeOK' /\ Kept /\ DOMAIN ledger' = DOMAIN ledger
  BY DEF OrderInv, EarnedInv, Kept
<1>1. OneAtATime'
  BY <1>0, AloneStays
<1>2. Ordered'
  <2>1. SUFFICES ASSUME NEW n \in DOMAIN ledger'
                 PROVE  MayStand(n, ledger[n])'
    BY DEF Ordered
  <2>2. PICK e : e = ledger[n]
    OBVIOUS
  <2>3. MayStand(n, e) /\ n \in Int
    BY <1>0, <2>1, <2>2 DEF OrderInv, Ordered, LedgerTypeOK
  <2>4. MayStand(n, e)'
    BY <1>0, <2>3, MayStandKept
  <2> QED  BY <2>2, <2>4
<1>3. \A q \in Procs : Knows(call[q])'
  <2>1. SUFFICES ASSUME NEW q \in Procs \ {p}
                 PROVE  Knows(call[q])'
    OBVIOUS
  <2>2. PICK c : c = call[q]
    OBVIOUS
  <2>3. Knows(c)
    BY <2>2 DEF OrderInv
  <2>4. Knows(c)'
    BY <1>0, <2>1, <2>2, <2>3, OthersKnow
  <2> QED  BY <2>1, <2>2, <2>4
<1> QED  BY <1>1, <1>2, <1>3 DEF OrderInv

\* A step that writes an entry of which the call knows that it may stand there.
LEMMA AppendOrdered ==
  ASSUME OrderInv, EarnedInv', NEW e \in AllEntries, ledger' = Append(ledger, e),
         MayStand(NextLine, e), NEW p \in Procs, call[p] # Idle,
         \A q \in Procs \ {p} : call'[q] = call[q], UNCHANGED overlaps,
         Knows(call[p])'
  PROVE  OrderInv'
<1>0. /\ LedgerTypeOK /\ LedgerTypeOK' /\ Kept /\ OnlyNew(e)
      /\ Len(ledger) \in Nat /\ DOMAIN ledger = 1 .. Len(ledger)
      /\ DOMAIN ledger' = 1 .. Len(ledger) + 1 /\ ledger'[Len(ledger) + 1] = e
  BY AppendKeeps DEF OrderInv, EarnedInv, LedgerTypeOK, AllEntries
<1>1. overlaps' = 0 => \A q \in Procs \ {p} : call[q] = Idle
  BY DEF OrderInv, OneAtATime
<1>2. OneAtATime'
  BY <1>0, <1>1, AloneStays
<1>3. Ordered'
  <2>1. SUFFICES ASSUME NEW n \in DOMAIN ledger'
                 PROVE  MayStand(n, ledger[n])'
    BY DEF Ordered
  <2>2. PICK f : f = ledger'[n]
    OBVIOUS
  <2>3. n \in Int /\ \A i \in DOMAIN ledger' : i < n => i \in DOMAIN ledger
    BY <1>0, <2>1
  <2>4. MayStand(n, f)
    <3>1. CASE n \in DOMAIN ledger
      BY <1>0, <2>2, <3>1 DEF OrderInv, Ordered, Kept
    <3>2. CASE n \notin DOMAIN ledger
      BY <1>0, <2>1, <2>2, <3>2 DEF NextLine
    <3> QED  BY <3>1, <3>2
  <2>5. MayStand(n, f)'
    BY <1>0, <2>3, <2>4, MayStandKept
  <2> QED  BY <2>2, <2>5
<1>4. \A q \in Procs : Knows(call[q])'
  <2>1. SUFFICES ASSUME NEW q \in Procs \ {p}
                 PROVE  Knows(call[q])'
    OBVIOUS
  <2>2. PICK c : c = call[q]
    OBVIOUS
  <2>3. Knows(c)
    BY <2>2 DEF OrderInv
  <2>4. Knows(c)'
    BY <1>0, <1>1, <2>1, <2>2, <2>3, OthersKnow
  <2> QED  BY <2>1, <2>2, <2>4
<1> QED  BY <1>2, <1>3, <1>4 DEF OrderInv

(* What each call knows when it has looked at the ledger. *)

LEMMA AboveNextLine ==
  ASSUME LedgerTypeOK
  PROVE  NextLine \in Nat /\ \A i \in DOMAIN ledger : i \in Nat /\ i < NextLine
BY DEF LedgerTypeOK, NextLine

LEMMA BeginAlone ==
  ASSUME LedgerTypeOK, NEW p \in Procs, Begin(p)
  PROVE  overlaps' = 0 => overlaps = 0 /\ \A q \in Procs \ {p} : call[q] = Idle
BY DEF LedgerTypeOK, Begin

LEMMA WorkAlone ==
  ASSUME OrderInv, NEW p \in Procs, call[p] # Idle, UNCHANGED overlaps
  PROVE  overlaps' = 0 => overlaps = 0 /\ \A q \in Procs \ {p} : call[q] = Idle
BY DEF OrderInv, OneAtATime

\* An entry that may stand on the next line now may be written by a later step.
LEMMA PreparedOrdered ==
  ASSUME OrderInv, EarnedInv', NEW p \in Procs, NEW e, Begin(p), Prepare(p, e),
         MayStand(NextLine, e)
  PROVE  OrderInv'
<1>1. /\ call'[p] = [at |-> "register", entry |-> e] /\ UNCHANGED ledger
      /\ \A q \in Procs \ {p} : call'[q] = call[q]
  BY DEF Prepare, OrderInv, EarnedInv, LedgerTypeOK
<1>2. overlaps' = 0 => overlaps = 0 /\ \A q \in Procs \ {p} : call[q] = Idle
  BY BeginAlone DEF OrderInv, EarnedInv
<1>3. PICK n : n = NextLine
  OBVIOUS
<1>4. LedgerTypeOK /\ Kept /\ n \in Int /\ n = NextLine'
  BY <1>1, <1>3, AboveNextLine DEF OrderInv, EarnedInv, Kept, NextLine
<1>5. MayStand(n, e)'
  BY <1>1, <1>2, <1>3, <1>4, MayStandKept
<1>6. Knows(call[p])'
  BY <1>1, <1>4, <1>5 DEF Knows, Steps, StepsBefore
<1> QED  BY <1>1, <1>2, <1>6, QuietOrdered

LEMMA SignOrdered ==
  ASSUME OrderInv, EarnedInv', NEW p \in Procs, NEW r, NEW signed_at, NEW t,
         SignPrereg(p, r, signed_at, t)
  PROVE  OrderInv'
<1>1. PICK e : e = Entry("PREREG_SIGNED", r, [signed_at |-> signed_at], t)
  OBVIOUS
<1>2. MayStand(NextLine, e)
  BY <1>1 DEF MayStand, Before, InTurn, Entry, Closing, Evaluation
<1> QED  BY <1>1, <1>2, PreparedOrdered DEF SignPrereg

\* An attempt that ended after its only snapshot ended between that one and now.
LEMMA EndedBetween ==
  ASSUME OrderInv, overlaps = 0, NEW i \in All("SNAPSHOT_FROZEN"), Closed(ledger[i].of)
  PROVE  \E k \in DOMAIN ledger : i < k /\ Closes(k, ledger[i].of)
<1>0. i \in DOMAIN ledger /\ \A j \in DOMAIN ledger : j \in Nat
  BY DEF OrderInv, EarnedInv, LedgerTypeOK, All
<1>1. PICK k \in DOMAIN ledger : Closes(k, ledger[i].of)
  BY DEF Closed, Has, Places, Closes, Closing
<1>2. Before(k, ledger[k])
  BY DEF OrderInv, Ordered, MayStand
<1>3. PICK j \in Places("SNAPSHOT_FROZEN", ledger[i].of) : j < k
  BY <1>1, <1>2 DEF Before, Closes, Follows
<1>4. j \in All("SNAPSHOT_FROZEN") /\ ledger[j].of = ledger[i].of
  BY <1>3 DEF Places, All
<1>5. InTurn(i, ledger[i]) /\ InTurn(j, ledger[j])
  BY <1>0, <1>4 DEF OrderInv, Ordered, MayStand, All
<1>6. ~(i < j) /\ ~(j < i)
  BY <1>4, <1>5 DEF InTurn, All
<1>7. i = j
  BY <1>0, <1>4, <1>6 DEF All
<1> QED  BY <1>1, <1>3, <1>7

\* A snapshot that the novelty check lets pass grows all those before.
LEMMA AllowedGrows ==
  ASSUME NEW m \in Manifests, NEW priors, AttemptAllowed(m, priors), NEW prior \in priors
  PROVE  /\ Labeled(prior) \subseteq Labeled(m)
         /\ Cardinality(m.validation \ Labeled(prior)) >= MinNewValidation
<1>1. priors # {}
  OBVIOUS
<1>2. /\ Seen(priors) \subseteq Labeled(m)
      /\ Cardinality(m.validation \ Seen(priors)) >= MinNewValidation
  BY <1>1 DEF AttemptAllowed
<1>3. Labeled(prior) \subseteq Seen(priors)
  BY DEF Seen
<1>4. IsFiniteSet(m.validation)
  <2>1. IsFiniteSet(m.train \cup m.validation \cup m.test)
    BY LedgerAssumption
  <2> QED  BY <2>1, FS_Subset
<1>5. IsFiniteSet(m.validation \ Labeled(prior))
  BY <1>4, FS_Subset
<1>6. m.validation \ Seen(priors) \subseteq m.validation \ Labeled(prior)
  BY <1>3
<1>7. /\ Cardinality(m.validation \ Seen(priors)) <= Cardinality(m.validation \ Labeled(prior))
      /\ IsFiniteSet(m.validation \ Seen(priors))
  BY <1>5, <1>6, FS_Subset
<1>8. /\ Cardinality(m.validation \ Seen(priors)) \in Nat
      /\ Cardinality(m.validation \ Labeled(prior)) \in Nat /\ MinNewValidation \in Nat
  BY <1>5, <1>7, FS_CardinalityType, LedgerAssumption
<1>9. Cardinality(m.validation \ Labeled(prior)) >= MinNewValidation
  BY <1>2, <1>7, <1>8
<1> QED  BY <1>2, <1>3, <1>9

LEMMA FreezeOrdered ==
  ASSUME OrderInv, EarnedInv', NEW p \in Procs, NEW a, NEW m \in Manifests, NEW t,
         FreezeSnapshot(p, a, m, t)
  PROVE  OrderInv'
<1>1. PICK e : e = Entry("SNAPSHOT_FROZEN", a, [manifest |-> m], t)
  OBVIOUS
<1>2. e.type = "SNAPSHOT_FROZEN" /\ e.of = a /\ e.payload.manifest = m
  BY <1>1 DEF Entry
<1>3. Before(NextLine, e)
  BY <1>2 DEF Before, Closing
<1>4. ASSUME overlaps = 0, NEW i \in All("SNAPSHOT_FROZEN")
      PROVE  /\ ledger[i].of # a
             /\ Grows(ledger[i].payload.manifest, m)
             /\ \E k \in DOMAIN ledger : i < k /\ k < NextLine /\ Closes(k, ledger[i].of)
  <2>1. ledger[i].of # a
    BY DEF FreezeSnapshot, Has, Places, All
  <2>2. ledger[i].of \in Frozen /\ ledger[i].payload.manifest \in Priors
    BY DEF Frozen, Priors
  <2>3. Closed(ledger[i].of)
    BY <2>2 DEF FreezeSnapshot
  <2>4. PICK prior : prior = ledger[i].payload.manifest
    OBVIOUS
  <2>5. prior \in Priors /\ prior \in Manifests
    BY <2>2, <2>4, EntryPayloads DEF OrderInv, EarnedInv, LedgerTypeOK, AllEntries, All
  <2>6. AttemptAllowed(m, Priors)
    BY DEF FreezeSnapshot
  <2>7. prior.cutoff < m.cutoff
    <3>1. m.cutoff > prior.cutoff
      BY <2>5, <2>6 DEF AttemptAllowed
    <3>2. m.cutoff \in Nat /\ prior.cutoff \in Nat
      BY <2>5, LedgerAssumption
    <3> QED  BY <3>1, <3>2
  <2>8. Grows(prior, m)
    BY <2>5, <2>6, <2>7, AllowedGrows DEF Grows
  <2>9. PICK k \in DOMAIN ledger : i < k /\ Closes(k, ledger[i].of)
    BY <1>4, <2>3, EndedBetween
  <2>10. k < NextLine
    BY AboveNextLine DEF OrderInv, EarnedInv
  <2> QED  BY <2>1, <2>4, <2>8, <2>9, <2>10
<1>5. overlaps = 0 => InTurn(NextLine, e)
  BY <1>2, <1>4 DEF InTurn, Evaluation
<1> QED  BY <1>1, <1>3, <1>5, PreparedOrdered DEF FreezeSnapshot, MayStand

LEMMA HasFollows ==
  ASSUME LedgerTypeOK, NEW type, NEW of, Has(type, of)
  PROVE  Follows(NextLine, type, of)
BY AboveNextLine DEF Has, Places, Follows

\* The preregistration that was looked at is older than the model.
LEMMA PrecedesMeans ==
  ASSUME LedgerTypeOK, NEW r, NEW trained_at, PreregPrecedes(r, trained_at)
  PROVE  \E j \in Places("PREREG_SIGNED", r) : j < NextLine /\ ledger[j].time < trained_at
<1> DEFINE P == Places("PREREG_SIGNED", r)
           first == CHOOSE i \in P : \A j \in P : i <= j
<1>1. P \subseteq Nat /\ P # {}
  BY AboveNextLine DEF Places, PreregPrecedes, Has
<1>2. \E x \in P : \A y \in P : ~ (<<y, x>> \in OpToRel(<, Nat))
  BY <1>1, NatLessThanWellFounded, WFMin
<1>3. PICK x \in P : \A y \in P : ~ (<<y, x>> \in OpToRel(<, Nat))
  BY <1>2
<1>4. ASSUME NEW y \in P  PROVE x <= y
  <2>1. ~(y < x)
    BY <1>1, <1>3 DEF OpToRel
  <2> QED  BY <1>1, <2>1
<1>5. first \in P
  BY <1>4
<1>6. ledger[first].time < trained_at
  BY DEF PreregPrecedes
<1> QED  BY <1>5, <1>6, AboveNextLine DEF Places

LEMMA BaseOrdered ==
  ASSUME OrderInv, EarnedInv', NEW p \in Procs, NEW a, NEW m \in Manifests, NEW t,
         RegisterBase(p, a, m, t)
  PROVE  OrderInv'
<1>1. PICK e : e = Entry("BASE_TRAINED", a, [manifest |-> m], t)
  OBVIOUS
<1>2. e.type = "BASE_TRAINED" /\ e.of = a /\ e.payload.manifest = m
  BY <1>1 DEF Entry
<1>3. Has("SNAPSHOT_FROZEN", a)
  <2>1. Cardinality({i \in Places("SNAPSHOT_FROZEN", a) : ledger[i].payload.manifest = m}) = 1
    BY DEF RegisterBase
  <2>2. PICK S : S = {i \in Places("SNAPSHOT_FROZEN", a) : ledger[i].payload.manifest = m}
    OBVIOUS
  <2>3. S # {}
    BY <2>1, <2>2, FS_EmptySet
  <2>4. S \subseteq Places("SNAPSHOT_FROZEN", a)
    BY <2>2
  <2> QED  BY <2>3, <2>4 DEF Has
<1>4. Follows(NextLine, "SNAPSHOT_FROZEN", a)
  BY <1>3, HasFollows DEF OrderInv, EarnedInv
<1>5. \E j \in Places("PREREG_SIGNED", m.prereg_id) : j < NextLine /\ ledger[j].time < m.trained_at
  BY PrecedesMeans DEF RegisterBase, OrderInv, EarnedInv
<1>6. Before(NextLine, e)
  BY <1>2, <1>4, <1>5 DEF Before, Closing
<1>7. InTurn(NextLine, e)
  BY <1>2 DEF InTurn, Evaluation
<1> QED  BY <1>1, <1>6, <1>7, PreparedOrdered DEF RegisterBase, MayStand

LEMMA CalibratorOrdered ==
  ASSUME OrderInv, EarnedInv', NEW p \in Procs, NEW a, NEW metrics, NEW t,
         RegisterCalibrator(p, a, metrics, t)
  PROVE  OrderInv'
<1>1. PICK e : e = Entry("CALIBRATOR_TRAINED", a, [metrics |-> metrics], t)
  OBVIOUS
<1>2. e.type = "CALIBRATOR_TRAINED" /\ e.of = a
  BY <1>1 DEF Entry
<1>3. Has("BASE_TRAINED", a)
  <2>1. Cardinality(Places("BASE_TRAINED", a)) = 1
    BY DEF RegisterCalibrator
  <2> QED  BY <2>1, FS_EmptySet DEF Has
<1>4. Follows(NextLine, "BASE_TRAINED", a)
  BY <1>3, HasFollows DEF OrderInv, EarnedInv
<1>5. Before(NextLine, e) /\ InTurn(NextLine, e)
  BY <1>2, <1>4 DEF Before, Closing, InTurn, Evaluation
<1> QED  BY <1>1, <1>5, PreparedOrdered DEF RegisterCalibrator, MayStand

LEMMA OpenMeans ==
  ASSUME NEW a, ~Closed(a)
  PROVE  \A k \in DOMAIN ledger : ~Closes(k, a)
BY DEF Closed, Closes, Closing, Has, Places

LEMMA AbandonOrdered ==
  ASSUME OrderInv, EarnedInv', NEW p \in Procs, NEW a, NEW t, AbandonAttempt(p, a, t)
  PROVE  OrderInv'
<1>1. PICK e : e = Entry("ATTEMPT_ABANDONED", a, [reason |-> "any"], t)
  OBVIOUS
<1>2. e.type = "ATTEMPT_ABANDONED" /\ e.of = a
  BY <1>1 DEF Entry
<1>3. Follows(NextLine, "SNAPSHOT_FROZEN", a)
  BY HasFollows DEF AbandonAttempt, OrderInv, EarnedInv
<1>4. \A k \in DOMAIN ledger : ~Closes(k, a)
  BY OpenMeans DEF AbandonAttempt
<1>5. Before(NextLine, e)
  BY <1>2, <1>3 DEF Before, Closing
<1>6. InTurn(NextLine, e)
  BY <1>2, <1>4 DEF InTurn
<1> QED  BY <1>1, <1>5, <1>6, PreparedOrdered DEF AbandonAttempt, MayStand

LEMMA EvaluateOrdered ==
  ASSUME OrderInv, EarnedInv', NEW p \in Procs, NEW a \in Attempts,
         NEW consistent \in BOOLEAN, NEW provider \in BOOLEAN, NEW t \in Time,
         Evaluate(p, a, consistent, provider, t)
  PROVE  OrderInv'
<1>1. /\ call'[p].at \in {"phase1", "final"} /\ call'[p].attempt = a /\ UNCHANGED ledger
      /\ call'[p].at = "final" => call'[p].verdict = "ERROR"
      /\ \A q \in Procs \ {p} : call'[q] = call[q]
  BY DEF Evaluate, OrderInv, EarnedInv, LedgerTypeOK
<1>2. overlaps' = 0 => overlaps = 0 /\ \A q \in Procs \ {p} : call[q] = Idle
  BY BeginAlone DEF OrderInv, EarnedInv, Evaluate
<1>3. Has("SNAPSHOT_FROZEN", a) /\ Has("CALIBRATOR_TRAINED", a)
  <2>1. \A type \in {"SNAPSHOT_FROZEN", "CALIBRATOR_TRAINED"} : Cardinality(Places(type, a)) = 1
    BY DEF Evaluate, Evaluable
  <2> QED  BY <2>1, FS_EmptySet DEF Has
<1>4. ~Closed(a)
  BY DEF Evaluate, Evaluable
<1>5. PICK c : c = call'[p]
  OBVIOUS
<1>6. Knows(c)'
  <2>1. Has("SNAPSHOT_FROZEN", a)' /\ Has("CALIBRATOR_TRAINED", a)' /\ ~Closed(a)'
    BY <1>1, <1>3, <1>4 DEF Has, Places, Closed
  <2>2. Trace(c)'
    BY <1>1, <1>5 DEF Trace
  <2> QED  BY <1>1, <1>5, <2>1, <2>2 DEF Knows, Steps, StepsBefore
<1> QED  BY <1>1, <1>2, <1>5, <1>6, QuietOrdered

LEMMA CheckTestOrdered ==
  ASSUME OrderInv, EarnedInv', NEW p \in Procs, CheckTest(p)
  PROVE  OrderInv'
<1>1. call[p] \in Evaluating(StepsBefore, {"UNREAD"}) /\ call[p].at = "check_test"
  BY CallTypes DEF OrderInv, EarnedInv, LedgerTypeOK, CheckTest, Reached, StepsBefore
<1>2. PICK allowed \in BOOLEAN :
        /\ call' = [call EXCEPT ![p] = [call[p] EXCEPT
                    !.at = IF allowed THEN "test_read" ELSE "final",
                    !.verdict = IF allowed THEN call[p].verdict ELSE "ERROR"]]
        /\ allowed => ~TestWasRead(call[p].key)
  BY DEF CheckTest
<1>3. /\ call'[p].at = IF allowed THEN "test_read" ELSE "final"
      /\ ~allowed => call'[p].verdict = "ERROR"
      /\ call'[p].attempt = call[p].attempt /\ call'[p].key = call[p].key
      /\ \A q \in Procs \ {p} : call'[q] = call[q]
  BY <1>1, <1>2 DEF Evaluating, OrderInv, EarnedInv, LedgerTypeOK
<1>4. UNCHANGED <<ledger, overlaps>> /\ call[p] # Idle
  BY <1>1 DEF CheckTest, Idle
<1>5. PICK c : c = call'[p]
  OBVIOUS
<1>6. Knows(c)'
  <2>1. PICK a : a = call[p].attempt
    OBVIOUS
  <2>2. /\ Has("SNAPSHOT_FROZEN", a) /\ Has("CALIBRATOR_TRAINED", a)
        /\ overlaps = 0 => ~Closed(a) /\ NextLine - 1 \in Places("PHASE1_VERDICT", a)
    BY <1>1, <2>1 DEF OrderInv, Knows, Steps, StepsBefore, Trace
  <2>3. /\ Has("SNAPSHOT_FROZEN", a)' /\ Has("CALIBRATOR_TRAINED", a)'
        /\ overlaps' = 0 => ~Closed(a)' /\ NextLine' - 1 \in Places("PHASE1_VERDICT", a)'
    BY <1>4, <2>2 DEF Has, Places, Closed, NextLine
  <2>4. overlaps' = 0 => Trace(c)'
    BY <1>3, <1>5, <2>1, <2>3 DEF Trace
  <2>5. c.at = "test_read" => ~TestWasRead(c.key)'
    BY <1>2, <1>3, <1>4, <1>5 DEF TestWasRead, All
  <2> QED  BY <1>3, <1>5, <2>1, <2>3, <2>4, <2>5 DEF Knows, Steps, StepsBefore
<1> QED  BY <1>3, <1>4, <1>5, <1>6, WorkAlone, QuietOrdered

LEMMA ReadTestOrdered ==
  ASSUME OrderInv, EarnedInv', NEW p \in Procs, NEW o \in Outcomes, ReadTest(p, o)
  PROVE  OrderInv'
<1>1. call[p] \in Evaluating(StepsBefore, {"UNREAD"}) /\ call[p].at = "provider"
  BY CallTypes DEF OrderInv, EarnedInv, LedgerTypeOK, ReadTest, Reached, StepsBefore
<1>2. /\ call'[p].at = "test_result" /\ call'[p].attempt = call[p].attempt
      /\ \A q \in Procs \ {p} : call'[q] = call[q]
  BY <1>1 DEF ReadTest, Evaluating, OrderInv, EarnedInv, LedgerTypeOK
<1>3. UNCHANGED <<ledger, overlaps>> /\ call[p] # Idle
  BY <1>1 DEF ReadTest, Idle
<1>4. PICK c : c = call'[p]
  OBVIOUS
<1>5. Knows(c)'
  <2>1. PICK a : a = call[p].attempt
    OBVIOUS
  <2>2. /\ Has("SNAPSHOT_FROZEN", a) /\ Has("CALIBRATOR_TRAINED", a)
        /\ overlaps = 0 => /\ ~Closed(a) /\ NextLine - 2 \in Places("PHASE1_VERDICT", a)
                           /\ NextLine - 1 \in Places("TEST_READ", a)
    BY <1>1, <2>1 DEF OrderInv, Knows, Steps, StepsBefore, Trace
  <2>3. /\ Has("SNAPSHOT_FROZEN", a)' /\ Has("CALIBRATOR_TRAINED", a)'
        /\ overlaps' = 0 => /\ ~Closed(a)' /\ NextLine' - 2 \in Places("PHASE1_VERDICT", a)'
                            /\ NextLine' - 1 \in Places("TEST_READ", a)'
    BY <1>3, <2>2 DEF Has, Places, Closed, NextLine
  <2>4. overlaps' = 0 => Trace(c)'
    BY <1>2, <1>4, <2>1, <2>3 DEF Trace
  <2> QED  BY <1>2, <1>4, <2>1, <2>3, <2>4 DEF Knows, Steps, StepsBefore
<1> QED  BY <1>2, <1>3, <1>4, <1>5, WorkAlone, QuietOrdered

LEMMA StoppedOrdered ==
  ASSUME OrderInv, EarnedInv', NEW p \in Procs, Refuse(p) \/ Kill(p)
  PROVE  OrderInv'
<1>1. /\ call'[p] = Idle /\ UNCHANGED <<ledger, overlaps>>
      /\ \A q \in Procs \ {p} : call'[q] = call[q]
  BY DEF Refuse, Kill, OrderInv, EarnedInv, LedgerTypeOK
<1>2. call[p] # Idle
  <2>1. Writing(p) => call[p] # Idle
    BY DEF Writing
  <2>2. Reached(p, "check_test") => call[p] # Idle
    BY DEF Reached, Idle
  <2> QED  BY <2>1, <2>2 DEF Refuse, Kill
<1>3. Knows(call[p])'
  BY <1>1 DEF Knows, Idle, Steps, StepsBefore
<1> QED  BY <1>1, <1>2, <1>3, WorkAlone, QuietOrdered

(* The steps that write what they know may stand there. *)

\* What a call that goes on knows of its attempt after it wrote e of it.
LEMMA WrittenKnows ==
  ASSUME LedgerTypeOK, LedgerTypeOK', NEW e \in AllEntries, ledger' = Append(ledger, e),
         UNCHANGED overlaps, NEW a, e.of = a
  PROVE  /\ \A type : Has(type, a) => Has(type, a)'
         /\ e.type \notin Closing /\ ~Closed(a) => ~Closed(a)'
         /\ NextLine' - 1 \in Places(e.type, a)'
         /\ \A type : NextLine - 1 \in Places(type, a) => NextLine' - 2 \in Places(type, a)'
         /\ \A type : NextLine - 2 \in Places(type, a) => NextLine' - 3 \in Places(type, a)'
         /\ NextLine' = NextLine + 1 /\ NextLine \in Nat
<1>1. /\ Kept /\ OnlyNew(e) /\ Len(ledger) \in Nat /\ DOMAIN ledger = 1 .. Len(ledger)
      /\ DOMAIN ledger' = 1 .. Len(ledger) + 1 /\ ledger'[Len(ledger) + 1] = e
  BY AppendKeeps DEF LedgerTypeOK, AllEntries
<1>2. NextLine' = NextLine + 1 /\ NextLine \in Nat /\ NextLine = Len(ledger) + 1
  BY <1>1 DEF NextLine, LedgerTypeOK
<1>3. \A type, i : i \in Places(type, a) => i \in Places(type, a)'
  BY <1>1 DEF Places, Kept
<1>4. \A type : Has(type, a) => Has(type, a)'
  BY <1>3 DEF Has
<1>5. ASSUME e.type \notin Closing, ~Closed(a)
      PROVE  ~Closed(a)'
    BY <1>1, <1>5 DEF Closed, Has, Places, Closing, Kept, OnlyNew
<1>6. NextLine' - 1 \in Places(e.type, a)'
  BY <1>1, <1>2 DEF Places
<1>7. NextLine' - 2 = NextLine - 1 /\ NextLine' - 3 = NextLine - 2
  BY <1>2
<1> QED  BY <1>2, <1>3, <1>4, <1>5, <1>6, <1>7

LEMMA RegisterOrdered ==
  ASSUME OrderInv, EarnedInv', NEW p \in Procs, Register(p)
  PROVE  OrderInv'
<1>1. call[p].entry \in AllEntries /\ ledger' = Append(ledger, call[p].entry)
  BY RegisterTypes DEF OrderInv, EarnedInv, AllEntries, Register, Append_
<1>2. /\ call[p].at = "register" /\ call'[p] = Idle /\ UNCHANGED overlaps
      /\ \A q \in Procs \ {p} : call'[q] = call[q]
  BY DEF Register, Reached, Append_, OrderInv, EarnedInv, LedgerTypeOK
<1>3. call[p] # Idle
  BY <1>2 DEF Idle
<1>4. PICK e : e = call[p].entry
  OBVIOUS
<1>5. MayStand(NextLine, e)
  BY <1>2, <1>4 DEF OrderInv, Knows
<1>6. Knows(call[p])'
  BY <1>2 DEF Knows, Idle, Steps, StepsBefore
<1> QED  BY <1>1, <1>2, <1>3, <1>4, <1>5, <1>6, AppendOrdered

LEMMA WritePhase1Ordered ==
  ASSUME OrderInv, EarnedInv', NEW p \in Procs, WritePhase1(p)
  PROVE  OrderInv'
<1>1. call[p] \in Evaluating(StepsBefore, {"UNREAD"}) /\ call[p].at = "phase1"
  BY CallTypes DEF OrderInv, EarnedInv, LedgerTypeOK, WritePhase1, Reached, StepsBefore
<1>2. PICK a : a = call[p].attempt
  OBVIOUS
<1>3. PICK e : e = Entry("PHASE1_VERDICT", a, [verdict |-> call[p].verdict], call[p].time)
  OBVIOUS
<1>4. e.type = "PHASE1_VERDICT" /\ e.of = a
  BY <1>3 DEF Entry
<1>5. ledger' = Append(ledger, e) /\ e \in AllEntries /\ UNCHANGED overlaps
  BY <1>1, <1>2, <1>3
     DEF WritePhase1, Write, Append_, Entry, AllEntries, EvaluationEntries, Written, Evaluating
<1>6. /\ call'[p].attempt = a /\ call'[p].verdict = call[p].verdict
      /\ call'[p].at = IF call[p].verdict = "ELEGIBLE_PRELIMINAR" THEN "check_test" ELSE "final"
      /\ \A q \in Procs \ {p} : call'[q] = call[q]
  BY <1>1, <1>2 DEF WritePhase1, Write, Evaluating, OrderInv, EarnedInv, LedgerTypeOK
<1>7. /\ Has("SNAPSHOT_FROZEN", a) /\ Has("CALIBRATOR_TRAINED", a)
      /\ overlaps = 0 => ~Closed(a)
  BY <1>1, <1>2 DEF OrderInv, Knows, Steps, StepsBefore
<1>8. MayStand(NextLine, e)
  <2>1. Before(NextLine, e)
    BY <1>4, <1>7, HasFollows DEF Before, Closing, OrderInv, EarnedInv
  <2>2. overlaps = 0 => InTurn(NextLine, e)
    BY <1>4, <1>7, OpenMeans DEF InTurn
  <2> QED  BY <2>1, <2>2 DEF MayStand
<1>9. call[p].verdict # "ELEGIBLE"
  BY <1>1 DEF OrderInv, EarnedInv, CallEarned
<1>10. PICK c : c = call'[p]
  OBVIOUS
<1>11. Knows(c)'
  <2>1. LedgerTypeOK /\ LedgerTypeOK'
    BY DEF OrderInv, EarnedInv
  <2>2. /\ Has("SNAPSHOT_FROZEN", a)' /\ Has("CALIBRATOR_TRAINED", a)'
        /\ overlaps' = 0 => ~Closed(a)'
        /\ NextLine' - 1 \in Places("PHASE1_VERDICT", a)'
    BY <1>4, <1>5, <1>7, <2>1, WrittenKnows DEF Closing
  <2>3. Trace(c)'
    BY <1>6, <1>9, <1>10, <2>2 DEF Trace
  <2> QED  BY <1>6, <1>10, <2>2, <2>3 DEF Knows, Steps, StepsBefore
<1>12. call[p] # Idle
  BY <1>1 DEF Idle
<1> QED  BY <1>5, <1>6, <1>8, <1>10, <1>11, <1>12, AppendOrdered

LEMMA WriteTestReadOrdered ==
  ASSUME OrderInv, EarnedInv', NEW p \in Procs, WriteTestRead(p)
  PROVE  OrderInv'
<1>1. call[p] \in Evaluating(StepsBefore, {"UNREAD"}) /\ call[p].at = "test_read"
  BY CallTypes DEF OrderInv, EarnedInv, LedgerTypeOK, WriteTestRead, Reached, StepsBefore
<1>2. PICK a : a = call[p].attempt
  OBVIOUS
<1>3. PICK e : e = Entry("TEST_READ", a, [key |-> call[p].key], call[p].time)
  OBVIOUS
<1>4. e.type = "TEST_READ" /\ e.of = a /\ e.payload = [key |-> call[p].key]
  BY <1>3 DEF Entry
<1>5. ledger' = Append(ledger, e) /\ e \in AllEntries /\ UNCHANGED overlaps
  BY <1>1, <1>2, <1>3
     DEF WriteTestRead, Write, Append_, Entry, AllEntries, EvaluationEntries, Written, Evaluating
<1>6. /\ call'[p].attempt = a /\ call'[p].at = "provider"
      /\ \A q \in Procs \ {p} : call'[q] = call[q]
  BY <1>1, <1>2 DEF WriteTestRead, Write, Evaluating, OrderInv, EarnedInv, LedgerTypeOK
<1>7. /\ Has("SNAPSHOT_FROZEN", a) /\ Has("CALIBRATOR_TRAINED", a)
      /\ overlaps = 0 => /\ ~Closed(a) /\ ~TestWasRead(call[p].key)
                         /\ NextLine - 1 \in Places("PHASE1_VERDICT", a)
  BY <1>1, <1>2 DEF OrderInv, Knows, Steps, StepsBefore, Trace
<1>8. MayStand(NextLine, e)
  <2>1. Before(NextLine, e)
    BY <1>4 DEF Before, Closing
  <2>2. ASSUME overlaps = 0, NEW i \in All("TEST_READ")
        PROVE  ledger[i].payload # e.payload
    BY <1>4, <1>7, <2>2 DEF TestWasRead
  <2>3. overlaps = 0 => InTurn(NextLine, e)
    BY <1>4, <1>7, <2>2, OpenMeans DEF InTurn
  <2> QED  BY <2>1, <2>3 DEF MayStand
<1>9. PICK c : c = call'[p]
  OBVIOUS
<1>10. Knows(c)'
  <2>1. LedgerTypeOK /\ LedgerTypeOK'
    BY DEF OrderInv, EarnedInv
  <2>2. /\ Has("SNAPSHOT_FROZEN", a)' /\ Has("CALIBRATOR_TRAINED", a)'
        /\ overlaps' = 0 => ~Closed(a)' /\ NextLine' - 2 \in Places("PHASE1_VERDICT", a)'
        /\ NextLine' - 1 \in Places("TEST_READ", a)'
    BY <1>4, <1>5, <1>7, <2>1, WrittenKnows DEF Closing
  <2>3. overlaps' = 0 => Trace(c)'
    BY <1>6, <1>9, <2>2 DEF Trace
  <2> QED  BY <1>6, <1>9, <2>2, <2>3 DEF Knows, Steps, StepsBefore
<1>11. call[p] # Idle
  BY <1>1 DEF Idle
<1> QED  BY <1>5, <1>6, <1>8, <1>9, <1>10, <1>11, AppendOrdered

LEMMA WriteTestResultOrdered ==
  ASSUME OrderInv, EarnedInv', NEW p \in Procs, WriteTestResult(p)
  PROVE  OrderInv'
<1>1. call[p] \in Evaluating({"test_result"}, Statuses) /\ call[p].at = "test_result"
  BY CallTypes DEF OrderInv, EarnedInv, LedgerTypeOK, WriteTestResult, Reached
<1>2. PICK a : a = call[p].attempt
  OBVIOUS
<1>3. PICK e : e = Entry("TEST_RESULT", a, [status |-> call[p].status], call[p].time)
  OBVIOUS
<1>4. e.type = "TEST_RESULT" /\ e.of = a
  BY <1>3 DEF Entry
<1>5. ledger' = Append(ledger, e) /\ e \in AllEntries /\ UNCHANGED overlaps
  BY <1>1, <1>2, <1>3
     DEF WriteTestResult, Write, Append_, Entry, AllEntries, EvaluationEntries, Written, Evaluating
<1>6. /\ call'[p].attempt = a /\ call'[p].at = "final"
      /\ \A q \in Procs \ {p} : call'[q] = call[q]
  BY <1>1, <1>2 DEF WriteTestResult, Write, Evaluating, OrderInv, EarnedInv, LedgerTypeOK
<1>7. /\ Has("SNAPSHOT_FROZEN", a) /\ Has("CALIBRATOR_TRAINED", a)
      /\ overlaps = 0 => /\ ~Closed(a) /\ NextLine - 2 \in Places("PHASE1_VERDICT", a)
                         /\ NextLine - 1 \in Places("TEST_READ", a)
  BY <1>1, <1>2 DEF OrderInv, Knows, Steps, StepsBefore, Trace
<1>8. MayStand(NextLine, e)
  BY <1>4, <1>7, OpenMeans DEF MayStand, Before, InTurn, Closing
<1>9. PICK c : c = call'[p]
  OBVIOUS
<1>10. Knows(c)'
  <2>1. LedgerTypeOK /\ LedgerTypeOK'
    BY DEF OrderInv, EarnedInv
  <2>2. /\ Has("SNAPSHOT_FROZEN", a)' /\ Has("CALIBRATOR_TRAINED", a)'
        /\ overlaps' = 0 => /\ ~Closed(a)' /\ NextLine' - 3 \in Places("PHASE1_VERDICT", a)'
                            /\ NextLine' - 2 \in Places("TEST_READ", a)'
        /\ NextLine' - 1 \in Places("TEST_RESULT", a)'
        /\ NextLine' = NextLine + 1 /\ NextLine \in Nat
    BY <1>4, <1>5, <1>7, <2>1, WrittenKnows DEF Closing
  <2>3. overlaps' = 0 => NextLine' > 3
    <3>1. SUFFICES ASSUME overlaps' = 0  PROVE NextLine' > 3
      OBVIOUS
    <3>2. NextLine - 2 \in DOMAIN ledger
      BY <1>5, <1>7, <3>1 DEF Places
    <3>3. NextLine - 2 > 0
      BY <2>1, <2>2, <3>2 DEF LedgerTypeOK
    <3> QED  BY <2>2, <3>3
  <2>4. overlaps' = 0 => Trace(c)'
    BY <1>6, <1>9, <2>2, <2>3 DEF Trace, Evaluated
  <2> QED  BY <1>6, <1>9, <2>2, <2>4 DEF Knows, Steps, StepsBefore
<1>11. call[p] # Idle
  BY <1>1 DEF Idle
<1> QED  BY <1>5, <1>6, <1>8, <1>9, <1>10, <1>11, AppendOrdered

LEMMA WriteFinalOrdered ==
  ASSUME OrderInv, EarnedInv', NEW p \in Procs, WriteFinal(p)
  PROVE  OrderInv'
<1>1. call[p] \in Calls /\ call[p].at = "final"
  BY DEF OrderInv, EarnedInv, LedgerTypeOK, WriteFinal, Reached
<1>2. PICK a : a = call[p].attempt
  OBVIOUS
<1>3. PICK e : e = Entry("FINAL_VERDICT", a, [verdict |-> call[p].verdict], call[p].time)
  OBVIOUS
<1>4. e.type = "FINAL_VERDICT" /\ e.of = a /\ e.payload.verdict = call[p].verdict
  BY <1>3 DEF Entry
<1>5. ledger' = Append(ledger, e) /\ e \in AllEntries /\ UNCHANGED overlaps
  <2>1. call[p].attempt \in Attempts /\ call[p].time \in Time /\ call[p].verdict \in Verdicts
    BY <1>1, CallTypes DEF Steps, StepsBefore
  <2> QED  BY <1>2, <1>3, <2>1
       DEF WriteFinal, Append_, Entry, AllEntries, EvaluationEntries, Written
<1>6. call'[p] = Idle /\ \A q \in Procs \ {p} : call'[q] = call[q]
  BY DEF WriteFinal, OrderInv, EarnedInv, LedgerTypeOK
<1>7. /\ Has("SNAPSHOT_FROZEN", a)
      /\ overlaps = 0 => ~Closed(a) /\ (call[p].verdict = "ELEGIBLE" => Evaluated(NextLine, a))
  BY <1>1, <1>2 DEF OrderInv, Knows, Steps, StepsBefore, Trace
<1>8. MayStand(NextLine, e)
  <2>1. Before(NextLine, e)
    BY <1>4, <1>7, HasFollows DEF Before, OrderInv, EarnedInv
  <2>2. overlaps = 0 => InTurn(NextLine, e)
    BY <1>4, <1>7, OpenMeans DEF InTurn
  <2> QED  BY <2>1, <2>2 DEF MayStand
<1>9. Knows(call[p])'
  BY <1>6 DEF Knows, Idle, Steps, StepsBefore
<1>10. call[p] # Idle
  BY <1>1 DEF Idle
<1> QED  BY <1>5, <1>6, <1>8, <1>9, <1>10, AppendOrdered

LEMMA OrderStep ==
  ASSUME OrderInv, [Next]_vars
  PROVE  OrderInv'
<1>0. EarnedInv'
  BY EarnedStep DEF OrderInv
<1>1. CASE UNCHANGED vars
  BY <1>0, <1>1 DEF OrderInv, Ordered, OneAtATime, Knows, Trace, MayStand, Before, InTurn, Follows,
     Places, All, Has, Closed, Closes, TestWasRead, Evaluated, NextLine, vars
<1>2. ASSUME NEW p \in Procs, NEW t \in Time,
             \/ \E r \in Preregs, signed_at \in Time : SignPrereg(p, r, signed_at, t)
             \/ \E a \in Attempts :
                \/ \E m \in Manifests : FreezeSnapshot(p, a, m, t) \/ RegisterBase(p, a, m, t)
                \/ \E metrics \in Metrics : RegisterCalibrator(p, a, metrics, t)
                \/ AbandonAttempt(p, a, t)
      PROVE  OrderInv'
  BY <1>0, <1>2, SignOrdered, FreezeOrdered, BaseOrdered, CalibratorOrdered, AbandonOrdered
<1>3. ASSUME NEW p \in Procs, NEW a \in Attempts, NEW t \in Time,
             \E consistent, provider \in BOOLEAN : Evaluate(p, a, consistent, provider, t)
      PROVE  OrderInv'
  BY <1>0, <1>3, EvaluateOrdered
<1>4. ASSUME NEW p \in Procs,
             \/ Register(p) \/ WritePhase1(p) \/ WriteTestRead(p) \/ WriteTestResult(p)
             \/ WriteFinal(p)
      PROVE  OrderInv'
  BY <1>0, <1>4, RegisterOrdered, WritePhase1Ordered, WriteTestReadOrdered,
     WriteTestResultOrdered, WriteFinalOrdered
<1>5. ASSUME NEW p \in Procs,
             CheckTest(p) \/ (\E o \in Outcomes : ReadTest(p, o)) \/ Refuse(p) \/ Kill(p)
      PROVE  OrderInv'
  BY <1>0, <1>5, CheckTestOrdered, ReadTestOrdered, StoppedOrdered
<1> QED  BY <1>1, <1>2, <1>3, <1>4, <1>5 DEF Next

LEMMA OrderAlways == Spec => []OrderInv
<1>1. ASSUME Init
      PROVE  OrderInv
  <2>1. VerdictsEarned /\ \A p \in Procs : CallEarned(p)
    BY <1>1 DEF Init, VerdictsEarned, CallEarned, All, Idle
  <2>2. Ordered /\ OneAtATime /\ \A p \in Procs : Knows(call[p])
    BY <1>1 DEF Init, Ordered, OneAtATime, Knows, Idle, Steps, StepsBefore
  <2> QED  BY <1>1, <2>1, <2>2, TypeInit DEF OrderInv, EarnedInv
<1>2. OrderInv /\ [Next]_vars => OrderInv'
  BY OrderStep
<1> QED  BY <1>1, <1>2, PTL DEF Spec

\* As long as no call overlaps with another one a test is read at most once, whoever is
\* killed in between and whatever attempts share it (read_held_out_once).
THEOREM TestAlwaysReadOnce == Spec => []TestReadOnce
<1>1. ASSUME OrderInv
      PROVE  TestReadOnce
  <2>1. SUFFICES ASSUME overlaps = 0, NEW i \in All("TEST_READ"), NEW j \in All("TEST_READ"),
                        ledger[i].payload = ledger[j].payload
                 PROVE  i = j
    BY <1>1 DEF TestReadOnce, OrderInv, EarnedInv, LedgerTypeOK
  <2>2. InTurn(i, ledger[i]) /\ InTurn(j, ledger[j]) /\ i \in Nat /\ j \in Nat
    BY <1>1, <2>1 DEF OrderInv, EarnedInv, LedgerTypeOK, Ordered, MayStand, All
  <2>3. ~(i < j) /\ ~(j < i)
    BY <2>1, <2>2 DEF InTurn, All
  <2> QED  BY <2>2, <2>3
<1> QED  BY <1>1, OrderAlways, PTL

\* The order of the ledger is the one the governance asks for: the registrations of an
\* attempt in the order of its work however calls overlap, and, as long as they do not, one
\* attempt at a time, none that comes back, snapshots that only grow, and an ELEGIBLE that
\* follows at once from what it rests on (register_entry, evaluate_attempt).
THEOREM LedgerAlwaysInOrder == Spec => []LedgerInOrder
<1>1. ASSUME OrderInv
      PROVE  LedgerInOrder
  <2>0. /\ LedgerTypeOK /\ \A n \in DOMAIN ledger : n \in Nat /\ Before(n, ledger[n])
        /\ overlaps = 0 => \A n \in DOMAIN ledger : InTurn(n, ledger[n])
        /\ overlaps \in Nat
    BY <1>1 DEF OrderInv, EarnedInv, LedgerTypeOK, Ordered, MayStand
  <2>1. RegisteredInOrder
    BY <2>0 DEF RegisteredInOrder, All, Before
  <2>2. OneOpenAttempt
    <3>1. SUFFICES ASSUME overlaps = 0, NEW i \in All("SNAPSHOT_FROZEN"),
                          NEW j \in All("SNAPSHOT_FROZEN"), i < j
                   PROVE  \E k \in Places("FINAL_VERDICT", ledger[i].of)
                                   \cup Places("ATTEMPT_ABANDONED", ledger[i].of) : i < k /\ k < j
      BY <2>0 DEF OneOpenAttempt
    <3>2. PICK k \in DOMAIN ledger : i < k /\ k < j /\ Closes(k, ledger[i].of)
      BY <2>0, <3>1 DEF InTurn, All
    <3> QED  BY <3>2 DEF Closes, Closing, Places
  <2>3. ClosedForGood
    <3>1. SUFFICES ASSUME overlaps = 0, NEW i \in All("FINAL_VERDICT") \cup All("ATTEMPT_ABANDONED"),
                          NEW j \in i + 1 .. Len(ledger), ledger[j].of = ledger[i].of,
                          ledger[j].type \in Evaluation
                   PROVE  FALSE
      BY <2>0 DEF ClosedForGood
    <3>2. i \in DOMAIN ledger /\ i \in Nat /\ Closes(i, ledger[j].of)
      BY <2>0, <3>1 DEF All, Closes, Closing
    <3>3. j \in DOMAIN ledger /\ i < j
      BY <2>0, <3>1, <3>2 DEF LedgerTypeOK
    <3> QED  BY <2>0, <3>1, <3>2, <3>3 DEF InTurn
  <2>4. SnapshotsGrow
    <3>1. SUFFICES ASSUME overlaps = 0, NEW i \in All("SNAPSHOT_FROZEN"),
                          NEW j \in All("SNAPSHOT_FROZEN"), i < j
                   PROVE  Grows(ledger[i].payload.manifest, ledger[j].payload.manifest)
      BY <2>0 DEF SnapshotsGrow, Grows
    <3> QED  BY <2>0, <3>1 DEF InTurn, All
  <2>5. EarnedAtOnce
    <3>1. SUFFICES ASSUME overlaps = 0, NEW i \in All("FINAL_VERDICT"),
                          ledger[i].payload.verdict = "ELEGIBLE"
                   PROVE  /\ i > 3
                          /\ \A j \in i - 3 .. i : ledger[j].of = ledger[i].of
                          /\ ledger[i - 3].type = "PHASE1_VERDICT"
                          /\ ledger[i - 2].type = "TEST_READ" /\ ledger[i - 1].type = "TEST_RESULT"
      BY <2>0 DEF EarnedAtOnce
    <3>2. Evaluated(i, ledger[i].of) /\ i \in Nat
      BY <2>0, <3>1 DEF InTurn, All
    <3>3. \A j \in i - 3 .. i : j = i - 3 \/ j = i - 2 \/ j = i - 1 \/ j = i
      BY <3>2
    <3> QED  BY <3>2, <3>3 DEF Evaluated, Places
  <2> QED  BY <2>0, <2>1, <2>2, <2>3, <2>4, <2>5 DEF LedgerInOrder
<1> QED  BY <1>1, OrderAlways, PTL
=============================================================================
