---------------------------- MODULE ModelRegistry ----------------------------
(* Which trained model is served: trainings write an artifact and its metadata  *)
(* and may die half way, operators edit the registry of models that are         *)
(* allowed, files are damaged, and meanwhile a run loads the newest base model  *)
(* and its calibrator file by file, or an evaluation loads a candidate.         *)
EXTENDS Values

CONSTANTS
    Bases, Calibrators,     \* versions: numbers, the later the larger
    Deployed,               \* the base models there are at the start
    MaxEdits, MaxDamages    \* how often the registry is edited, and files damaged

VARIABLES
    artifact,   \* the bytes of each version: None, "whole" or "other"
    metadata,   \* [bytes, candidate_status, base] of each version; bytes as above or "half"
    trainer,    \* [version, step] of the training in progress, or None
    trained,    \* the candidate status and the base each version was trained with
    ledger,     \* the versions whose training the governance has written down
    registry,   \* entries [status, artifact_sha256, metadata_sha256, base]
    malformed,  \* whether the file of the registry cannot be read
    edits, damages,
    load,       \* the load in progress, or None
    binding,    \* the entry of a calibrator that is being loaded, and the policy, or None
    serving,    \* [base, bytes, metadata, calibrator], or None
    approved    \* every <<version, bytes>> that was ever allowed

store == <<artifact, metadata, trained, ledger>>
policy == <<registry, malformed, edits, approved>>
loads == <<binding, serving>>
registryVars == <<artifact, metadata, trainer, trained, ledger, registry, malformed, edits, damages,
          load, binding, serving, approved>>

ASSUME VersionAssumption ==
    /\ Bases \subseteq Nat /\ Calibrators \subseteq Nat /\ IsFiniteSet(Bases \cup Calibrators)
    /\ Bases \cap Calibrators = {} /\ Deployed \subseteq Bases

Versions == Bases \cup Calibrators
Statuses == {"PROMOTION_ELIGIBLE", "REJECTED_CANDIDATE"}

\* What a training and a metadata file can say.
Trainings == [candidate_status : Statuses \cup {None}, base : Bases \cup {None}]
Sidecars == [bytes : {None, "whole", "other", "half"}, candidate_status : Statuses \cup {None}, base : Bases \cup {None}]

ASSUME NoneAssumption ==
    /\ None \notin Nat /\ None \notin {"whole", "other", "half"} /\ None \notin Trainings
    /\ None \notin [base : Bases, bytes : {"whole", "other"}, metadata : Sidecars, calibrator : {None}]

Absent == [bytes |-> None, candidate_status |-> None, base |-> None]
Whole(status, base) == [bytes |-> "whole", candidate_status |-> status, base |-> base]
Eligible == [candidate_status |-> "PROMOTION_ELIGIBLE", base |-> None]

\* The models in Deployed were trained and allowed before.
RegistryInit ==
    /\ artifact = [v \in Versions |-> IF v \in Deployed THEN "whole" ELSE None]
    /\ metadata = [v \in Versions |-> IF v \in Deployed THEN Whole("PROMOTION_ELIGIBLE", None) ELSE Absent]
    /\ trained = [v \in Versions |-> IF v \in Deployed THEN Eligible ELSE None]
    /\ trainer = None /\ ledger = {}
    /\ registry = [v \in Deployed |-> [status |-> "ALLOWED", artifact_sha256 |-> "whole",
                                         metadata_sha256 |-> "whole", base |-> None]]
    /\ approved = Deployed \X {"whole"}
    /\ malformed = FALSE /\ edits = 0 /\ damages = 0
    /\ load = None /\ binding = None /\ serving = None

\* The world changes under a load that is under way.
Disturbed == load' = IF load = None THEN None ELSE [load EXCEPT !.quiet = FALSE]
-----------------------------------------------------------------------------
(* The policy: an unreadable registry allows nothing *)

PolicyNow == IF malformed THEN [v \in {} |-> None] ELSE registry

Activable(allowed, v, bytes) ==
    /\ v \in DOMAIN allowed /\ allowed[v].status = "ALLOWED"
    /\ allowed[v].artifact_sha256 # None /\ bytes # None
    /\ allowed[v].artifact_sha256 = bytes

Readable(data) == data.bytes \in {"whole", "other"}
-----------------------------------------------------------------------------
(* Trainings write the artifact, which nobody looks for before the metadata is  *)
(* there, then the metadata, which appears half written.                        *)

Untrained(v) == trained[v] = None /\ \A w \in Versions : trained[w] # None => w < v

\* The newest base model that may be activated, as one look at everything finds it.
Candidates == {v \in Bases : /\ Activable(PolicyNow, v, artifact[v]) /\ Readable(metadata[v])
                             /\ metadata[v].candidate_status # "REJECTED_CANDIDATE"}
Newest(versions) == CHOOSE v \in versions : \A w \in versions : w <= v

StartTraining(v) ==
    /\ trainer = None /\ Untrained(v)
    /\ \/ /\ v \in Bases
          /\ \E status \in Statuses : trained' = [trained EXCEPT ![v] = [candidate_status |-> status, base |-> None]]
       \/ /\ v \in Calibrators /\ Candidates # {}
          /\ trained' = [trained EXCEPT ![v] = [candidate_status |-> None, base |-> Newest(Candidates)]]
    /\ trainer' = [version |-> v, step |-> 1]
    /\ artifact' = [artifact EXCEPT ![v] = "whole"]
    /\ Disturbed
    /\ UNCHANGED <<metadata, ledger, policy, damages, loads>>

\* An attempt of the governance writes down what it trained; its registry names that one.
ContinueTraining ==
    /\ trainer # None
    /\ LET v == trainer.version
           Written(bytes) == metadata' = [metadata EXCEPT ![v] =
               [bytes |-> bytes, candidate_status |-> trained[v].candidate_status, base |-> trained[v].base]] IN
       \/ trainer.step = 1 /\ Written("half") /\ UNCHANGED ledger /\ trainer' = [trainer EXCEPT !.step = 2]
       \/ trainer.step = 2 /\ Written("whole") /\ ledger' = ledger \cup {v} /\ trainer' = None
    /\ Disturbed
    /\ UNCHANGED <<artifact, trained, policy, damages, loads>>

KillTraining ==
    /\ trainer # None /\ trainer' = None
    /\ UNCHANGED <<store, policy, damages, load, loads>>
-----------------------------------------------------------------------------
(* Operators and disks *)

\* An entry is written with the hashes of the files as they are, or without a hash; the
\* base a calibrator is bound to may be mistyped.
EditRegistry(v) ==
    /\ edits < MaxEdits /\ edits' = edits + 1
    /\ \E status \in {"ALLOWED", "INVALID"}, sha \in {artifact[v], None},
          base \in IF v \in Calibrators THEN Bases ELSE {None} :
        LET entry == [status |-> status, artifact_sha256 |-> sha, metadata_sha256 |-> metadata[v].bytes, base |-> base] IN
        /\ registry' = [w \in DOMAIN registry \cup {v} |-> IF w = v THEN entry ELSE registry[w]]
        /\ approved' = IF status = "ALLOWED" THEN approved \cup {<<v, sha>>} ELSE approved
    /\ Disturbed
    /\ UNCHANGED <<store, trainer, malformed, damages, loads>>

\* The file is being written, or has a version twice.
BreakRegistry ==
    /\ edits < MaxEdits /\ edits' = edits + 1 /\ malformed' = ~malformed
    /\ Disturbed
    /\ UNCHANGED <<store, trainer, registry, approved, damages, loads>>

\* An artifact is overwritten or lost; metadata is edited so that it says something else.
Damage(v) ==
    /\ damages < MaxDamages /\ damages' = damages + 1
    /\ trained[v] # None
    /\ \/ /\ artifact[v] # None /\ \E bytes \in {"other", None} : artifact' = [artifact EXCEPT ![v] = bytes]
          /\ UNCHANGED metadata
       \/ /\ metadata[v].bytes = "whole" /\ UNCHANGED artifact
          /\ \E base \in IF v \in Calibrators THEN Bases ELSE {None} :
                metadata' = [metadata EXCEPT ![v] = [bytes |-> "other", candidate_status |-> "PROMOTION_ELIGIBLE", base |-> base]]
    /\ Disturbed
    /\ UNCHANGED <<trainer, trained, ledger, policy, loads>>
-----------------------------------------------------------------------------
(* load_latest_tennis_artifact: the registry once, then version after version *)

Loading(use, allowed) ==
    load' = [use |-> use, policy |-> allowed, best |-> None, meta |-> None, quiet |-> TRUE,
             todo |-> {v \in Bases : metadata[v].bytes # None}]

\* The metadata files are looked at in the order of their names.
First(versions) == CHOOSE v \in versions : \A w \in versions : v <= w

StartLoad ==
    /\ load = None /\ binding = None
    /\ Loading("serve", PolicyNow)
    /\ UNCHANGED <<store, trainer, policy, damages, loads>>

\* A candidate registry allows one base model: the one the ledger has with these hashes.
LoadCandidateRegistry(v) ==
    /\ load = None /\ binding = None
    /\ v \in ledger \cap Bases /\ artifact[v] = "whole" /\ metadata[v].bytes = "whole"
    /\ Loading("evaluate", [w \in {v} |-> [status |-> "ALLOWED", artifact_sha256 |-> "whole",
                                            metadata_sha256 |-> None, base |-> None]])
    /\ UNCHANGED <<store, trainer, policy, damages, loads>>

\* Bug variant: metadata that cannot be read ends the load with nothing.
ReadMetadata_Raises ==
    /\ load # None /\ load.todo # {} /\ load.meta = None
    /\ LET data == metadata[First(load.todo)] IN
       load' = IF Readable(data) THEN [load EXCEPT !.meta = data] ELSE [load EXCEPT !.todo = {}, !.best = None]
    /\ UNCHANGED <<store, trainer, policy, damages, loads>>

\* Metadata that cannot be read is passed over.
ReadMetadata ==
    /\ load # None /\ load.todo # {} /\ load.meta = None
    /\ LET data == metadata[First(load.todo)] IN
       load' = IF Readable(data) THEN [load EXCEPT !.meta = data] ELSE [load EXCEPT !.todo = @ \ {First(@)}]
    /\ UNCHANGED <<store, trainer, policy, damages, loads>>

\* The bytes that are checked are the bytes that are kept.
ReadBytes ==
    /\ load # None /\ load.meta # None
    /\ LET v == First(load.todo)
           found == [base |-> v, bytes |-> artifact[v], metadata |-> load.meta, calibrator |-> None]
           activable == /\ Activable(load.policy, v, found.bytes)
                        /\ load.meta.candidate_status # "REJECTED_CANDIDATE" IN
       load' = [load EXCEPT !.todo = @ \ {v}, !.meta = None, !.best = IF activable THEN found ELSE @]
    /\ UNCHANGED <<store, trainer, policy, damages, loads>>

\* Bug variant: the file is opened again after it was checked.
Loaded_FromDisk == IF load.best = None THEN None ELSE [load.best EXCEPT !.bytes = artifact[load.best.base]]

Loaded == load.best

FinishLoad ==
    /\ load # None /\ load.todo = {}
    /\ load' = None
    /\ serving' = IF load.use = "serve" THEN Loaded ELSE serving
    /\ UNCHANGED <<store, trainer, policy, damages, binding>>
-----------------------------------------------------------------------------
(* load_latest_tennis_calibrator: the registry and the base again, then the calibrator *)

AllowedCalibrators(allowed, base) ==
    {c \in DOMAIN allowed : allowed[c].status = "ALLOWED" /\ allowed[c].base = base}

BindCalibrator ==
    /\ load = None /\ binding = None /\ serving # None /\ serving.calibrator = None
    /\ LET base == serving.base
           bound == AllowedCalibrators(PolicyNow, base) IN
       /\ Readable(metadata[base]) /\ metadata[base].candidate_status # "REJECTED_CANDIDATE"
       /\ Activable(PolicyNow, base, artifact[base])
       /\ bound # {}
       /\ binding' = [version |-> Newest(bound), policy |-> PolicyNow]
    /\ UNCHANGED <<store, trainer, policy, damages, load, serving>>

\* Bug variant: the registry is believed about the base of a calibrator.
Bound_Registry(entry, data, base) == Readable(data) /\ entry.base = base

\* The metadata has the hash of the registry, and both name the base that is served.
Bound(entry, data, base) ==
    /\ entry.metadata_sha256 # None /\ data.bytes = entry.metadata_sha256 /\ Readable(data)
    /\ data.base = entry.base /\ entry.base = base

ReadCalibrator ==
    /\ binding # None
    /\ LET c == binding.version
           usable == /\ Bound(binding.policy[c], metadata[c], serving.base)
                     /\ Activable(binding.policy, c, artifact[c])
                     /\ artifact[c] = "whole" IN      \* the hash its metadata has
       serving' = IF usable THEN [serving EXCEPT !.calibrator = [version |-> c, bytes |-> artifact[c]]] ELSE serving
    /\ binding' = None
    /\ UNCHANGED <<store, trainer, policy, damages, load>>
-----------------------------------------------------------------------------
RegistryNext ==
    \/ \E v \in Versions : StartTraining(v) \/ EditRegistry(v) \/ Damage(v) \/ LoadCandidateRegistry(v)
    \/ ContinueTraining \/ KillTraining \/ BreakRegistry
    \/ StartLoad \/ ReadMetadata \/ ReadBytes \/ FinishLoad
    \/ BindCalibrator \/ ReadCalibrator

RegistrySpec == RegistryInit /\ [][RegistryNext]_registryVars
-----------------------------------------------------------------------------
(* Properties *)

\* A version that is served was trained, and what is known about it is complete.
RegistryTypeOK ==
    /\ \A v \in Versions : metadata[v].bytes # None => trained[v] # None
    /\ serving # None => /\ serving.base \in Bases /\ Readable(serving.metadata)
                         /\ serving.calibrator # None => serving.calibrator.version \in Calibrators
    /\ load # None => \A v \in load.todo : trained[v] # None

\* The bytes that are served, of the model and of its calibrator, are bytes an operator
\* allowed under that version: an artifact that is overwritten after it was checked, a
\* registry that is edited or broken meanwhile, or an entry without a hash lets no other
\* bytes in (load_latest_tennis_artifact reads once; ModelRegistryPolicy.check_bytes).
ServedWasApproved ==
    serving # None =>
        /\ <<serving.base, serving.bytes>> \in approved
        /\ serving.calibrator # None => <<serving.calibrator.version, serving.calibrator.bytes>> \in approved

\* A model that did not beat the baseline in its own test is not served, even if an
\* operator allowed it, as long as nobody rewrote its metadata (candidate_status).
RejectedNeverServed ==
    (serving # None /\ serving.metadata.bytes = "whole") =>
        trained[serving.base].candidate_status # "REJECTED_CANDIDATE"

\* A calibrator is applied to the model it was fitted to, whatever base the registry
\* binds it to (_resolve_tennis_calibrator), unless its metadata was rewritten before
\* the operator took its hash.
CalibratorFitsModel ==
    (serving # None /\ serving.calibrator # None) =>
        \/ trained[serving.calibrator.version].base = serving.base
        \/ metadata[serving.calibrator.version].bytes = "other"

\* Where nothing changes during a load, it ends with the newest model that may be
\* activated: trainings that died half way do not hide the models before them
\* (load_latest_tennis_artifact passes over what it cannot read).
NewestIsServed ==
    (load # None /\ load.use = "serve" /\ load.quiet /\ load.todo = {}) =>
        IF Candidates = {} THEN load.best = None
        ELSE load.best # None /\ load.best.base = Newest(Candidates)

\* An evaluation runs the bytes the ledger says were trained and never touches what is
\* served (candidate_registry.py: one entry, checked against BASE_TRAINED).
EvaluatesWhatWasTrained ==
    (load # None /\ load.use = "evaluate" /\ load.todo = {} /\ Loaded # None) =>
        Loaded.base \in ledger /\ Loaded.bytes = "whole"

\* What is served belongs together: a model that passed its own test, and a calibrator that
\* was fitted to it.
ServedFits == RegistryTypeOK /\ RejectedNeverServed /\ CalibratorFitsModel
=============================================================================
