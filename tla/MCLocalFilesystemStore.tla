----------------------- MODULE MCLocalFilesystemStore -----------------------
(* Small instances of LocalFilesystemStore for TLC. *)
EXTENDS LocalFilesystemStore, TLC

CONSTANTS w1, w2, r1, b1, b2, s1

OneBlob == b1 :> s1
OneShard == b1 :> s1 @@ b2 :> s1

\* Every kind of fault once.
EachFaultOnce == [k \in FaultKinds |-> 1]
\* Machines that go down, and nothing else that fails.
PowerOnly == [k \in FaultKinds |-> IF k = "power" THEN 2 ELSE 0]
=============================================================================
