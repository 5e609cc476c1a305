------------------------------ MODULE BlobStore ------------------------------
(* The contract of the artifact store (src/storage/artifact_store.py): what a *)
(* caller of put, get and exists may be told, as if each call took effect at  *)
(* one instant. A key is the SHA-256 of its bytes, so it names one blob.      *)
EXTENDS Naturals

CONSTANTS Procs, Blobs

VARIABLES
    stored,     \* for the key of each blob: absent, intact or damaged bytes
    asked       \* the call each process made last, and what it was answered

vars == <<stored, asked>>

NoCall == [op |-> "none"]
Asking(op, b) == [op |-> op, blob |-> b, answer |-> "pending"]

TypeOK ==
    /\ stored \in [Blobs -> {"absent", "intact", "damaged"}]
    /\ \A p \in Procs : asked[p] = NoCall \/ asked[p].blob \in Blobs

Init == stored = [b \in Blobs |-> "absent"] /\ asked = [p \in Procs |-> NoCall]

Open(p) == asked[p] # NoCall /\ asked[p].answer \in {"pending", "published"}

Call(p) ==
    /\ ~Open(p)
    /\ \E op \in {"put", "get", "exists"}, b \in Blobs :
        asked' = [asked EXCEPT ![p] = Asking(op, b)]
    /\ UNCHANGED stored

\* Bytes appear under their key once, whole, and only where there were none.
Publish(p) ==
    /\ asked[p] # NoCall /\ asked[p].op = "put" /\ asked[p].answer = "pending"
    /\ stored[asked[p].blob] = "absent"
    /\ stored' = [stored EXCEPT ![asked[p].blob] = "intact"]
    /\ asked' = [asked EXCEPT ![p].answer = "published"]

\* A failure may be reported at any time; a success only of what is there.
Allowed(c, r) ==
    LET found == stored[c.blob] IN
    \/ c.op = "put" /\ r = "key" /\ (c.answer = "published" \/ found = "intact")
    \/ c.op = "put" /\ r = "integrity_error" /\ c.answer = "pending"
    \/ c.op = "put" /\ r = "publish_error"
    \/ c.op = "get" /\ r = "data" /\ found = "intact"
    \/ c.op = "get" /\ r = "not_found" /\ found = "absent"
    \/ c.op = "get" /\ r = "integrity_error"
    \/ c.op = "exists" /\ r = "yes" /\ found # "absent"
    \/ c.op = "exists" /\ r = "no"
    \/ r = "configuration_error" /\ c.answer = "pending"

Answer(p) ==
    /\ Open(p)
    /\ \E r \in {"key", "data", "yes", "no", "not_found", "integrity_error",
             "publish_error", "configuration_error"} :
        /\ Allowed(asked[p], r)
        /\ asked' = [asked EXCEPT ![p].answer = r]
    /\ UNCHANGED stored

\* The owner of the files may alter them; nothing repairs them.
Damage ==
    /\ \E b \in Blobs :
        stored[b] = "intact" /\ stored' = [stored EXCEPT ![b] = "damaged"]
    /\ UNCHANGED asked

Kill(p) == asked' = [asked EXCEPT ![p] = NoCall] /\ UNCHANGED stored

\* A power loss ends every call and may lose blobs, but alters none.
PowerLoss ==
    /\ \E lost \in SUBSET Blobs :
        stored' = [b \in Blobs |-> IF b \in lost THEN "absent" ELSE stored[b]]
    /\ asked' = [p \in Procs |-> NoCall]

Next ==
    \/ \E p \in Procs : Call(p) \/ Publish(p) \/ Answer(p) \/ Kill(p)
    \/ Damage
    \/ PowerLoss

Spec == Init /\ [][Next]_vars
=============================================================================
