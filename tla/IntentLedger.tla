---------------------------- MODULE IntentLedger ----------------------------
(***************************************************************************)
(* What registering fills promises its users: an intent is recorded at     *)
(* most once and never changes, and a user is told that an intent is       *)
(* recorded only when it is, with the contents that were recorded.  How    *)
(* often the user clicked, and what the network did, cannot be seen here.  *)
(***************************************************************************)
CONSTANTS Intent, Entry, None

VARIABLES recorded, told

Init ==
    /\ recorded = [i \in Intent |-> None]
    /\ told = [i \in Intent |-> None]

Record(i, e) ==
    /\ recorded[i] = None
    /\ recorded' = [recorded EXCEPT ![i] = e]
    /\ UNCHANGED told

Tell(i) ==
    /\ recorded[i] # None
    /\ told' = [told EXCEPT ![i] = recorded[i]]
    /\ UNCHANGED recorded

\* The user closes the form that showed the result.
Forget(i) ==
    /\ told' = [told EXCEPT ![i] = None]
    /\ UNCHANGED recorded

Next == \E i \in Intent : Tell(i) \/ Forget(i) \/ \E e \in Entry : Record(i, e)

Spec == Init /\ [][Next]_<<recorded, told>>
=============================================================================
