------------------------ MODULE MCOpportunityHistory ------------------------
(* Small instances of OpportunityHistory for TLC. *)
EXTENDS OpportunityHistory, TLC

CONSTANTS job, api, m1, m2

\* Both on m1, and the request on m2 as well.
Mixed == job :> <<m1>> @@ api :> <<m1, m2>>
\* Both on the same record.
Shared == job :> <<m1>> @@ api :> <<m1>>
=============================================================================
