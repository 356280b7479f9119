----------------------------- MODULE MCScheduler -----------------------------
(* Scheduler on small instances: three requests that differ in length.     *)
EXTENDS Scheduler
CONSTANTS r1, r2, r3

ThreeReqs == {r1, r2, r3}
\* Two requests that start short and grow until they do not fit together, and
\* one with a prompt of several chunks.
Prompts == [r \in Reqs |-> CASE r = r1 -> 1 [] r = r2 -> 1 [] r = r3 -> 4]
Outputs == [r \in Reqs |-> CASE r = r1 -> 6 [] r = r2 -> 6 [] r = r3 -> 2]
TwoLong == [r \in Reqs |-> CASE r = r1 -> 1 [] r = r2 -> 3 [] r = r3 -> 5]
FirstGrows == [r \in Reqs |-> IF r = r1 THEN 10 ELSE 2]
\* As much as init_req_max_new_tokens leaves.
MaxOutputs == [r \in Reqs |-> Total - 2 - InputLen[r]]
SamePriority == [r \in Reqs |-> 0]
LastUrgent == [r \in Reqs |-> IF r = r3 THEN 1 ELSE 0]
\* A confident and a pessimistic new_token_ratio.
FewRatios == {1, 4}
NoPause == {}
InPlace == {"in_place"}
Retract == {"retract"}
=============================================================================
