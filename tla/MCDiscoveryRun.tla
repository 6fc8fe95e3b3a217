---------------------------- MODULE MCDiscoveryRun ----------------------------
(* Instances of DiscoveryRun for TLC.                                      *)
EXTENDS DiscoveryLifecycle

CONSTANTS g1, g2, l1, cto, head, greenhouse, lever

Posting(j, k, complete) == [job |-> j, key |-> k, ok |-> complete]

(* The other portal lists an opportunity of its own or, as the mock portals *)
(* do, the same one; one posting is incomplete.                             *)
MCBoards ==
  [p \in Portal |->
     IF p = greenhouse
       THEN {<<Posting(g1, cto, TRUE), Posting(g1, head, FALSE)>>}
       ELSE {<<Posting(l1, head, TRUE)>>, <<Posting(l1, cto, TRUE)>>}]

(* One listing, for the runs with overlapping calls.                       *)
FewBoards ==
  [p \in Portal |-> IF p = greenhouse
                      THEN {<<Posting(g1, cto, TRUE), Posting(g2, head, TRUE)>>} ELSE {}]

(* enabled_portals names two portals, or one of them twice.                *)
PortalsAndRepeats == {<<greenhouse, lever>>, <<greenhouse, greenhouse>>}
OnePortal == {<<greenhouse>>}

Rating(r, v) == [recommendation |-> r, verdict |-> v]

AllRatings == {Rating("normal_apply", "ALLOW"), Rating("normal_apply", "HUMAN_INPUT_REQUIRED"),
               Rating("human_review", "ALLOW"), Rating("human_review", "BLOCK"),
               Rating("reject", "ALLOW")}
FewRatings == {Rating("normal_apply", "ALLOW"), Rating("human_review", "ALLOW")}
=============================================================================
