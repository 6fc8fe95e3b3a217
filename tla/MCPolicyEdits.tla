---------------------------- MODULE MCPolicyEdits ----------------------------
(* Small values for PolicyEdits: scores on both sides of every band, years *)
(* on both sides of half the required tenure, limits at and above zero.    *)
EXTENDS PolicyEdits

MCScore  == {0, 1, 3}
MCSalary == {[low |-> 0, high |-> Unknown, currency |-> "USD"],
             [low |-> 0, high |-> 1, currency |-> "none"],
             [low |-> 0, high |-> 0, currency |-> "EUR"],
             [low |-> Unknown, high |-> Unknown, currency |-> "none"]}
MCAmount == 0 .. 1
MCCurrency == {"USD", "EUR"}
MCYears  == {1, 3}
MCLimit  == {0, 1}
MCThresholds == [priority_apply |-> 4, normal_apply |-> 3, apply_if_capacity |-> 2,
                 human_review |-> 1]
MCConfigured == [minimum_match_score |-> 1, compensation_minimum |-> 0,
                 compensation_currency |-> "USD", excluded |-> {"company"},
                 work_authorization |-> FALSE, maximum_applications_per_day |-> 1]
=============================================================================
