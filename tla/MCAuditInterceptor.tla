-------------------------- MODULE MCAuditInterceptor --------------------------
(* An instance of AuditInterceptor for TLC: limits around both bounds, two *)
(* of the statuses, which the model tells apart but treats alike.          *)
EXTENDS AuditInterceptor, TLC

MCLimits == {-1, 0, 1, 3}

MCThrown == {[http |-> TRUE, status |-> "400"], [http |-> TRUE, status |-> "429"],
             [http |-> FALSE, status |-> "none"]}

RequestSymmetry == Permutations(Requests)
==============================================================================
