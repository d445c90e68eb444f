--------------------------- MODULE MCRecommendations ---------------------------
(* A hospital and the incident's own zone. Commanders decide, with a retry key, *)
(* without one, and with one key for two recommendations; an operator, who may  *)
(* only propose, tries to.                                                      *)
EXTENDS Recommendations, TLC

CONSTANTS h1, z1, k1

Generations ==
  {[role |-> "COMMANDER", mode |-> "REAL_DATA"], [role |-> "OPERATOR", mode |-> "DEMO"]}

Request(op, r, role, key) == [op |-> op, rec |-> r, role |-> role, key |-> key]
Decisions ==
  {Request("approve", h1, "COMMANDER", k1), Request("reject", h1, "COMMANDER", Absent),
   Request("approve", z1, "COMMANDER", k1),
   Request("approve", z1, "OPERATOR", Absent), Request("reject", z1, "OPERATOR", Absent)}

Symmetry == Permutations(Thread)
================================================================================
