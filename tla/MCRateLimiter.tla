--------------------------- MODULE MCRateLimiter ----------------------------
(* Instances of RateLimiter for TLC.                                       *)
EXTENDS RateLimiter, TLC
CONSTANTS r1, r2, e1

NewQuota(id, categories, scope, limit, window) ==
  [id |-> id, categories |-> categories, scope |-> scope, scope_id |-> None,
   limit |-> limit, window |-> window]
MCQuotas ==
  {NewQuota("a", {"error"}, "organization", 1, 2),
   NewQuota("b", {"error", "attachment"}, "project", 2, 3)}
NewScoping(project) ==
  [organization_id |-> 3, project_id |-> project, project_key |-> project, key_id |-> None]
MCScopings == {NewScoping(1)}
Symmetric == Permutations({r1, r2})
=============================================================================
