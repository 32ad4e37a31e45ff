--------------------------- MODULE MCRoleInvocation ---------------------------
(* The instance of RoleInvocation that TLC checks: three callers, so that  *)
(* two can race while a third arrives late; two provider inputs; and as    *)
(* many invocation ids as let every caller claim and one claim again.      *)
EXTENDS RoleInvocation, TLC

CONSTANTS c1, c2, c3, b1, b2, i1, i2, i3

MCCallers == {c1, c2, c3}
MCBindings == {b1, b2}
MCIds == {i1, i2, i3}
MCSymmetry == Permutations(MCCallers) \cup Permutations(MCBindings) \cup Permutations(MCIds)
==============================================================================
