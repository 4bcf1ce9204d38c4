------------------------- MODULE MCVisibilityStore -------------------------
(* VisibilityStore on the small sets that TLC runs it on.  Clients that send *)
(* any list do what a second tab could do, and more.                         *)
EXTENDS VisibilityStore, TLC

CONSTANTS a1, a2, t1, p1, p2, l1, l2

MCApps == {a1, a2}
MCTabs == {t1}
MCPuts == {p1, p2}
MCLoads == {l1, l2}

Symmetry == Permutations(MCApps) \cup Permutations(MCPuts)
                \cup Permutations(MCLoads)

=============================================================================
