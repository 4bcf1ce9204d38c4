-------------------------- MODULE MCShortcutStore --------------------------
(* ShortcutStore on the small sets that TLC runs it on.  Clients that send  *)
(* any list do what a second tab could do, and more.                        *)
EXTENDS ShortcutStore, TLC

CONSTANTS t1, c1, c2

MCIds == {1, 2}
MCTabs == {t1}
MCCalls == {c1, c2}
MCBodies == {Plain(list) : list \in {<<>>, <<1>>, <<1, 1>>, <<2, 1>>}}
    \cup {<<[id |-> 1, form |-> form]>> : form \in {"blank", "empty", "slashed"}}
    \cup {<<[id |-> 1, form |-> "padded"], [id |-> 1, form |-> "good"]>>,
          <<[id |-> 2, form |-> "padded"]>>}

Symmetry == Permutations(MCCalls)

=============================================================================
