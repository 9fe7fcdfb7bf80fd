------------------------------ MODULE MCTestVM ------------------------------
EXTENDS TestVM

CONSTANTS l1, l2, b1, b2

Launch2(first, second) == [l \in Launches |-> IF l = l1 THEN first ELSE second]
Of(build, apple, changes) == [build |-> build, apple |-> apple, changes |-> changes]
\* Two launches of one build, one without changes and so directly from the cache; and launches of other kinds
MCPlans == {Launch2(Of(b1, FALSE, "accounts"), Of(b1, FALSE, "nothing")),
            Launch2(Of(b1, FALSE, "kernel"), Of(b2, TRUE, "nothing"))}
=============================================================================
