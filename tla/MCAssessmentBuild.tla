-------------------------- MODULE MCAssessmentBuild --------------------------
EXTENDS AssessmentBuild

CONSTANTS p1, p2, d1, d2, gap1, method1, use1, limit1, gap2, method2, use2, limit2

\* Each of two papers states a gap, the first strongly, has a method, a
\* limitation and an application.
Of1 == {gap1, method1, use1, limit1}
MCClaims == Of1 \cup {gap2, method2, use2, limit2}
MCPaperOf == [c \in MCClaims |-> IF c \in Of1 THEN p1 ELSE p2]
MCTypeOf ==
    [c \in MCClaims |->
        CASE c \in {gap1, gap2} -> "research_gap"
          [] c \in {method1, method2} -> "method"
          [] c \in {limit1, limit2} -> "limitations"
          [] OTHER -> "applications"]
=============================================================================
