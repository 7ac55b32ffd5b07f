----------------------------- MODULE MCIngestion ------------------------------
EXTENDS Ingestion, TLC

CONSTANTS r1, r2, r3, s1, s2, i1, i2, i3, i4, i5, i6, x, y, c

\* i1 and i3 name the same two authors in opposite order, i2 one author
\* twice; s1 lists i2 twice, and i5 without a title.  An author of i6 has no
\* name; i4 is filed twice under one category.
MCByline == [i \in Items |-> CASE i = i1 -> <<x, y>>
                               [] i = i2 -> <<x, x>>
                               [] i = i3 -> <<y, x>>
                               [] i = i6 -> <<Null>>
                               [] OTHER -> <<y>>]
MCFiled == [i \in Items |-> IF i = i4 THEN <<c, c>> ELSE <<c>>]
MCListed == [s \in Sources |-> IF s = s1 THEN <<i2, i1, i2, i5>> ELSE <<i3, i6>>]
MCComing == [s \in Sources |-> IF s = s1 THEN <<i4>> ELSE <<>>]
Symmetric == Permutations(Runs)
===============================================================================
