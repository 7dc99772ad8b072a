------------------------------ MODULE MCCapture ------------------------------
EXTENDS Capture

\* A capture without the resolvers meets every order of two comparisons.  The
\* look-up does not depend on the resolvers, so the others, whose paths are
\* longer, meet none.
Evidence == [resolves \in BOOLEAN |-> IF resolves THEN 0 ELSE 2]
NoEvidence == [resolves \in BOOLEAN |-> 0]
=============================================================================
