----------------------------- MODULE MCDirectory -----------------------------
EXTENDS Directory

CONSTANTS r1, r2, g1, g2, inv, terr, serr

\* Two reloads that may overlap, two valid documents so that an older and
\* a newer one can race, and one document of each rejected kind.
MCRequests    == {r1, r2}
MCGoodDocs    == {g1, g2}
MCInvalidDocs == {inv}
MCTypeErrDocs == {terr}
MCSyntaxDocs  == {serr}

\* Three seconds: a write in the second of an earlier one, and a later one.
MCMaxTime == 3

=============================================================================
