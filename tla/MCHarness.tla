------------------------------- MODULE MCHarness -------------------------------
EXTENDS Harness

\* Two workers sending two messages each, so that a send phase can fail
\* part-way; two phase durations, so that maxima can be wrong.
MCWorkers    == {1, 2}
MCNumConns   == 2
MCMsgs       == 2
MCDurs       == {1, 2}
BothFlags    == BOOLEAN

\* -c 6 with NewConfig failing for every worker and no -same-start: one
\* worker more than startedChan holds.
SixWorkers   == 1..6
MCSix        == 6
OnlyTest     == {TRUE}
NoSameStart  == {FALSE}
ConfigFails  == {FALSE}

=============================================================================
