---------------------------- MODULE MCEventFeed ----------------------------
\* Instances of EventFeed for TLC.
EXTENDS EventFeed, TLC

CONSTANTS c1, c2

MCConns1 == {c1}
MCConns2 == {c1, c2}
Interchangeable == Permutations({c1, c2})
NoRows   == {}
FirstRow == {1}
NoScripts == {}
=============================================================================
