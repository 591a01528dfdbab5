---------------------------- MODULE MCNkSchedList ----------------------------
EXTENDS NkSchedList

Delays == {0, 1}
=============================================================================
