---------------------------- MODULE MCTapChannel ----------------------------
EXTENDS TapChannel
=============================================================================
