-------------------------- MODULE MCFirehoseRunner --------------------------
EXTENDS FirehoseRunner, TLC

Accounts == Permutations(Dids)
=============================================================================
