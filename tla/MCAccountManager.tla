-------------------------- MODULE MCAccountManager --------------------------
EXTENDS AccountManager
=============================================================================
