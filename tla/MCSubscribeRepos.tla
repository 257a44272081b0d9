-------------------------- MODULE MCSubscribeRepos --------------------------
EXTENDS SubscribeRepos
=============================================================================
