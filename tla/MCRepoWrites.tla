---------------------------- MODULE MCRepoWrites ----------------------------
EXTENDS RepoWrites
=============================================================================
