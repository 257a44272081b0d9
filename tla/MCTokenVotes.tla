---------------------------- MODULE MCTokenVotes ----------------------------
EXTENDS TokenVotes

CONSTANTS a, b, k

\* One record of each voter
OneEach == {<<a, k>>, <<b, k>>}
=============================================================================
