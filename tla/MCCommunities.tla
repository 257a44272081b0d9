--------------------------- MODULE MCCommunities ---------------------------
EXTENDS Communities, TLC

Names == Permutations(Daos) \cup Permutations(Users) \cup Permutations(Slots)
         \cup Permutations(Prefixes) \cup Permutations(Suffixes)
=============================================================================
