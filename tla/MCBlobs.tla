------------------------------ MODULE MCBlobs ------------------------------
EXTENDS Blobs, TLC

CONSTANTS c1, c2, r1, r2

Scope(cids, records, ops) == [cids |-> cids, records |-> records, ops |-> ops]

\* Two records that share a blob; one with two blobs; one whose blob is
\* taken down and which may be imported
MCScopes == {Scope({c1}, {r1, r2}, {}),
             Scope({c1, c2}, {r1}, {}),
             Scope({c1}, {r1}, {"takedown", "importRepo"})}

Names == Permutations({c1, c2}) \cup Permutations({r1, r2})
=============================================================================
