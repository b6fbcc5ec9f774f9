----------------------------- MODULE MCCeremony -----------------------------
(* Instances of Ceremony for TLC. *)
EXTENDS Ceremony

\* Nodes are numbered; envelopes are 1, 2, ..., plain decrees 101, 102, ...
\* Node 1 runs on the default port, the others do not.
PortMember == [n \in Node |-> IF n = 1 THEN 1 ELSE 2]

\* The --seed topologies: every node dials the anchor, nodes that name each
\* other; and two that refute a property: in a chain two nodes with one member
\* number (LockHasThreshold), two pairs with T = 2 (LockAgreement).
SeedAnchor == {<<n, 1>> : n \in Node \ {1}}
SeedLine   == {<<n + 1, n>> : n \in {k \in Node : k + 1 \in Node}}
SeedPairs  == {<<2, 1>>, <<4, 3>>}
SeedMutual == {c \in Node \X Node : c[1] # c[2]}

\* Nobody listens on a reversed address; every public address is a palindrome.
NoMirror  == [a \in {} |-> a]
Palindrome == [a \in Public |-> a]

\* A sort key that depends on the envelope and on the whole beacon chain.
BeaconKey(b, e) == IF (Len(b) + b[Len(b)]) % 2 = 0 THEN e ELSE -e
=============================================================================
