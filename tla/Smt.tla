-------------------------------- MODULE Smt --------------------------------
(***************************************************************************)
(* The sparse Merkle tree over the vault's append-only slots (vault.hpp,   *)
(* update.hpp, the lookup of tx.hpp), as operators on a vault record       *)
(*     V = [mem, tail, nseg]                                               *)
(* the mapped slots, the next free slot of the last segment and the number *)
(* of mapped segments.  A handle is <<tag, segment, slot>>, NoHandle is    *)
(* HEMPTY.  Poseidon is injective: a hash is the term it was computed from.*)
(***************************************************************************)
EXTENDS Integers, Sequences

CONSTANTS
    Key,            \* account keys
    index_of(_),    \* the low limb of a key: its leaf position
    Depth,          \* SMT_DEPTH
    SegSlots,       \* SEG_SLOTS
    BalCap          \* 2^126

ASSUME SmtAssumption == Depth \in Nat /\ SegSlots \in Nat /\ BalCap \in Nat

NoHandle  == << >>
NoHash    == <<"zero">>             \* a field element never assigned
NoAccount == [mag |-> 0, sign |-> FALSE, nonce |-> 0, flags |-> 0, absent |-> TRUE]
Account(m, n) == [mag |-> m, sign |-> FALSE, nonce |-> n, flags |-> 0, absent |-> FALSE]

Bit(k, l) == (index_of(k) \div 2^l) % 2

\* encode_payload_bytes: what a leaf can hold; the encoding is injective.
encodable(st) ==
    /\ ~(st.sign /\ st.mag = 0)
    /\ st.mag < BalCap
    /\ st.flags \in {0, 1}

\* Mutant: the leaf hash does not bind the key.
LeafHash_Keyless(k, st) == <<"leaf", st>>

LeafHash(k, st) == <<"leaf", k, st>>
NodeHash(l, r)  == <<"node", l, r>>

\* build_empty_table: the hash of an empty subtree of each height.
empty_table[h \in 0 .. Depth] ==
    IF h = 0 THEN <<"leaf", 0, 0>>
    ELSE NodeHash(empty_table[h - 1], empty_table[h - 1])

deref(V, h)         == V.mem[<<h[2], h[3]>>]
entry_hash(V, h, l) == IF h = NoHandle THEN empty_table[l] ELSE deref(V, h).hash

\* Vault::alloc: a full segment is followed by a new one; the slot counter
\* is not reset, so the slot of the new handle lies past the mapping.  There
\* the code's copy is undefined, as a failed map_segment is not looked at, and
\* the operator stands for the code only up to SegSlots.
alloc(V, e) ==
    LET n == IF V.nseg = 0 \/ V.tail >= SegSlots THEN V.nseg + 1 ELSE V.nseg
        a == <<n - 1, V.tail>>
    IN  [v |-> [mem  |-> [x \in DOMAIN V.mem \cup {a} |-> IF x = a THEN e ELSE V.mem[x]],
                tail |-> V.tail + 1, nseg |-> n],
         h |-> <<e.tag, a[1], a[2]>>]

\* One step of a descent: the handle below h on the key's side, if h is an
\* inner node.
Child(V, k, l, h) ==
    IF h = NoHandle \/ deref(V, h).tag # "MID" THEN NoHandle
    ELSE IF Bit(k, l) = 1 THEN deref(V, h).right ELSE deref(V, h).left

\* The handles on the way from the root (height Depth) down to a leaf (0).
Descent(V, root, k) ==
    LET at[l \in 0 .. Depth] == IF l = Depth THEN root ELSE Child(V, k, l, at[l + 1])
    IN  at

Sibling(V, k, at, l) ==
    LET h == at[l + 1]
    IN  IF h = NoHandle THEN NoHandle
        ELSE IF Bit(k, l) = 1 THEN deref(V, h).left ELSE deref(V, h).right

\* lookup_account: the record of the leaf at the key's position, if it is
\* this key's.
lookup_account(V, root, k) ==
    LET leaf == Descent(V, root, k)[0]
    IN  IF leaf = NoHandle THEN NoAccount
        ELSE LET rec == deref(V, deref(V, leaf).rec)
             IN  IF rec.key = k THEN rec.st ELSE NoAccount

\* The copy of the node of height l + 1 on the path, over the copy c of its
\* child: the other child stays.
Copied(V, k, at, l, c) ==
    LET s     == Sibling(V, k, at, l)
        hs    == entry_hash(V, s, l)
        hc    == deref(c.v, c.h).hash
        right == Bit(k, l) = 1
    IN  alloc(c.v, [tag   |-> "MID",
                    left  |-> IF right THEN s ELSE c.h,
                    right |-> IF right THEN c.h ELSE s,
                    hash  |-> IF right THEN NodeHash(hs, hc) ELSE NodeHash(hc, hs)])

\* The new record and the leaf over it.
NewLeaf(V, k, st) ==
    LET r == alloc(V, [tag |-> "REC", key |-> k, st |-> st])
    IN  alloc(r.v, [tag |-> "TLEAF", rec |-> r.h, hash |-> LeafHash(k, st)])

\* The new path from the leaf up.
NewPath(V, k, st, at) ==
    LET up[l \in 0 .. Depth] ==
          IF l = 0 THEN NewLeaf(V, k, st) ELSE Copied(V, k, at, l - 1, up[l - 1])
    IN  up

\* Updater::set_account: copy-on-write of the path; "fault" when the leaf
\* position belongs to another key, "noop" when nothing would change.
set_account(V, root, k, st) ==
    LET at   == Descent(V, root, k)
        leaf == at[0]
        held == deref(V, deref(V, leaf).rec)
        top  == NewPath(V, k, st, at)[Depth]
    IN  IF ~encodable(st) THEN [v |-> V, root |-> root, res |-> "noop"]
        ELSE IF leaf # NoHandle /\ held.key # k THEN [v |-> V, root |-> root, res |-> "fault"]
        ELSE IF leaf # NoHandle /\ held.st = st THEN [v |-> V, root |-> root, res |-> "noop"]
        ELSE [v |-> top.v, root |-> top.h, res |-> "set"]

\* Prover::open: occupancy, the leaf hash and the sibling hashes; the leaf
\* hash of an unoccupied position stays zero.
open(V, root, k) ==
    LET at == Descent(V, root, k)
    IN  [occupied  |-> at[0] # NoHandle,
         leaf_hash |-> IF at[0] = NoHandle THEN NoHash ELSE deref(V, at[0]).hash,
         sib       |-> [l \in 0 .. Depth - 1 |-> entry_hash(V, Sibling(V, k, at, l), l)]]

\* The hashes from a leaf's to the root's that an opening's siblings give.
Climb(k, leaf, sib) ==
    LET up[l \in 0 .. Depth] ==
          IF l = 0 THEN leaf
          ELSE IF Bit(k, l - 1) = 1 THEN NodeHash(sib[l - 1], up[l - 1])
          ELSE NodeHash(up[l - 1], sib[l - 1])
    IN  up

\* verify_opening for a claimed state, or for NoAccount: the null pointer, a
\* claim of absence, which takes the leaf hash of the proof as it is.
verify_opening(expected, k, st, pr) ==
    /\ pr.occupied = (st # NoAccount)
    /\ st # NoAccount => encodable(st) /\ pr.leaf_hash = LeafHash(k, st)
    /\ Climb(k, pr.leaf_hash, pr.sib)[Depth] = expected
=============================================================================
