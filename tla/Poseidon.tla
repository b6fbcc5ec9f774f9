------------------------------ MODULE Poseidon -----------------------------
(***************************************************************************)
(* The Poseidon permutation of width three, its two-to-one hash and its    *)
(* sponge, over Pallas (poseidon.hpp) and over Vesta (poseidon_v.hpp), and *)
(* the CycleFold digest built from the latter (cycfold.hpp).  A field is a *)
(* record: its modulus m, the matrix mds, the round constants rc, half the *)
(* number of full rounds, the number of partial rounds, and the initial    *)
(* value iv of each domain.                                                *)
(***************************************************************************)
EXTENDS Arrays

CONSTANTS
    Fp,         \* the Pallas instance
    Fq          \* the Vesta instance

P == Fp.m

---------------------------------------------------------------------------
p3_sbox(f, x) ==
    LET x2 == (x * x) % f.m
        x4 == (x2 * x2) % f.m
    IN  (x4 * x) % f.m

p3_mix(f, s) ==
    LET row(m) == (m[1] * s[1] + m[2] * s[2] + m[3] * s[3]) % f.m
    IN  <<row(f.mds[1]), row(f.mds[2]), row(f.mds[3])>>

\* A round adds the constants after the first k to its lanes, raises these
\* lanes to the fifth power and mixes all three.
Round(f, s, k, lanes) ==
    LET lane(i) == IF i <= lanes THEN p3_sbox(f, (s[i] + f.rc[k + i]) % f.m) ELSE s[i]
    IN  p3_mix(f, <<lane(1), lane(2), lane(3)>>)

\* Full rounds, then the partial ones on the first lane, then full rounds.
p3_permute(f, s0) ==
    LET full(q, n) == Run(LAMBDA t, r : [s |-> Round(f, t.s, t.k, 3), k |-> t.k + 3], q, UpTo(n))
        part(q, n) == Run(LAMBDA t, r : [s |-> Round(f, t.s, t.k, 1), k |-> t.k + 1], q, UpTo(n))
    IN  full(part(full([s |-> s0, k |-> 0], f.half), f.partial), f.half).s

poseidon3(d, l, r) == p3_permute(Fp, <<l, r, Fp.iv[d]>>)[1]

---------------------------------------------------------------------------
\* The sponge: two rate lanes, permuted when both are filled.
Sponge(f, d) == [s |-> <<0, 0, f.iv[d]>>, idx |-> 0, count |-> 0]

absorb(f, p, x) ==
    LET s == [p.s EXCEPT ![p.idx + 1] = (@ + x) % f.m]
    IN  [s     |-> IF p.idx = 1 THEN p3_permute(f, s) ELSE s,
         idx   |-> (p.idx + 1) % 2,
         count |-> p.count + 1]

\* The count and a one are absorbed first, and an odd lane is permuted.
squeeze(f, p) ==
    LET q == absorb(f, absorb(f, p, p.count), 1)
    IN  IF q.idx # 0 THEN p3_permute(f, q.s)[1] ELSE q.s[1]

Hash(d, xs) == squeeze(Fp, Run(LAMBDA p, x : absorb(Fp, p, x), Sponge(Fp, d), xs))

---------------------------------------------------------------------------
\* Vesta.
pv3_permute(s)       == p3_permute(Fq, s)
poseidon3v(d, l, r)  == pv3_permute(<<l, r, Fq.iv[d]>>)[1]
VestaSponge(d, xs)   == squeeze(Fq, Run(LAMBDA p, x : absorb(Fq, p, x), Sponge(Fq, d), xs))

\* digest: the tree over the limbs of x and of y, seven calls in all.
cyc_digest(x, y) ==
    LET p3(l, r) == poseidon3v("CYCLEFOLD", l, r)
    IN  p3(p3(p3(x[1], x[2]), p3(x[3], x[4])), p3(p3(y[1], y[2]), p3(y[3], y[4])))
=============================================================================
