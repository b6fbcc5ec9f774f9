------------------------------- MODULE Folding -----------------------------
(***************************************************************************)
(* Folding: the diagonal fold (nifs.hpp), the multifold over sparse R1CS   *)
(* (mfold.hpp), Pedersen commitments (pedersen.hpp) and the commitments    *)
(* folded beside the instances (cfold.hpp, cfold_live.hpp).  A sparse      *)
(* matrix is its number of rows and its entries <<row, column, value>>;    *)
(* rows and columns count from one.  Vesta points have coordinates modulo  *)
(* Fq.m and order P.                                                       *)
(***************************************************************************)
EXTENDS Sumcheck, Curves

CONSTANTS
    NCOLS,      \* coordinates of a batch commitment, 8
    PallasOrder \* the order of the Pallas group

FieldInv(x) == Power(P, x, P - 2)
Zeros(n) == Array(n, LAMBDA i : 0)
Plus(a, r, b) == Array(Len(a), LAMBDA i : (a[i] + r * b[i]) % P)     \* a + r b

---------------------------------------------------------------------------
\* nifs.hpp.
nifs_sat(A, B, C, in) ==
    FirstFailure(Len(A), LAMBDA k : LET i == k + 1
                                        z == in.z[i]
                                    IN  (((A[i] * z) % P) * ((B[i] * z) % P)
                                          - in.u * ((C[i] * z) % P) - in.E[i]) % P = 0)
strict_elem_inv(a, b, c, on) == IF on THEN (c * FieldInv((a * b) % P)) % P ELSE 0

nifs_fold(A, B, C, a, b) ==
    LET cross(i) == (((A[i] * a.z[i]) % P) * ((B[i] * b.z[i]) % P)
                     + ((A[i] * b.z[i]) % P) * ((B[i] * a.z[i]) % P)
                     - a.u * ((C[i] * b.z[i]) % P) - b.u * ((C[i] * a.z[i]) % P)) % P
        T  == Array(Len(A), cross)
        d1 == poseidon3("FOLD", Hash(SC, a.z), Hash(SC, b.z))
        r  == poseidon3("FOLD", poseidon3("FOLD", d1, Hash(SC, T)), Hash(SC, a.E))
    IN  [z |-> Plus(a.z, r, b.z), u |-> (a.u + r * b.u) % P, E |-> Plus(a.E, r, T)]

---------------------------------------------------------------------------
\* mfold.hpp.
mat_vec(M, z) ==
    LET row(r) == SelectSeq(M.e, LAMBDA t : t[1] = r)
    IN  Array(M.n, LAMBDA r : Run(LAMBDA s, t : (s + t[3] * z[t[2]]) % P, 0, row(r)))
fresh(z, n) == [u |-> 1, z |-> z, E |-> Zeros(n)]

\* The first failing row, from zero; the number of rows when none fails.
sat_relaxed(A, B, C, R) ==
    LET az == mat_vec(A, R.z)
        bz == mat_vec(B, R.z)
        cz == mat_vec(C, R.z)
    IN  FirstFailure(A.n, LAMBDA k : (az[k + 1] * bz[k + 1] - R.u * cz[k + 1] - R.E[k + 1]) % P = 0)

cross_term(A, B, C, U, J) ==
    LET au == mat_vec(A, U.z)
        bu == mat_vec(B, U.z)
        cu == mat_vec(C, U.z)
        aj == mat_vec(A, J.z)
        bj == mat_vec(B, J.z)
        cj == mat_vec(C, J.z)
    IN  Array(A.n, LAMBDA i : (au[i] * bj[i] + aj[i] * bu[i] - U.u * cj[i] - J.u * cu[i]) % P)

\* Mutant: every cross term is taken against the accumulator at the start.
Against_Start(U, acc) == U

\* The accumulator a cross term is taken against: the current one.
Against(U, acc) == acc

\* What the transcript binds: the accumulator, then each fresh instance with
\* its cross term against the accumulator at the start.
Surface(A, B, C, U, js) ==
    <<U.u>> \o U.z \o U.E \o
    FlattenSeq([j \in DOMAIN js |-> <<js[j].u>> \o js[j].z \o js[j].E \o cross_term(A, B, C, U, js[j])])
Chain(A, B, C, U, js, r) ==
    Run(LAMBDA acc, j : [u |-> (acc.u + r[j]) % P,
                              z |-> Plus(acc.z, r[j], js[j].z),
                              E |-> Plus(acc.E, r[j], cross_term(A, B, C, Against(U, acc), js[j]))],
             U, UpTo(Len(js)))

multifold(A, B, C, U, js) ==
    LET seed == Hash(SC, Surface(A, B, C, U, js))
        r    == Array(Len(js), LAMBDA j : poseidon3(SC, seed, j - 1))
    IN  [folded |-> Chain(A, B, C, U, js, r), r |-> r, seed |-> seed]

\* The same fold with one streamed digest as its transcript.
multifold_v2(A, B, C, U, js) ==
    LET seed == Sha(Surface(A, B, C, U, js))
        r    == Array(Len(js), LAMBDA j : digest_scalar(Sha(<<2, seed, j - 1>>)))
    IN  [folded |-> Chain(A, B, C, U, js, r), r |-> r, seed |-> seed]

---------------------------------------------------------------------------
\* The Vesta group.
Vadd(p, q)     == jac_add(Fq.m, p, q)
Vmult(p, k)    == Vmul(Fq.m, p, k)
VAffine(p)     == to_affine(Fq.m, p)
VOnCurve(p)    == on_curve(Fq.m, p)
VGen           == generator(Fq.m)
VDbl(p)        == jac_dbl(Fq.m, p)
fev_sqrt(a)    == fp_sqrt(Fq.m, a)
compress_v(p)  == compress(Fq.m, p)
decompress_v(x, odd) == decompress(Fq.m, x, odd)

\* cycfold.hpp: the digest of a payload as a multiple of the generator.
cyc_absorb(x, y) == Vmult(VGen, cyc_digest(x, y))

\* pedersen.hpp.  Three subtractions are allowed; a fourth is a failure.
scalar_from_digest(dg, order) ==
    LET left == Run(LAMBDA x, t : IF x >= order THEN x - order ELSE x, dg, UpTo(4))
    IN  [ok |-> dg < 4 * order, v |-> left]

pallas_base(i) == Vmul(P, generator(P), scalar_from_digest(Sha(<<3, i>>), PallasOrder).v)
pallas_commit(ms, r) ==
    Run(LAMBDA c, i : jac_add(P, c, Vmul(P, pallas_base(i), ms[i])), Vmul(P, generator(P), r), UpTo(NCOLS))
vesta_base(i) == Vmult(VGen, scalar_from_digest(Sha(<<4, i>>), P).v)
vesta_commit(ms, r) ==
    Run(LAMBDA c, i : Vadd(c, Vmult(vesta_base(i), ms[i])), Vmult(VGen, r), UpTo(NCOLS))

\* A base of its own for every position.
commit_vec(v, r) ==
    Run(LAMBDA c, i : Vadd(c, Vmult(vesta_base(i), v[i])), Vmult(VGen, r), UpTo(Len(v)))

---------------------------------------------------------------------------
\* cfold.hpp.  Coordinates past the batch width are not committed.
to_batches(z) == Array(NCOLS, LAMBDA i : IF i <= Len(z) THEN z[i] ELSE 0)
commit_instance(R, rho) == [rel |-> R, rho |-> rho, W |-> vesta_commit(to_batches(R.z), rho)]
fold_commitments(U, js, r) ==
    Run(LAMBDA acc, j : Vadd(acc, Vmult(js[j].W, r[j])), U.W, UpTo(Len(js)))
SamePoint(p, q) == p.z # 0 /\ q.z # 0 /\ VAffine(p) = VAffine(q)
commitment_consistent(U, js, MF) ==
    LET rho == Run(LAMBDA a, j : (a + MF.r[j] * js[j].rho) % P, U.rho, UpTo(Len(js)))
    IN  SamePoint(vesta_commit(to_batches(MF.folded.z), rho), fold_commitments(U, js, MF.r))

\* cfold_live.hpp.
rho_label(epoch, idx, d) == scalar_from_digest(Sha(<<5, epoch, idx, d>>), P)
rho_label_init(epoch) == scalar_from_digest(Sha(<<6, epoch>>), P)
commit_z(z, rho) == commit_vec(z, rho)
init_live(z, epoch) == LET rho == rho_label_init(epoch).v IN [W |-> commit_z(z, rho), rho |-> rho]
advance(acc, Wj, rho, r) == [W |-> Vadd(acc.W, Vmult(Wj, r)), rho |-> (acc.rho + r * rho) % P]
self_check(z, rho, W) == SamePoint(commit_z(z, rho), W)
verify_recommit(z, rho, W) == self_check(z, rho, W)

\* verify_C_link: the instance padded to a power of two and hashed.
NextPower(n) == CHOOSE k \in {2 ^ v : v \in 0 .. 12} : k >= n /\ (k = 1 \/ k \div 2 < n)
verify_C_link(z, E, u, C) ==
    LET evals == z \o E \o <<u>>
    IN  Hash(SC, evals \o Zeros(NextPower(Len(evals)) - Len(evals))) = C
---------------------------------------------------------------------------
\* A fold of satisfying instances satisfies, whatever the challenges, and an
\* error in one entry of the folded error vector does not.
FoldExact(A, B, C, zs) ==
    LET js  == [j \in 1 .. Len(zs) - 1 |-> fresh(zs[j + 1], A.n)]
        U   == fresh(zs[1], A.n)
        one == multifold(A, B, C, U, js).folded
        two == multifold_v2(A, B, C, one, js).folded
    IN  /\ \A j \in DOMAIN zs : sat_relaxed(A, B, C, fresh(zs[j], A.n)) = A.n
        /\ sat_relaxed(A, B, C, one) = A.n /\ sat_relaxed(A, B, C, two) = A.n
        /\ \A i \in 1 .. A.n : sat_relaxed(A, B, C, [two EXCEPT !.E[i] = (@ + 1) % P]) = i - 1
NifsExact(A, B, C, on) ==
    LET at(s) == [z |-> Array(Len(A), LAMBDA i : strict_elem_inv(A[i], B[i], C[i], (i + s) \in on)),
                  u |-> 1, E |-> Zeros(Len(A))]
        f == nifs_fold(A, B, C, at(0), at(1))
        g == nifs_fold(A, B, C, f, at(2))
    IN  nifs_sat(A, B, C, f) = Len(A) /\ nifs_sat(A, B, C, g) = Len(A)

\* The folded commitment opens to the folded witness and blinding, over the
\* batch and along the live chain, unless it is the point at infinity; no
\* other witness of one changed coordinate opens it.
CommitExact(A, B, C, zs, epoch) ==
    LET js   == [j \in 1 .. Len(zs) - 1 |-> fresh(zs[j + 1], A.n)]
        U    == fresh(zs[1], A.n)
        MF   == multifold(A, B, C, U, js)
        rho(j) == rho_label(epoch, j, zs[j][1]).v
        cs   == Array(Len(js), LAMBDA j : commit_instance(js[j], rho(j)))
        cu   == commit_instance(U, rho_label_init(epoch).v)
        live == Run(LAMBDA L, j : advance(L, commit_z(js[j].z, rho(j)), rho(j), MF.r[j]),
                         init_live(U.z, epoch), UpTo(Len(js)))
        inst == MF.folded.z \o MF.folded.E \o <<MF.folded.u>>
    IN  /\ fold_commitments(cu, cs, MF.r).z # 0 => commitment_consistent(cu, cs, MF)
        /\ live.W.z # 0 => self_check(MF.folded.z, live.rho, live.W)
        /\ \A i \in DOMAIN U.z : vesta_base(i).z # 0 =>
              ~verify_recommit([MF.folded.z EXCEPT ![i] = (@ + 1) % P], live.rho, live.W)
        /\ VOnCurve(live.W) /\ LET c == compress_v(live.W)
                               IN  decompress_v(c.x, c.odd) = [ok |-> TRUE, p |-> VAffine(live.W)]
        /\ verify_C_link(MF.folded.z, MF.folded.E, MF.folded.u,
                         Hash(SC, inst \o Zeros(NextPower(Len(inst)) - Len(inst))))
=============================================================================
