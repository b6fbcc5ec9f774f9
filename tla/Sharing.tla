------------------------------ MODULE Sharing ------------------------------
(***************************************************************************)
(* Threshold sharing over F_R and its groups: polynomials and Lagrange     *)
(* weights (threshold/poly.hpp), Feldman commitments (dkg.hpp), the epoch  *)
(* transcript and checked aggregation (dkg_vss.hpp), equality proofs and   *)
(* blame (m2.hpp), partial signatures (sig.hpp, m2prod.hpp) and the beacon *)
(* (beacon.hpp).  Points are real points of the instance's curves.         *)
(***************************************************************************)
EXTENDS Pairing, FiniteSets

CONSTANT Hash(_)        \* SHA-256 of a statement, as draws below 2 * R

Fr == 0 .. R - 1
Product(s) == Run(LAMBDA a, b : (a * b) % R, 1, s)
Except1(n, i) == SelectSeq([j \in 1 .. n |-> j], LAMBDA j : j # i)
Distinct(xs) == \A i, j \in DOMAIN xs : i # j => xs[i] # xs[j]

\* poly_eval: Horner from the last coefficient.
poly_eval(c, x) ==
    IF c = << >> THEN 0
    ELSE FoldRight(LAMBDA a, acc : (acc * x + a) % R, Front(c), Last(c))

\* lagrange_zero: one inversion a factor; refused on a repeated point.
lagrange_zero(xs) ==
    [ok  |-> Distinct(xs),
     lam |-> [i \in DOMAIN xs |->
                Product([k \in 1 .. Len(xs) - 1 |->
                   LET j == Except1(Len(xs), i)[k]
                   IN  ((0 - xs[j]) % R) * Inverse_mod(R, (xs[i] - xs[j]) % R)])]]

\* Mutant: the suffix walk forgets the denominators it has passed.
SuffixRun_Constant(den, i) == Inverse_mod(R, Product(den))

\* Inverse of the denominators up to the i-th: the walk down from the last
\* multiplies the one inversion by each denominator passed.
SuffixRun(den, i) == (Inverse_mod(R, Product(den)) * Product(SubSeq(den, i + 1, Len(den)))) % R

\* lagrange_zero_batch: prefix products, one inversion, suffix walk.
lagrange_zero_batch(xs) ==
    LET n == Len(xs)
        num == [i \in 1 .. n |-> Product([k \in 1 .. n - 1 |-> (0 - xs[Except1(n, i)[k]]) % R])]
        den == [i \in 1 .. n |-> Product([k \in 1 .. n - 1 |-> (xs[i] - xs[Except1(n, i)[k]]) % R])]
    IN  [ok  |-> Distinct(xs),
         lam |-> [i \in 1 .. n |->
                    (num[i] * ((Product(SubSeq(den, 1, i - 1)) * SuffixRun(den, i)) % R)) % R]]

\* lagrange_at_zero of the transcript code: x_m / (x_m - x_j), skipping equals.
lagrange_at_zero(xs, xj) ==
    LET others == SelectSeq(xs, LAMBDA x : x # xj)
    IN  (Product(others) * Inverse_mod(R, Product([k \in DOMAIN others |-> (others[k] - xj) % R]))) % R

---------------------------------------------------------------------------
\* Weighted sums of points, from infinity or from the first term.
Sum1(ws, ps) == Run(LAMBDA s, i : Padd(s, Pmul(ps[i], ws[i])), Inf, [i \in DOMAIN ps |-> i])
Sum2(ws, ps) == Run(LAMBDA s, i : g2_add(s, g2_mul(ps[i], ws[i])), Inf2, [i \in DOMAIN ps |-> i])

\* dkg.hpp: commitments, shares, and the share check in G1, which refuses
\* whenever either side is infinity.
commit(c) == [k \in DOMAIN c |-> Pmul(G1gen, c[k])]
share_for(c, j) == poly_eval(c, j)
dkg_verify_share(j, s, C) ==
    LET lhs == Pmul(G1gen, s)
        rhs == Sum1([k \in DOMAIN C |-> Power(R, j, k - 1)], C)
    IN  /\ lhs.z # 0 /\ rhs.z # 0
        /\ AffineQ(lhs) = AffineQ(rhs)
aggregate_pk(all) ==
    Run(LAMBDA y, C : IF C = << >> THEN y ELSE Padd(y, C[1]), Inf, all)

\* dkg_vss.hpp: the committee's parameters, and the transcript of an epoch.
config_ok(n, t) == t >= 2 /\ n >= t /\ 2 * t >= n /\ n <= 224
deal(n, t, words) ==
    LET c == SubSeq(words, 1, t)                \* one word of the seed per coefficient
    IN  [n |-> n, t |-> t, f |-> c,
         C  |-> [k \in 1 .. t |-> g2_mul(G2gen, c[k])],
         Y  |-> [j \in 1 .. n |-> g2_mul(G2gen, share_for(c, j))],
         Y1 |-> [j \in 1 .. n |-> Pmul(G1gen, share_for(c, j))]]
pt_eq(a, b) == g2_affine(a) = g2_affine(b)

\* Horner in the exponent.
vss_verify_share(T, j, Yj) ==
    /\ j \in 1 .. T.n
    /\ pt_eq(FoldRight(LAMBDA Ck, rhs : g2_add(g2_mul(rhs, j), Ck), Front(T.C), Last(T.C)), Yj)
verify_own(T, j, s) == vss_verify_share(T, j, g2_mul(G2gen, s))

---------------------------------------------------------------------------
\* m2.hpp: decryption shares and the proof that log_G(Y) = log_R(D).
dec_share(s, Rp) == g2_mul(Rp, s)
\* The first half of each coordinate only is compared.
g2_eq(a, b) ==
    LET p == g2_affine(a)
        q == g2_affine(b)
    IN  \/ a.z = Zero2 /\ b.z = Zero2
        \/ a.z # Zero2 /\ b.z # Zero2 /\ p.x[1] = q.x[1] /\ p.y[1] = q.y[1]

\* fr_from_digest: the first of the redrawn digests that is below R.
fr_from_digest(draws) ==
    LET good == {i \in DOMAIN draws : draws[i] < R}
    IN  IF good = {} THEN [ok |-> FALSE, v |-> 0]
        ELSE [ok |-> TRUE, v |-> draws[CHOOSE i \in good : \A j \in good : i <= j]]
dleq_challenge(stmt) == LET d == fr_from_digest(Hash(stmt)) IN IF d.ok THEN d.v ELSE 1
Stmt(Rp, Y, D, A1, A2) == [i \in 1 .. 5 |-> g2_affine(<<Rp, Y, D, A1, A2>>[i])]
dleq_prove(s, Rp, Y, D) ==
    LET k  == dleq_challenge(Stmt(Rp, Y, D, g2_mul(G2gen, s), Inf2))   \* nonce from secret and statement
        A1 == g2_mul(G2gen, k)
        A2 == g2_mul(Rp, k)
    IN  [A1 |-> A1, A2 |-> A2, z |-> (k + dleq_challenge(Stmt(Rp, Y, D, A1, A2)) * s) % R]
dleq_verify(p, Rp, Y, D) ==
    LET c == dleq_challenge(Stmt(Rp, Y, D, p.A1, p.A2))
    IN  /\ g2_eq(g2_mul(G2gen, p.z), g2_add(p.A1, g2_mul(Y, c)))
        /\ g2_eq(g2_mul(Rp, p.z), g2_add(p.A2, g2_mul(D, c)))

\* The aggregation of checked shares: members of the transcript, no member
\* twice, at least t of them, every proof good.
agg_dec_share_checked(shares, T, Rp) ==
    LET xs  == [i \in DOMAIN shares |-> shares[i].j]
        lag == lagrange_zero_batch(xs)
        ok  == /\ Len(shares) >= T.t
               /\ \A i \in DOMAIN xs : xs[i] \in 1 .. T.n
               /\ Distinct(xs)
               /\ \A i \in DOMAIN shares : dleq_verify(shares[i].proof, Rp, T.Y[xs[i]], shares[i].D)
    IN  [ok |-> ok,
         D  |-> IF ok THEN Sum2(lag.lam, [i \in DOMAIN shares |-> shares[i].D]) ELSE Inf2]
\* The unchecked one.
agg_dec_share(shares) ==
    LET lag == lagrange_zero_batch([i \in DOMAIN shares |-> shares[i].j])
    IN  [ok |-> shares # << >> /\ lag.ok,
         D  |-> Sum2(lag.lam, [i \in DOMAIN shares |-> shares[i].D])]
agg_public_g1(xs, T) == Sum1(lagrange_zero_batch(xs).lam, [i \in DOMAIN xs |-> T.Y1[xs[i]]])
verify_aggregate(D, Y1, Rp) ==
    Y1.z # 0 /\ pairing(G1gen, D) = pairing(AffineQ(Y1), Rp)
blame_scan(shares, T, Rp) ==
    {shares[i].j : i \in {k \in DOMAIN shares :
        ~dleq_verify(shares[k].proof, Rp, T.Y[shares[k].j], shares[k].D)}}

---------------------------------------------------------------------------
\* Partial signatures and their aggregates; a repeated id gives infinity.
partial(s, H) == Pmul(H, s)
aggregate(lam, parts) == Sum1(lam, parts)
aggregate_partials(ps) ==
    LET lag == lagrange_zero([i \in DOMAIN ps |-> ps[i].id])
    IN  IF lag.ok THEN aggregate(lag.lam, [i \in DOMAIN ps |-> ps[i].sig]) ELSE Inf
\* beacon_from_partials: the digest of the affine signature, none at infinity.
beacon_from_partials(ps) == AffineQ(aggregate_partials(ps))
\* epoch_beacon: the same from the committee's shares.
epoch_beacon(ids, secrets, H) ==
    AffineQ(aggregate(lagrange_zero(ids).lam, [i \in DOMAIN ids |-> partial(secrets[i], H)]))
user_verify(sig, PK, H) == sig.z # 0 /\ H.z # 0 /\ bls_verify_aff(AffineQ(sig), AffineQ(H), PK)

---------------------------------------------------------------------------
\* What a transcript is for.  c the coefficients, xs the members that answer,
\* e the error of the last one's share (0: honest), rk the ciphertext's key.
Shares(T, xs, e, Rp) ==
    [i \in DOMAIN xs |->
       LET s == share_for(T.f, xs[i])
           D == dec_share((s + (IF i = Len(xs) THEN e ELSE 0)) % R, Rp)
       IN  [j |-> xs[i], D |-> D, proof |-> dleq_prove(s, Rp, T.Y[xs[i]], D)]]

\* Any t or more distinct members recover the secret, fewer or repeated ones
\* are refused, and a wrong share is refused and its member named.
Recovers(n, t, c, xs, e, rk) ==
    LET T   == deal(n, t, c)
        Rp  == g2_mul(G2gen, rk)
        sh  == Shares(T, xs, e, Rp)
        agg == agg_dec_share_checked(sh, T, Rp)
        quorum == Len(xs) >= t /\ Distinct(xs)
    IN  /\ agg.ok <=> quorum /\ e = 0
        /\ agg.ok => /\ pt_eq(agg.D, g2_mul(Rp, T.f[1]))
                     /\ pt_eq(agg_dec_share(sh).D, agg.D)
                     /\ \A i \in DOMAIN xs :
                          lagrange_zero(xs).lam[i] = lagrange_at_zero(xs, xs[i])
        /\ blame_scan(sh, T, Rp) = IF e = 0 THEN {} ELSE {Last(xs)}

\* Every public share passes the check in the exponent and no other value
\* does; in G1 the zero share is refused although it is right.
SharesBind(n, t, c, j, s) ==
    LET T == deal(n, t, c)
        right == s = share_for(c, j)
    IN  /\ verify_own(T, j, s) <=> right
        /\ dkg_verify_share(j, s, commit(c)) <=> right /\ s # 0

\* All quorums sign alike, and the signature verifies under the sum key.
SignsAlike(n, t, c, xs, hk) ==
    LET T  == deal(n, t, c)
        H  == Pmul(G1gen, hk)
        ps == [i \in DOMAIN xs |-> [id |-> xs[i], sig |-> partial(share_for(c, xs[i]), H)]]
        b  == beacon_from_partials(ps)
    IN  Len(xs) >= t /\ Distinct(xs) =>
          /\ b = AffineQ(Pmul(H, c[1]))
          /\ b = epoch_beacon(xs, [i \in DOMAIN xs |-> share_for(c, xs[i])], H)
          /\ user_verify(b, T.C[1], H) <=> c[1] # 0
          /\ verify_aggregate(g2_mul(G2gen, c[1]), agg_public_g1(xs, T), G2gen) <=> c[1] # 0
          /\ AffineQ(aggregate_pk(<<commit(c)>>)) = AffineQ(agg_public_g1(xs, T))
=============================================================================
