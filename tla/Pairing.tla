------------------------------ MODULE Pairing ------------------------------
(***************************************************************************)
(* The tower F_q2 = F_q[u]/(u^2 - Beta), F_q6 = F_q2[v]/(v^3 - Gamma),     *)
(* F_q12 = F_q6[w]/(w^2 - v) of threshold/fq2.hpp and threshold/fq12.hpp,  *)
(* the twist curve G2 of threshold/g2.hpp and the reduced Tate pairing of  *)
(* threshold/pairing.hpp with the signature check built on it.             *)
(***************************************************************************)
EXTENDS Curves

CONSTANTS
    R,          \* the prime order of the groups
    Beta,       \* u^2
    Gamma,      \* v^3, a pair
    B2,         \* the twist's coefficient, B1 * Gamma
    G1gen, G2gen,   \* affine generators
    FinalExp    \* the limbs of (Q^12 - 1) / R, little-endian

\* F_q2: pairs.
Zero2 == <<0, 0>>
One2  == <<1, 0>>
fq2_add(a, b) == <<(a[1] + b[1]) % Q, (a[2] + b[2]) % Q>>
fq2_sub(a, b) == <<(a[1] - b[1]) % Q, (a[2] - b[2]) % Q>>
fq2_neg(a)    == fq2_sub(Zero2, a)
fq2_mul(a, b) == <<(a[1] * b[1] + Beta * a[2] * b[2]) % Q, (a[1] * b[2] + a[2] * b[1]) % Q>>
fq2_conj(a)   == <<a[1], (0 - a[2]) % Q>>
fq2_norm(a)   == (a[1] * a[1] - Beta * a[2] * a[2]) % Q
fq2_inv(a) ==
    LET n == Inverse_mod(Q, fq2_norm(a))
        c == fq2_conj(a)
    IN  <<(c[1] * n) % Q, (c[2] * n) % Q>>

---------------------------------------------------------------------------
\* G2: the formulas of G1 over F_q2.
Inf2 == [x |-> Zero2, y |-> Zero2, z |-> Zero2]
twice(a) == fq2_add(a, a)
g2_dbl(p) ==
    LET A == fq2_mul(p.x, p.x)
        B == fq2_mul(p.y, p.y)
        C == fq2_mul(B, B)
        s == fq2_add(p.x, B)
        D == twice(fq2_sub(fq2_sub(fq2_mul(s, s), A), C))
        E == fq2_add(twice(A), A)
        x == fq2_sub(fq2_mul(E, E), twice(D))
    IN  IF p.z = Zero2 \/ p.y = Zero2 THEN Inf2
        ELSE [x |-> x, y |-> fq2_sub(fq2_mul(E, fq2_sub(D, x)), twice(twice(twice(C)))),
              z |-> fq2_mul(twice(p.y), p.z)]
g2_add(p, q) ==
    LET z1 == fq2_mul(p.z, p.z)
        z2 == fq2_mul(q.z, q.z)
        u1 == fq2_mul(p.x, z2)
        u2 == fq2_mul(q.x, z1)
        s1 == fq2_mul(fq2_mul(p.y, z2), q.z)
        s2 == fq2_mul(fq2_mul(q.y, z1), p.z)
        H  == fq2_sub(u2, u1)
        I  == twice(twice(fq2_mul(H, H)))
        J  == fq2_mul(H, I)
        rr == twice(fq2_sub(s2, s1))
        V  == fq2_mul(u1, I)
        x  == fq2_sub(fq2_sub(fq2_mul(rr, rr), J), twice(V))
    IN  IF p.z = Zero2 THEN q ELSE IF q.z = Zero2 THEN p
        ELSE IF u1 = u2 THEN IF s1 = s2 THEN g2_dbl(p) ELSE Inf2
        ELSE [x |-> x, y |-> fq2_sub(fq2_mul(rr, fq2_sub(V, x)), twice(fq2_mul(s1, J))),
              z |-> fq2_mul(fq2_mul(fq2_mul(p.z, q.z), H), <<2, 0>>)]
g2_mul(p, k) ==
    LET bl  == BitLen(k)
        top == LimbBits * (bl \div LimbBits) + ((bl - 1) % LimbBits)
    IN  IF bl = 0 THEN Inf2
        ELSE Run(LAMBDA r, n : LET d == g2_dbl(r)
                                    IN  IF Bit(k, n) = 1 THEN g2_add(d, p) ELSE d,
                      Inf2, Down(top + 1))
g2_affine(p) ==
    LET i == fq2_inv(p.z)
        j == fq2_mul(i, i)
    IN  IF p.z = Zero2 THEN Inf2
        ELSE [x |-> fq2_mul(p.x, j), y |-> fq2_mul(p.y, fq2_mul(j, i)), z |-> One2]
g2_on_curve_aff(x, y) == fq2_mul(y, y) = fq2_add(fq2_mul(fq2_mul(x, x), x), B2)

---------------------------------------------------------------------------
\* F_q6: triples; F_q12: pairs of triples.
Zero6 == <<Zero2, Zero2, Zero2>>
One6  == <<One2, Zero2, Zero2>>
V6    == <<Zero2, One2, Zero2>>
fq6_add(a, b) == [i \in 1 .. 3 |-> fq2_add(a[i], b[i])]
fq6_sub(a, b) == [i \in 1 .. 3 |-> fq2_sub(a[i], b[i])]
fq6_mul(a, b) ==
    LET t(i, j) == fq2_mul(a[i], b[j])
    IN  <<fq2_add(t(1, 1), fq2_mul(Gamma, fq2_add(t(2, 3), t(3, 2)))),
          fq2_add(fq2_add(t(1, 2), t(2, 1)), fq2_mul(Gamma, t(3, 3))),
          fq2_add(fq2_add(t(1, 3), t(2, 2)), t(3, 1))>>
\* The adjugate over the cubic norm.
fq6_inv(n) ==
    LET t(i, j) == fq2_mul(n[i], n[j])
        g(a) == fq2_mul(Gamma, a)
        det == fq2_sub(fq2_add(fq2_add(fq2_mul(n[1], t(1, 1)), g(fq2_mul(n[2], t(2, 2)))),
                               g(g(fq2_mul(n[3], t(3, 3))))),
                       fq2_mul(<<3 % Q, 0>>, g(fq2_mul(n[1], t(2, 3)))))
        di == fq2_inv(det)
    IN  <<fq2_mul(fq2_sub(t(1, 1), g(t(2, 3))), di),
          fq2_mul(fq2_sub(g(t(3, 3)), t(1, 2)), di),
          fq2_mul(fq2_sub(t(2, 2), t(1, 3)), di)>>

One12 == <<One6, Zero6>>
fq12_add(a, b) == <<fq6_add(a[1], b[1]), fq6_add(a[2], b[2])>>
fq12_sub(a, b) == <<fq6_sub(a[1], b[1]), fq6_sub(a[2], b[2])>>
fq12_mul(a, b) ==
    <<fq6_add(fq6_mul(a[1], b[1]), fq6_mul(V6, fq6_mul(a[2], b[2]))),
      fq6_add(fq6_mul(a[1], b[2]), fq6_mul(a[2], b[1]))>>
fq12_inv(a) ==
    LET n == fq6_sub(fq6_mul(a[1], a[1]), fq6_mul(V6, fq6_mul(a[2], a[2])))
    IN  fq12_mul(<<a[1], fq6_sub(Zero6, a[2])>>, <<fq6_inv(n), Zero6>>)
\* From the top limb and bit of the exponent, started by the first set bit.
fq12_pow_limbs(a, e) ==
    Run(LAMBDA s, n :
               LET bit == Bit(e[1 + (n \div 8)], n % 8)
                   sq  == fq12_mul(s.r, s.r)
               IN  IF ~s.on THEN IF bit = 1 THEN [on |-> TRUE, r |-> a] ELSE s
                   ELSE [s EXCEPT !.r = IF bit = 1 THEN fq12_mul(sq, a) ELSE sq],
             [on |-> FALSE, r |-> One12], Down(8 * Len(e))).r

---------------------------------------------------------------------------
Const12(a) == <<<<a, Zero2, Zero2>>, Zero6>>         \* embed_fq, fq12_from_int
\* twist: (x / v, y / (v w)).
twist(x, y) ==
    LET vi == fq12_inv(<<V6, Zero6>>)
        wi == fq12_inv(<<Zero6, One6>>)
    IN  [x |-> fq12_mul(Const12(x), vi), y |-> fq12_mul(fq12_mul(Const12(y), vi), wi)]

\* The line of slope lam through t at the point q, and the third intersection.
LineAt(t, lam, q) == fq12_sub(fq12_sub(q.y, t.y), fq12_mul(lam, fq12_sub(q.x, t.x)))
Third(t, lam, x2) ==
    LET x == fq12_sub(fq12_sub(fq12_mul(lam, lam), t.x), x2)
    IN  [x |-> x, y |-> fq12_sub(fq12_mul(lam, fq12_sub(t.x, x)), t.y)]

\* A chord for every set bit but the last one, whose line is vertical.
ChordAt(n) == Bit(R, n) = 1 /\ n > 0

\* miller: tangents and chords of the multiples of p, evaluated at q.
miller(p, q) ==
    LET P12 == [x |-> Const12(<<p.x, 0>>), y |-> Const12(<<p.y, 0>>)]
        tangent(s) ==
          LET lam == fq12_mul(fq12_mul(Const12(<<3, 0>>), fq12_mul(s.t.x, s.t.x)),
                              fq12_inv(fq12_add(s.t.y, s.t.y)))
          IN  [f |-> fq12_mul(fq12_mul(s.f, s.f), LineAt(s.t, lam, q)), t |-> Third(s.t, lam, s.t.x)]
        chord(s) ==
          LET lam == fq12_mul(fq12_sub(P12.y, s.t.y), fq12_inv(fq12_sub(P12.x, s.t.x)))
          IN  [f |-> fq12_mul(s.f, LineAt(s.t, lam, q)), t |-> Third(s.t, lam, P12.x)]
    IN  Run(LAMBDA s, n : LET d == tangent(s) IN IF ChordAt(n) THEN chord(d) ELSE d,
                 [f |-> One12, t |-> P12], Down(BitLen(R) - 1)).f

\* pairing of an affine point of G1 with a point of G2; one at infinity.
pairing(p, q) ==
    LET a == g2_affine(q)
    IN  IF q.z = Zero2 THEN One12 ELSE fq12_pow_limbs(miller(p, twist(a.x, a.y)), FinalExp)

bls_verify_aff(sigma, h, Y) == pairing(sigma, G2gen) = pairing(h, Y)

---------------------------------------------------------------------------
\* For secret s and message point h = [k]G1gen: the check accepts [c]h exactly
\* when c is the secret.
VerifiesOnly(s, k, c) ==
    LET h   == AffineQ(Pmul(G1gen, k))
        sig == AffineQ(Pmul(h, c))
        Y   == g2_mul(G2gen, s)
    IN  bls_verify_aff(sig, h, Y) <=> (s - c) % R = 0
=============================================================================
