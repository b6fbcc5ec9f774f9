------------------------------- MODULE Curves ------------------------------
(***************************************************************************)
(* The elliptic curves: Pallas (g1p.hpp) and Vesta (g2v.hpp), both         *)
(* y^2 = x^3 + 5 with the same Jacobian formulas over different moduli,    *)
(* and the BLS curve G1 (threshold/g1.hpp) with its square roots and its   *)
(* hash to the group (threshold/h2g1.hpp).  An element of a prime field is *)
(* its residue: what the limb arithmetic computes is the matter of Limbs.  *)
(***************************************************************************)
EXTENDS Arrays

CONSTANTS
    Q,          \* the base field of the BLS curve
    B1,         \* y^2 = x^3 + B1
    H1,         \* the cofactor of G1
    LimbBits    \* 64

\* Arithmetic modulo m, the inverse by Fermat's exponent.
Power(m, a, e) ==
    LET pow[n \in 0 .. e] ==
          IF n = 0 THEN 1 % m
          ELSE LET h == pow[n \div 2]
               IN  IF n % 2 = 0 THEN (h * h) % m ELSE (((h * h) % m) * a) % m
    IN  pow[e]
Inverse_mod(m, a) == Power(m, a, m - 2)
BitLen(k) == IF k = 0 THEN 0 ELSE 1 + CHOOSE n \in 0 .. 30 : 2 ^ n <= k /\ k < 2 ^ (n + 1)
Bit(k, n) == (k \div 2 ^ n) % 2
Down(n) == [i \in 1 .. n |-> n - i]             \* n - 1 down to 0

Inf == [x |-> 0, y |-> 0, z |-> 0]
Affine(x, y) == [x |-> x, y |-> y, z |-> 1]

---------------------------------------------------------------------------
\* Pallas and Vesta.
jac_dbl(m, p) ==
    LET A == (p.x * p.x) % m
        B == (p.y * p.y) % m
        C == (B * B) % m
        D == (2 * ((p.x + B) * (p.x + B) - A - C)) % m
        E == (3 * A) % m
        x == (E * E - 2 * D) % m
    IN  IF p.z = 0 THEN p
        ELSE [x |-> x, y |-> (E * (D - x) - 8 * C) % m, z |-> (2 * p.y * p.z) % m]

\* Equal abscissas: the same point, or inverse points.
SameAbscissa(m, p, r) == IF r = 0 THEN jac_dbl(m, p) ELSE Inf

jac_add(m, p, q) ==
    LET u1 == (p.x * q.z * q.z) % m
        u2 == (q.x * p.z * p.z) % m
        s1 == (((p.y * q.z) % m) * ((q.z * q.z) % m)) % m
        s2 == (((q.y * p.z) % m) * ((p.z * p.z) % m)) % m
        H  == (u2 - u1) % m
        r  == (s2 - s1) % m
        V  == (u1 * ((H * H) % m)) % m
        x  == (r * r - H * H * H - 2 * V) % m
    IN  IF p.z = 0 THEN q ELSE IF q.z = 0 THEN p
        ELSE IF H = 0 THEN SameAbscissa(m, p, r)
        ELSE [x |-> x, y |-> (r * (V - x) - s1 * ((H * H * H) % m)) % m,
              z |-> (((p.z * q.z) % m) * H) % m]

to_affine(m, p) ==
    LET i == Inverse_mod(m, p.z)
        j == (i * i) % m
    IN  IF p.z = 0 THEN Inf ELSE Affine((p.x * j) % m, (p.y * ((j * i) % m)) % m)

on_curve(m, p) ==
    LET z2 == (p.z * p.z) % m
        z6 == (((z2 * z2) % m) * z2) % m
    IN  p.z = 0 \/ (p.y * p.y - ((p.x * p.x) % m) * p.x - 5 * z6) % m = 0

\* Vmul: double and add, started by the first set bit.
Vmul(m, p, k) ==
    Run(LAMBDA s, n :
               LET d == IF s.on THEN jac_dbl(m, s.r) ELSE s.r
               IN  IF Bit(k, n) = 1
                   THEN [on |-> TRUE, r |-> IF s.on THEN jac_add(m, d, p) ELSE p]
                   ELSE [s EXCEPT !.r = d],
             [on |-> FALSE, r |-> Inf], Down(BitLen(k) + 1)).r
generator(m) == Affine((0 - 1) % m, 2)

AffineQ(p) == to_affine(Q, p)

---------------------------------------------------------------------------
\* The BLS curve G1: a doubled point of order two is infinity here.
Pdbl(p) ==
    LET A == (p.x * p.x) % Q
        B == (p.y * p.y) % Q
        C == (B * B) % Q
        D == (2 * ((p.x + B) * (p.x + B) - A - C)) % Q
        E == (3 * A) % Q
        x == (E * E - 2 * D) % Q
    IN  IF p.z = 0 \/ p.y = 0 THEN Inf
        ELSE [x |-> x, y |-> (E * (D - x) - 8 * C) % Q, z |-> (2 * p.y * p.z) % Q]

Padd(p, q) ==
    LET z1 == (p.z * p.z) % Q
        z2 == (q.z * q.z) % Q
        u1 == (p.x * z2) % Q
        u2 == (q.x * z1) % Q
        s1 == (((p.y * z2) % Q) * q.z) % Q
        s2 == (((q.y * z1) % Q) * p.z) % Q
        H  == (u2 - u1) % Q
        I  == (4 * H * H) % Q
        J  == (H * I) % Q
        rr == (2 * (s2 - s1)) % Q
        V  == (u1 * I) % Q
        x  == (rr * rr - J - 2 * V) % Q
    IN  IF p.z = 0 THEN q ELSE IF q.z = 0 THEN p
        ELSE IF u1 = u2 THEN IF s1 = s2 THEN Pdbl(p) ELSE Inf
        ELSE [x |-> x, y |-> (rr * (V - x) - 2 * s1 * J) % Q,
              z |-> (((p.z * q.z) % Q) * ((2 * H) % Q)) % Q]

\* The rounds start at the limb bl / 64: one limb too high, and all zero,
\* when the scalar ends on a limb boundary.
Pmul(p, k) ==
    LET bl  == BitLen(k)
        top == LimbBits * (bl \div LimbBits) + ((bl - 1) % LimbBits)
    IN  IF bl = 0 THEN Inf
        ELSE Run(LAMBDA r, n : LET d == Pdbl(r)
                                    IN  IF Bit(k, n) = 1 THEN Padd(d, p) ELSE d,
                      Inf, Down(top + 1))

on_curve_aff(x, y) == (y * y - x * x * x - B1) % Q = 0

\* cneg: the modulus less the value, which for zero is the modulus itself.
cneg(y) == Q - y

\* tonelli_q: R^2 = t * a throughout; the order of t falls until it is one.
tonelli_q(a) ==
    LET e    == CHOOSE n \in 1 .. 30 : (Q - 1) % 2 ^ n = 0 /\ (Q - 1) % 2 ^ (n + 1) # 0
        sodd == (Q - 1) \div 2 ^ e
        z    == CHOOSE n \in 2 .. Q - 1 : /\ Power(Q, n, (Q - 1) \div 2) # 1
                                          /\ \A l \in 2 .. n - 1 : Power(Q, l, (Q - 1) \div 2) = 1
        Order(t) == CHOOSE i \in 0 .. e : Power(Q, t, 2 ^ i) = 1 /\ \A l \in 0 .. i - 1 : Power(Q, t, 2 ^ l) # 1
        step(s) == LET i == Order(s.t)
                       b == Power(Q, s.c, 2 ^ (s.M - i - 1))
                       c == (b * b) % Q
                   IN  [M |-> i, c |-> c, t |-> (s.t * c) % Q, R |-> (s.R * b) % Q]
        s0 == [M |-> e, c |-> Power(Q, z, sodd), t |-> Power(Q, a, sodd),
               R |-> Power(Q, a, (sodd + 1) \div 2)]
    IN  IF a = 0 THEN 0
        ELSE Run(LAMBDA s, n : IF s.t = 1 THEN s ELSE step(s), s0, Down(2 * e + 8)).R

\* hash_to_g1: the digest of the message and the counter c is draws[c + 1];
\* the first draw that is the abscissa of a point whose multiple by the
\* cofactor is not infinity is taken, with the even root.
hash_to_g1(draws) ==
    LET rhs(x) == (x * x * x + B1) % Q
        root(x) == LET y == tonelli_q(rhs(x)) IN IF y % 2 = 1 THEN cneg(y) ELSE y
        point(x) == Pmul(Affine(x, root(x)), H1)
        good(c) == /\ Power(Q, rhs(draws[c]), (Q - 1) \div 2) = 1
                   /\ point(draws[c]).z # 0
    IN  IF \E c \in DOMAIN draws : good(c)
        THEN point(draws[CHOOSE c \in DOMAIN draws : good(c) /\ \A d \in 1 .. c - 1 : ~good(d)])
        ELSE Inf
---------------------------------------------------------------------------
\* pcompress.hpp.  A compressed point is its abscissa and the parity of its
\* ordinate; all zero stands for infinity.
TwoAdicity(m) == CHOOSE n \in 1 .. 30 : (m - 1) % 2 ^ n = 0 /\ (m - 1) % 2 ^ (n + 1) # 0
NoRoot == [ok |-> FALSE, v |-> 0]

\* fp_sqrt: Euler's test, the least non-residue, then Tonelli and Shanks with
\* every loop bounded and the bounds reported as failure.
fp_sqrt(m, a) ==
    LET s == TwoAdicity(m)
        t0 == (m - 1) \div 2 ^ s
        half == (m - 1) \div 2
        z == CHOOSE c \in 2 .. m - 1 : Power(m, c, half) = m - 1 /\ \A d \in 2 .. c - 1 : Power(m, d, half) # m - 1
        order(t, n) == IF \E i \in 0 .. n - 1 : Power(m, t, 2 ^ i) = 1
                       THEN CHOOSE i \in 0 .. n - 1 : Power(m, t, 2 ^ i) = 1 /\ \A k \in 0 .. i - 1 : Power(m, t, 2 ^ k) # 1
                       ELSE n
        step(q) == LET i == order(q.t, q.m)
                       b == Power(m, q.c, 2 ^ (q.m - i - 1))
                       c == (b * b) % m
                   IN  IF i = q.m THEN [q EXCEPT !.ok = FALSE]
                       ELSE [q EXCEPT !.m = i, !.c = c, !.t = (@ * c) % m, !.v = (@ * b) % m]
        end == Run(LAMBDA q, n : IF q.t = 1 \/ ~q.ok THEN q ELSE step(q),
                        [ok |-> TRUE, m |-> s, c |-> Power(m, z, t0), t |-> Power(m, a, t0),
                         v |-> Power(m, a, (t0 + 1) \div 2)], Down(64))
    IN  IF a = 0 THEN [ok |-> TRUE, v |-> 0]
        ELSE IF Power(m, a, half) # 1 THEN NoRoot
        ELSE IF end.ok /\ end.t = 1 THEN [ok |-> TRUE, v |-> end.v] ELSE NoRoot

compress(m, p) ==
    LET a == to_affine(m, p)
    IN  IF ~on_curve(m, p) THEN [ok |-> FALSE]
        ELSE [ok |-> TRUE, x |-> a.x, odd |-> IF p.z = 0 THEN 0 ELSE a.y % 2]

decompress(m, x, odd) ==
    LET sq == fp_sqrt(m, (((x * x) % m) * x + 5) % m)
    IN  IF x = 0 /\ odd = 0 THEN [ok |-> TRUE, p |-> Inf]
        ELSE IF x >= m THEN [ok |-> FALSE]
        ELSE IF ~sq.ok THEN [ok |-> FALSE]
        ELSE [ok |-> TRUE, p |-> Affine(x, IF sq.v % 2 = odd THEN sq.v ELSE (m - sq.v) % m)]

\* The BLS form: no curve test when compressing, and Euler's test alone when
\* reading, which refuses an ordinate of zero.
g1_compress48(p) == LET a == AffineQ(p) IN [ok |-> TRUE, x |-> a.x, odd |-> IF p.z = 0 THEN 0 ELSE a.y % 2]

g1_decompress48(x, odd) ==
    LET rhs == (x * x * x + B1) % Q
        y   == tonelli_q(rhs)
    IN  IF x = 0 /\ odd = 0 THEN [ok |-> TRUE, p |-> Inf]
        ELSE IF x >= Q THEN [ok |-> FALSE]
        ELSE IF Power(Q, rhs, (Q - 1) \div 2) # 1 THEN [ok |-> FALSE]
        ELSE [ok |-> TRUE, p |-> Affine(x, IF y % 2 = odd THEN y ELSE (Q - y) % Q)]

---------------------------------------------------------------------------
\* Reference: the chord and tangent law on affine points.
AffineSum(m, p, q) ==
    LET l == IF p = q THEN (3 * p.x * p.x * Inverse_mod(m, 2 * p.y)) % m
             ELSE ((q.y - p.y) * Inverse_mod(m, (q.x - p.x) % m)) % m
        x == (l * l - p.x - q.x) % m
    IN  IF p.z = 0 THEN q ELSE IF q.z = 0 THEN p
        ELSE IF p.x = q.x /\ (p.y + q.y) % m = 0 THEN Inf
        ELSE Affine(x, (l * (p.x - x) - p.y) % m)
AffineMultiple(m, p, k) == Run(LAMBDA s, i : AffineSum(m, s, p), Inf, Down(k))
\* Another Jacobian triple of the same point.
Scaled(m, p, z) == [x |-> (p.x * z * z) % m, y |-> (p.y * ((z * z * z) % m)) % m, z |-> (p.z * z) % m]

\* Sums, doublings and multiples are the affine group law's whatever triples
\* represent the points, infinity and inverse points included, and a point
\* read back from its compressed form is the point.
GroupLaw(m, p, q, z1, z2) ==
    LET sum == jac_add(m, Scaled(m, p, z1), Scaled(m, q, z2))
        c   == compress(m, sum)
    IN  /\ on_curve(m, sum) /\ to_affine(m, sum) = AffineSum(m, p, q)
        /\ c.ok /\ decompress(m, c.x, c.odd) = [ok |-> TRUE, p |-> to_affine(m, sum)]
        /\ ~decompress(m, c.x + m, c.odd).ok
GroupLawBls(p, q, z1, z2) ==
    LET sum == Padd(Scaled(Q, p, z1), Scaled(Q, q, z2))
        c   == g1_compress48(sum)
    IN  /\ AffineQ(sum) = AffineSum(Q, p, q)
        /\ g1_decompress48(c.x, c.odd) = [ok |-> TRUE, p |-> AffineQ(sum)]
        /\ ~g1_decompress48(c.x + Q, c.odd).ok

\* A multiple computed limb by limb is that many additions, and a hash to
\* the group is a point of it.
MultipleLaw(m, p, k) == to_affine(m, Vmul(m, p, k)) = AffineMultiple(m, p, k)
MultipleLawBls(p, k) == AffineQ(Pmul(p, k)) = AffineMultiple(Q, p, k)
HashLaw(draws, order) ==
    LET h == AffineQ(hash_to_g1(draws))
    IN  h.z # 0 => on_curve_aff(h.x, h.y) /\ AffineMultiple(Q, h, order).z = 0
=============================================================================
