------------------------------- MODULE Limbs -------------------------------
(***************************************************************************)
(* Montgomery arithmetic on little-endian limbs: fe.hpp (Pallas, product   *)
(* first), fev.hpp (Vesta) and threshold/scalar_r.hpp (F_r, product and    *)
(* reduction interleaved) and threshold/mont384.hpp (F_q), for any word    *)
(* size, limb count and modulus.  A limb is reduced wherever the code      *)
(* stores a 64-bit word, so a carry the code drops is dropped here.        *)
(***************************************************************************)
EXTENDS Arrays

CONSTANTS
    Word,       \* 2^64
    Limbs,      \* limbs of an element
    P           \* the modulus, odd

Radix == Word ^ Limbs
Ix    == [i \in 1 .. Limbs |-> i - 1]           \* limb indices in loop order
ToLimbs(x) == [i \in 0 .. Limbs - 1 |-> (x \div Word ^ i) % Word]
Value(t) == Run(LAMBDA s, i : s + t[i] * Word ^ i, 0, Ix)
Mod  == ToLimbs(P)
Elements == {ToLimbs(x) : x \in 0 .. P - 1}

\* newton_inv: -1/m0 modulo the word; five steps from a seed exact to 3 bits.
newton_inv(m0) ==
    LET x[i \in 0 .. 5] ==
          IF i = 0 THEN m0
          ELSE LET y == x[i - 1] IN (y * ((2 - m0 * y) % Word)) % Word
    IN  (Word - x[5]) % Word
Inv == newton_inv(Mod[0])

---------------------------------------------------------------------------
\* Comparison from the top limb down.
geq(a, b) ==
    \/ a = b
    \/ \E i \in DOMAIN b : a[i] > b[i] /\ \A k \in DOMAIN b : k > i => a[k] = b[k]

\* Carry and borrow chains: the result limbs and what leaves the top one.
bn_add(a, b) ==
    Run(LAMBDA q, i : LET s == a[i] + b[i] + q.c
                           IN  [r |-> [q.r EXCEPT ![i] = s % Word], c |-> s \div Word],
             [r |-> ToLimbs(0), c |-> 0], Ix)
bn_sub(a, b) ==
    Run(LAMBDA q, i : LET s == a[i] - b[i] - q.c
                           IN  [r |-> [q.r EXCEPT ![i] = s % Word], c |-> IF s < 0 THEN 1 ELSE 0],
             [r |-> ToLimbs(0), c |-> 0], Ix)

\* The borrow of fev.hpp is added to the modulus limb first, in one word.
fev_less_mod(a) ==
    Run(LAMBDA q, i : LET bi == (Mod[i] + q.c) % Word
                           IN  [r |-> [q.r EXCEPT ![i] = (a[i] - bi) % Word],
                                c |-> IF a[i] >= bi THEN 0 ELSE 1],
             [r |-> ToLimbs(0), c |-> 0], Ix).r

\* Mutant: the result is taken to be below the modulus already.
Reduced_Never(high, r) == r

\* One conditional subtraction: high is what did not fit in the limbs.
Reduced(high, r) == IF high # 0 \/ geq(r, Mod) THEN bn_sub(r, Mod).r ELSE r

\* pow2_mod: 2^e by doubling and one conditional subtraction.
pow2_mod(e) ==
    Run(LAMBDA v, i : LET d == bn_add(v, v) IN Reduced(d.c, d.r),
             ToLimbs(1), [i \in 1 .. e |-> i])

\* bn_mod: shift-subtract reduction of an n-bit number, the top bit first.
bn_mod(x, n) ==
    Run(LAMBDA v, i : LET bit == (x \div 2 ^ (n - i)) % 2
                               d   == bn_add(v, v)
                           IN  Reduced(d.c, [d.r EXCEPT ![0] = @ + bit]),
             ToLimbs(0), [i \in 1 .. n |-> i])

---------------------------------------------------------------------------
\* s.t[at + j] += x[j] * y with the carry s.c, over the limbs js.
Accumulate(s, at, x, y, js) ==
    Run(LAMBDA q, j : LET cur == q.t[at + j] + x[j] * y + q.c
                           IN  [q EXCEPT !.t[at + j] = cur % Word, !.c = cur \div Word],
             s, js)

\* The carry runs up from limb k; what is left past the last limb escapes.
Ripple(s, k) ==
    LET q == Run(LAMBDA u, i : LET cur == u.t[i] + u.c
                                    IN  [u EXCEPT !.t[i] = cur % Word, !.c = cur \div Word],
                      s, [i \in 1 .. 2 * Limbs - k |-> k + i - 1])
    IN  [q EXCEPT !.lost = @ + q.c, !.c = 0]

Wide == [t |-> [i \in 0 .. 2 * Limbs - 1 |-> 0], c |-> 0, lost |-> 0]

\* The low half of a product folded away limb by limb.
SosReduce(prod) ==
    LET red == Run(LAMBDA s, i :
                 LET m == (s.t[i] * Inv) % Word
                     c == (s.t[i] + m * Mod[0]) \div Word
                 IN  Ripple(Accumulate([s EXCEPT !.c = c], i, Mod, m, Tail(Ix)), i + Limbs),
               prod, Ix)
    IN  [r |-> Reduced(0, [i \in 0 .. Limbs - 1 |-> red.t[Limbs + i]]), lost |-> red.lost]

\* fe_mul: the whole product with rippled carries, then its reduction.
fe_mul(a, b) ==
    SosReduce(Run(LAMBDA s, i : Ripple(Accumulate(s, i, a, b[i], Ix), i + Limbs), Wide, Ix))

\* mmul: the carry of a row goes to the one limb above it and no further.
mmul(a, b) ==
    SosReduce(Run(LAMBDA s, i :
                LET q == Accumulate(s, i, a, b[i], Ix)
                IN  [q EXCEPT !.t[i + Limbs] = (@ + q.c) % Word, !.c = 0], Wide, Ix))

\* mont_mul of F_r: product and reduction of each limb interleaved, the
\* accumulator shifted down by one limb as it is reduced.
mont_mul(a, b) ==
    LET L == Limbs
        round(t, i) ==
          LET p == Accumulate([t |-> t, c |-> 0], 0, a, b[i], Ix)
              u == [p.t EXCEPT ![L] = (@ + p.c) % Word, ![L + 1] = (p.t[L] + p.c) \div Word]
              m == (u[0] * Inv) % Word
              c == (u[0] + m * Mod[0]) \div Word
              q == Accumulate([t |-> u, c |-> c], 0, Mod, m, Tail(Ix))
              top == q.t[L] + q.c
          IN  [j \in 0 .. L + 1 |->
                 IF j < L - 1 THEN q.t[j + 1]
                 ELSE IF j = L - 1 THEN top % Word
                 ELSE IF j = L THEN (u[L + 1] + (top \div Word)) % Word ELSE u[j]]
        t == Run(round, [j \in 0 .. L + 1 |-> 0], Ix)
    IN  Reduced(t[L], [j \in 0 .. L - 1 |-> t[j]])

\* fev_mul: the top word of the second carry replaces that of the first, and
\* the shift comes at the end of the round.
fev_mul(a, b) ==
    LET L == Limbs
        carried(q) == [q.t EXCEPT ![L] = (@ + q.c) % Word, ![L + 1] = (q.t[L] + q.c) \div Word]
        round(t, i) ==
          LET u == carried(Accumulate([t |-> t, c |-> 0], 0, b, a[i], Ix))
              m == (u[0] * Inv) % Word
              w == carried(Accumulate([t |-> u, c |-> 0], 0, Mod, m, Ix))
          IN  [j \in 0 .. L + 1 |-> IF j = L + 1 THEN 0 ELSE w[j + 1]]
        t == Run(round, [j \in 0 .. L + 1 |-> 0], Ix)
        r == [j \in 0 .. L - 1 |-> t[j]]
    IN  IF t[L] # 0 \/ geq(r, Mod) THEN fev_less_mod(r) ELSE r

---------------------------------------------------------------------------
\* fe_add and madd look at the carry out; fev_add subtracts with its own
\* borrow; fr_add relies on the modulus leaving the top bits free.
fe_add(a, b)  == LET s == bn_add(a, b) IN Reduced(s.c, s.r)
fev_add(a, b) == LET s == bn_add(a, b)
                 IN  IF s.c # 0 \/ geq(s.r, Mod) THEN fev_less_mod(s.r) ELSE s.r
fr_add(a, b)  == Reduced(0, bn_add(a, b).r)

\* fe_sub, fev_sub, msub: a borrow out adds the modulus back.
fe_sub(a, b) == LET d == bn_sub(a, b) IN IF d.c = 1 THEN bn_add(d.r, Mod).r ELSE d.r

\* fr_neg, and fr_sub by comparison instead of by borrow.
fr_neg(a)    == IF a = ToLimbs(0) THEN a ELSE bn_sub(Mod, a).r
fr_sub(a, b) == IF geq(a, b) THEN bn_sub(a, b).r ELSE fr_neg(bn_sub(b, a).r)

Bits == CHOOSE n \in 1 .. 31 : 2 ^ n = Radix
RR    == pow2_mod(2 * Bits)
R_ONE == pow2_mod(Bits)

\* fe_from_le_bytes, fev_from_limbs_canonical, fr_from_limbs: what is not
\* below the modulus is refused, the rest is lifted; a raw one strips it.
fe_from(x) ==
    IF geq(x, Mod) THEN [ok |-> FALSE, value |-> ToLimbs(0)]
    ELSE [ok |-> TRUE, value |-> fe_mul(x, RR).r]
fe_to_canonical(a) == fe_mul(a, ToLimbs(1)).r

\* Square and multiply from the top bit of the exponent.
mpow(a, e) ==
    Run(LAMBDA r, i : LET s == mmul(r, r).r
                           IN  IF (e \div 2 ^ (Bits - i)) % 2 = 1 THEN mmul(s, a).r ELSE s,
             R_ONE, [i \in 1 .. Bits |-> i])
fr_inv(a) ==
    IF a = ToLimbs(0) THEN [ok |-> FALSE, value |-> a]
    ELSE [ok |-> TRUE, value |->
           Run(LAMBDA r, i : LET s == mont_mul(r, r)
                                  IN  IF ((P - 2) \div 2 ^ (Bits - i)) % 2 = 1 THEN mont_mul(s, a) ELSE s,
                    R_ONE, [i \in 1 .. Bits |-> i])]

\* fev_from_le_bytes, fev_from_limbs_canonical, fev_to_canonical, and fev_inv:
\* the same with the interleaved product, the exponent from one.
fev_from(x) ==
    IF geq(x, Mod) THEN [ok |-> FALSE, value |-> ToLimbs(0)] ELSE [ok |-> TRUE, value |-> fev_mul(x, RR)]
fev_to_canonical(a) == fev_mul(a, ToLimbs(1))
fev_inv(a) ==
    Run(LAMBDA r, i : LET s == fev_mul(r, r)
                      IN  IF ((P - 2) \div 2 ^ (Bits - i)) % 2 = 1 THEN fev_mul(s, a) ELSE s,
        R_ONE, [i \in 1 .. Bits |-> i])

\* fe_inv of the curve code starts at the first set bit instead of at one.
fe_inv(a) ==
    Run(LAMBDA s, i :
               LET sq == IF s.on THEN fe_mul(s.r, s.r).r ELSE s.r
               IN  IF ((P - 2) \div 2 ^ (Bits - i)) % 2 = 1
                   THEN [on |-> TRUE, r |-> IF s.on THEN fe_mul(sq, a).r ELSE a]
                   ELSE [s EXCEPT !.r = sq],
             [on |-> FALSE, r |-> ToLimbs(0)], [i \in 1 .. Bits |-> i]).r

---------------------------------------------------------------------------
\* For canonical x and y: every product, sum, difference, negation and inverse
\* of their lifted forms is the lifted result and no carry is lost; what is
\* not below the modulus is refused; and the two reductions agree with %.
FieldExact(x, y) ==
    LET lift(v) == ToLimbs((v * Radix) % P)
        a == lift(x)
        b == lift(y)
        inverse == lift(CHOOSE v \in 0 .. P - 1 : (x * v) % P = 1)
        exact == [r |-> lift(x * y), lost |-> 0]
    IN  /\ fe_from(ToLimbs(x)) = [ok |-> TRUE, value |-> a] /\ fe_to_canonical(a) = ToLimbs(x)
        /\ fev_from(ToLimbs(x)) = [ok |-> TRUE, value |-> a] /\ fev_to_canonical(a) = ToLimbs(x)
        /\ ~fe_from(ToLimbs(x + P)).ok /\ ~fev_from(ToLimbs(x + P)).ok
        /\ fe_mul(a, b) = exact /\ mmul(a, b) = exact
        /\ mont_mul(a, b) = exact.r /\ fev_mul(a, b) = exact.r
        /\ \A s \in {fe_add(a, b), fev_add(a, b), fr_add(a, b)} : s = lift(x + y)
        /\ \A d \in {fe_sub(a, b), fr_sub(a, b)} : d = lift(x - y)
        /\ fr_neg(a) = lift(-x)
        /\ fr_inv(a).ok <=> x # 0
        /\ x # 0 => \A i \in {mpow(a, P - 2), fr_inv(a).value, fe_inv(a), fev_inv(a)} : i = inverse
        /\ pow2_mod(x) = ToLimbs((2 ^ x) % P)
        /\ bn_mod(Radix * x + y, 2 * Bits) = ToLimbs((Radix * x + y) % P)
=============================================================================
