------------------------------- MODULE Kernels -----------------------------
(***************************************************************************)
(* The integer kernels around the matrix products: the LogUp argument over *)
(* lookup tables (logup.hpp), the softmax of the score rows (softmax.hpp), *)
(* layer normalisation (layernorm.hpp) and the linear model commitments    *)
(* (model_commit.hpp).  The prime 2^61 - 1 is Mersenne; a field element    *)
(* fits 64 bits below Word64 and meets the softmax contract below Contract.*)
(***************************************************************************)
EXTENDS Poseidon

CONSTANTS
    Mersenne,   \* the prime of the lookup and model arguments
    Word64,     \* canonical values below it have one limb
    Contract,   \* scores below it are accepted, 2^52
    ExpTable,   \* exp_shifted: 256 values, from the floating-point oracle
    InputMax,   \* layer norm's input contract, 2^15
    VarianceMax,\* and its variance contract, 2^40
    Digest(_, _)    \* the 64-bit digest of a model block and its index

RCP_MAX == 1024
OUT_ONE == 128
EPS_Q14 == 2
INV_SQRT2_Q21 == 1482910
SQRT2_Q21 == 2965821
Shift(x, n) == x \div 2 ^ n
\* floor(x y / 2^n), in two parts so that no product exceeds a word.
MulShift(x, y, n) == Shift(x * Shift(y, 7) + Shift(x * (y % 128), 7), n - 7)

---------------------------------------------------------------------------
\* logup.hpp.
lookup_by_index(t, idx) == IF idx < Len(t) THEN t[idx + 1] ELSE 0
lp_add(a, b) == IF a + b >= Mersenne THEN a + b - Mersenne ELSE a + b
lp_mul(a, b) == (a * b) % Mersenne
lp_inv(a) ==
    LET bits == Array(30, LAMBDA i : Shift(Mersenne - 2, i - 1) % 2)
    IN  Run(LAMBDA s, b : [r |-> IF b = 1 THEN lp_mul(s.r, s.base) ELSE s.r,
                           base |-> lp_mul(s.base, s.base)],
            [r |-> 1, base |-> a % Mersenne], bits).r
lp_denom(alpha, idx, val) ==
    lp_add(lp_add(alpha % Mersenne, Mersenne - lp_mul(alpha % Mersenne, val % Mersenne)),
           idx % Mersenne)
Magnitude(v) == IF v < 0 THEN -v ELSE v

\* The batch: the running sum of inverses and the multiplicity of each index.
LogUpBatch(alpha) == [alpha |-> IF alpha = 0 THEN 7 ELSE alpha, sum |-> 0, mult |-> <<>>]
add_lookup(b, idx, val) ==
    [b EXCEPT !.sum = lp_add(@, lp_inv(lp_denom(b.alpha, idx, Magnitude(val)))),
              !.mult = [i \in DOMAIN @ \cup {idx} |->
                           (IF i \in DOMAIN @ THEN @[i] ELSE 0) + (IF i = idx THEN 1 ELSE 0)]]
table_side_sum(b, at(_)) ==
    LET keys == SetToSeq(DOMAIN b.mult)
    IN  Run(LAMBDA s, i : lp_add(s, lp_mul(b.mult[i] % Mersenne,
                                           lp_inv(lp_denom(b.alpha, i, Magnitude(at(i)))))),
            0, keys)
balanced(b, table_sum) == b.sum = table_sum

build_rcp_table(y) == (16384 + y \div 2) \div y
rcp_lookup(y) == IF y = 0 \/ y > RCP_MAX THEN 0 ELSE build_rcp_table(y)

---------------------------------------------------------------------------
\* softmax.hpp.
fe_u64(x) == [ok |-> x < Word64, v |-> IF x < Word64 THEN x ELSE 0]
SoftmaxBatch(alpha) == [exp |-> LogUpBatch(2 * alpha + 1), rcp |-> LogUpBatch(2 * alpha + 2)]
exp_at(idx) == IF idx = 256 THEN OUT_ONE ELSE lookup_by_index(ExpTable, idx)
rcp_at(idx) == rcp_lookup(idx)
SoftmaxBalanced(b) ==
    balanced(b.exp, table_side_sum(b.exp, exp_at)) /\ balanced(b.rcp, table_side_sum(b.rcp, rcp_at))

\* The slot of a score: 256 stands for the identity at the maximum; beyond
\* the window, and within 511 of the maximum, the slot is 0.
ExpIndex(diff) ==
    IF diff = 0 THEN 256
    ELSE LET i == 256 - Shift(diff, 9) IN IF i > 255 \/ i < 0 THEN 0 ELSE i

\* One row: its weights and the lookups made, or a refusal.
SoftmaxRow(row, audit) ==
    LET m   == CHOOSE x \in {row[j] : j \in DOMAIN row} : \A j \in DOMAIN row : row[j] <= x
        idx == Array(Len(row), LAMBDA j : ExpIndex(m - row[j]))
        E   == Array(Len(row), LAMBDA j : exp_at(idx[j]))
        D   == Run(LAMBDA s, x : s + x, 0, E)
        rc  == rcp_lookup(D)
        exps == Run(LAMBDA b, j : add_lookup(b, idx[j], E[j]), audit.exp, UpTo(Len(row)))
    IN  IF rc = 0 THEN [ok |-> FALSE, P |-> Array(Len(row), LAMBDA j : 0), audit |-> [audit EXCEPT !.exp = exps]]
        ELSE [ok |-> TRUE, P |-> Array(Len(row), LAMBDA j : Shift(E[j] * rc, 7)),
              audit |-> [exp |-> exps, rcp |-> add_lookup(audit.rcp, D, rc)]]

\* softmax_rows: nothing is produced past the first refused entry or row.
softmax_rows(S, seq, audit0) ==
    LET none == [ok |-> FALSE, P |-> <<>>, audit |-> audit0]
    IN  IF seq = 0 \/ Len(S) # seq * seq THEN none
        ELSE IF \E k \in DOMAIN S : ~fe_u64(S[k]).ok \/ S[k] >= Contract THEN none
        ELSE Run(LAMBDA R, r :
                     IF ~R.ok THEN [R EXCEPT !.P = @ \o Array(seq, LAMBDA j : 0)]
                     ELSE LET row == SoftmaxRow(SubSeq(S, (r - 1) * seq + 1, r * seq), R.audit)
                          IN  [row EXCEPT !.P = R.P \o @],
                 [none EXCEPT !.ok = TRUE], UpTo(seq))

---------------------------------------------------------------------------
\* layernorm.hpp.
fe_from_s64(v) == v % P
fe_to_s64(x) ==
    IF fe_u64(x).ok THEN [ok |-> TRUE, v |-> x]
    ELSE LET a == fe_u64((-x) % P) IN [ok |-> a.ok, v |-> -a.v]
bitlen_u64(v) == IF v = 0 THEN 0 ELSE CHOOSE b \in 1 .. 31 : Shift(v, b) = 0 /\ Shift(v, b - 1) # 0

\* build_rsqrt_table: round(2^21 / sqrt(8192 m)) for m from 128 to 256, the
\* largest t with (2t - 1)^2 m <= 2^31.
RsqrtEntry(m) ==
    LET cap == 2 * (1073741824 \div m) + (2 * (1073741824 % m)) \div m
    IN  CHOOSE t \in 1400 .. 2049 : (2 * t - 1) * (2 * t - 1) <= cap /\ (2 * t + 1) * (2 * t + 1) > cap

\* Odd exponents are corrected by the square root of two.
OddFixup(t, e) ==
    IF e >= 1 THEN Shift(MulShift(t, INV_SQRT2_Q21, 21), Shift(e - 1, 1))
    ELSE MulShift(t, SQRT2_Q21, 21) * 2 ^ Shift(-e - 1, 1)

\* rsqrt_q14: 2^21 / sqrt(v) from the table, interpolated.
rsqrt_q14(v) ==
    LET e    == bitlen_u64(v) - 21
        w    == IF e >= 0 THEN Shift(v, e) ELSE v * 2 ^ (-e)
        m8   == Shift(w, 13)
        t0   == RsqrtEntry(m8)
        t    == t0 + Shift((RsqrtEntry(m8 + 1) - t0) * (w % 8192), 13)
    IN  IF e % 2 # 0 THEN OddFixup(t, e)
        ELSE IF e >= 0 THEN Shift(t, e \div 2) ELSE t * 2 ^ ((-e) \div 2)

LayerNormRow(x, rc, gamma, beta) ==
    LET n   == Len(x)
        sum == Run(LAMBDA s, y : s + y, 0, x)
        mu  == MulShift(sum, rc, 14)
        c   == Array(n, LAMBDA j : x[j] - mu)
        v   == MulShift(Run(LAMBDA s, y : s + y * y, 0, c), rc, 14) + EPS_Q14
        inv == rsqrt_q14(v)
    IN  IF v >= VarianceMax THEN [ok |-> FALSE, y |-> Array(n, LAMBDA j : 0)]
        ELSE [ok |-> TRUE, y |-> Array(n, LAMBDA j : Shift(Shift(c[j] * inv, 14) * gamma, 7) + beta)]

\* layernorm_rows: each row looks its length up twice, for the mean and for
\* the variance, the first even when an entry of the row is refused.
layernorm_rows(X, rows, n, gamma, beta, audit0) ==
    LET rc  == rcp_lookup(n)
        none == [ok |-> FALSE, y |-> <<>>, audit |-> audit0]
        step(R, r) ==
          IF ~R.ok THEN [R EXCEPT !.y = @ \o Array(n, LAMBDA j : 0)]
          ELSE LET x   == SubSeq(X, (r - 1) * n + 1, r * n)
                   one == add_lookup(R.audit, n, rc)
                   row == LayerNormRow(x, rc, gamma, beta)
               IN  IF \E j \in 1 .. n : ~fe_u64(x[j]).ok \/ x[j] >= InputMax
                   THEN [ok |-> FALSE, y |-> R.y \o Array(n, LAMBDA j : 0), audit |-> one]
                   ELSE [ok |-> row.ok, y |-> R.y \o row.y, audit |-> add_lookup(one, n, rc)]
    IN  IF rows = 0 \/ n = 0 \/ n > RCP_MAX \/ Len(X) # rows * n \/ rc <= 0 THEN none
        ELSE Run(step, [none EXCEPT !.ok = TRUE], UpTo(rows))

---------------------------------------------------------------------------
\* model_commit.hpp.  The registry is a function from model to commitment.
weight_digest(blocks) ==
    Run(LAMBDA h, i : lp_add(h, Digest(i - 1, blocks[i]) % Mersenne), 0, UpTo(Len(blocks)))
g_sense == Digest(0, <<>>) % Mersenne
model_commit(digest, r) == lp_add(digest % Mersenne, lp_mul(r % Mersenne, g_sense))
opens(C, digest, r) == model_commit(digest, r) = C
register_model(reg, id, C) ==
    IF id \in DOMAIN reg THEN [ok |-> FALSE, reg |-> reg]
    ELSE [ok |-> TRUE, reg |-> [i \in DOMAIN reg \cup {id} |-> IF i = id THEN C ELSE reg[i]]]
workload_admitted(reg, id, digest, r) == id \in DOMAIN reg /\ opens(reg[id], digest, r)
---------------------------------------------------------------------------
\* In an accepted row a score has no larger weight than a larger score that
\* is not exempt.
Monotone(S, seq, alpha, Exempt(_)) ==
    LET R == softmax_rows(S, seq, SoftmaxBatch(alpha))
        row(r) == {(r - 1) * seq + j : j \in 1 .. seq}
        short(r, m) == CHOOSE d \in {S[k] - S[m] : k \in row(r)} : \A k \in row(r) : S[k] - S[m] <= d
    IN  R.ok => \A r \in 1 .. seq : \A k, m \in row(r) :
                  S[k] <= S[m] /\ ~Exempt(short(r, m)) => R.P[k] <= R.P[m]

\* The weights of an accepted row add up to 128 but for one unit of rounding
\* each; a larger score has no smaller weight, unless it is short of its row's
\* maximum by 1 to 511 and so in slot 0; the trace balances, and no longer
\* does once any one lookup had returned another magnitude.
SoftmaxExact(S, seq, alpha, bad) ==
    LET R    == softmax_rows(S, seq, SoftmaxBatch(alpha))
        fake == [R.audit EXCEPT !.rcp = add_lookup(@, seq, rcp_at(seq) + bad)]
        total(r) == Run(LAMBDA s, j : s + R.P[(r - 1) * seq + j], 0, UpTo(seq))
    IN  R.ok => /\ \A r \in 1 .. seq : total(r) \in 128 - 2 * seq .. 128 + 2 * seq
                /\ Monotone(S, seq, alpha, LAMBDA d : d \in 1 .. 511)
                /\ SoftmaxBalanced(R.audit)
                /\ ~SoftmaxBalanced(fake)

\* The inverse square root grows with its argument by no more than one unit
\* of the table, one part in 1024, where the exponent changes parity; it
\* halves when the argument is multiplied by four, and is exact at powers of
\* four.
RsqrtLaw(v) ==
    /\ rsqrt_q14(v + 1) <= rsqrt_q14(v) + Shift(rsqrt_q14(v), 10)
    /\ v < 262144 => rsqrt_q14(4 * v) - Shift(rsqrt_q14(v), 1) \in -1 .. 1
    /\ \A k \in 0 .. 10 : v = 4 ^ k => rsqrt_q14(v) = 2 ^ (21 - k)

\* Over rows whose length divides 2^14: adding a constant to a row changes
\* nothing, a constant row gives zeros, larger inputs give no smaller outputs,
\* and the trace of divisions balances.
LayerNormExact(x, k) ==
    LET n == Len(x)
        R == layernorm_rows(x \o Array(n, LAMBDA j : x[j] + k), 2, n, OUT_ONE, 0, LogUpBatch(3))
        Z == layernorm_rows(Array(n, LAMBDA j : k), 1, n, OUT_ONE, 0, LogUpBatch(3))
    IN  R.ok /\ Z.ok =>
          /\ SubSeq(R.y, 1, n) = SubSeq(R.y, n + 1, 2 * n)
          /\ \A j \in 1 .. n : Z.y[j] = 0
          /\ \A i, j \in 1 .. n : x[i] <= x[j] => R.y[i] <= R.y[j]
          /\ balanced(R.audit, table_side_sum(R.audit, rcp_at))
          /\ \A j \in 1 .. n : LET f == fe_from_s64(R.y[j])
                               IN  R.y[j] \in -Word64 + 1 .. Word64 - 1 /\ P > 2 * Word64 =>
                                     fe_to_s64(f) = [ok |-> TRUE, v |-> R.y[j]]

\* A registered model is not replaced, its own opening is admitted and another
\* digest under the same randomness is not.
ModelBound(blocks, r, bad) ==
    LET d   == weight_digest(blocks)
        reg == register_model(<<>>, 5, model_commit(d, r)).reg
        two == register_model(reg, 5, model_commit(d, r + 1))
    IN  /\ ~two.ok /\ two.reg = reg
        /\ workload_admitted(reg, 5, d, r)
        /\ ~workload_admitted(reg, 6, d, r)
        /\ bad % Mersenne # 0 => ~workload_admitted(reg, 5, d + bad, r)
=============================================================================
