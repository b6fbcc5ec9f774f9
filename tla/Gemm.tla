-------------------------------- MODULE Gemm -------------------------------
(***************************************************************************)
(* Proofs of useful work: one sum-check for a whole matrix product         *)
(* (pouw.hpp), products sharded over the blocks of the output              *)
(* (pouw/block_shard.hpp) and attention as a composition of products       *)
(* (pouw/attention.hpp).  Matrices are sequences in row-major order.       *)
(***************************************************************************)
EXTENDS Folding, Kernels

At(M, width, i, j) == M[(i - 1) * width + j]
Matrix(rows, cols, F(_, _)) ==
    Array(rows * cols, LAMBDA n : F((n - 1) \div cols + 1, ((n - 1) % cols) + 1))

matmul(A, B, rows, inner, cols) ==
    Matrix(rows, cols, LAMBDA i, j : SumUp([k \in 1 .. inner |-> At(A, inner, i, k) * At(B, cols, k, j)]))
gemm(A, B, n) == matmul(A, B, n, n, n)
transpose(M, r, c) == Matrix(c, r, LAMBDA j, i : At(M, c, i, j))
col_slice(M, seq, dm, h, dh) == Matrix(seq, dh, LAMBDA r, c : At(M, dm, r, (h - 1) * dh + c))

---------------------------------------------------------------------------
\* pouw.hpp.
Powers(g, n) == Array(n, LAMBDA i : Power(P, g, i - 1))
fold_witness(A, B, rows, cols, inner, g, d) ==
    LET gp == Powers(g, rows)
        dp == Powers(d, cols)
    IN  [a |-> Array(inner, LAMBDA k : SumUp([i \in 1 .. rows |-> gp[i] * At(A, inner, i, k)])),
         b |-> Array(inner, LAMBDA k : SumUp([j \in 1 .. cols |-> dp[j] * At(B, cols, k, j)]))]
claim_from_C(C, rows, cols, g, d) ==
    LET gp == Powers(g, rows)
        dp == Powers(d, cols)
        row(i) == SumUp([j \in 1 .. cols |-> dp[j] * At(C, cols, i, j)])
    IN  SumUp([i \in 1 .. rows |-> gp[i] * row(i)])
pad_to(v, nv) == Array(Size(nv), LAMBDA t : IF t <= Len(v) THEN v[t] ELSE 0)
kdim(inner) == CHOOSE nv \in 0 .. 12 : Size(nv) >= inner /\ (nv = 0 \/ Size(nv - 1) < inner)

prove_gemm(A, B, C, rows, cols, inner, g, d) ==
    LET w  == fold_witness(A, B, rows, cols, inner, g, d)
        nv == kdim(inner)
    IN  [inner |-> inner, claim |-> claim_from_C(C, rows, cols, g, d),
         T |-> prove_2(nv, pad_to(w.a, nv), pad_to(w.b, nv))]
verify_gemm(pf, a, b) ==
    LET nv == kdim(pf.inner)
    IN  /\ verify(pf.T, pf.claim) = pf.T.nv
        /\ pf.T.fa = direct_eval(pad_to(a, nv), pf.T.r)
        /\ pf.T.fb = direct_eval(pad_to(b, nv), pf.T.r)

fs_challenges(cA, cB, cC) ==
    LET g == poseidon3("POUW", cA, cB) IN [g |-> g, d |-> poseidon3("POUW", g, cC)]

prove_gemm_v2(A, B, C, rows, cols, inner) ==
    LET f  == fs_challenges(commit(A), commit(B), commit(C))
        w  == fold_witness(A, B, rows, cols, inner, f.g, f.d)
        nv == kdim(inner)
        ap == pad_to(w.a, nv)
        bp == pad_to(w.b, nv)
        T  == prove_2(nv, ap, bp)
    IN  [comA |-> commit(A), comB |-> commit(B), comC |-> commit(C), gamma |-> f.g, delta |-> f.d,
         claim |-> claim_from_C(C, rows, cols, f.g, f.d), T |-> T, O |-> open_2_at(ap, bp, T.r),
         rows |-> rows, cols |-> cols, inner |-> inner]

\* Mutant: the claim is not compared with the output that was delivered.
OutputBound_Never(pf, C, f) == TRUE

\* The claim must be the one of the delivered output.
OutputBound(pf, C, f) == pf.claim = claim_from_C(C, pf.rows, pf.cols, f.g, f.d)

\* Commitments, challenges, output, identity, opening and witness, in turn.
verify_gemm_v2(pf, A, B, C) ==
    LET f  == fs_challenges(pf.comA, pf.comB, pf.comC)
        w  == fold_witness(A, B, pf.rows, pf.cols, pf.inner, f.g, f.d)
        nv == kdim(pf.inner)
    IN  /\ pf.comA = commit(A) /\ pf.comB = commit(B) /\ pf.comC = commit(C)
        /\ pf.gamma = f.g /\ pf.delta = f.d
        /\ OutputBound(pf, C, f)
        /\ verify(pf.T, pf.claim) = pf.T.nv
        /\ verify_at(pf.O, pf.T.claims[1], pf.T.r) = pf.O.nv
        /\ pf.O.fa = pf.T.fa /\ pf.O.fb = pf.T.fb
        /\ pf.T.fa = direct_eval(pad_to(w.a, nv), pf.T.r)
        /\ pf.T.fb = direct_eval(pad_to(w.b, nv), pf.T.r)

\* The submitted arrays must open the registered commitments.
ped_eq(p, q) == Vadd(p, [q EXCEPT !.y = (-@) % Fq.m]).z = 0
verify_gemm_v3(pf, A, B, C, regA, regB, r) ==
    /\ ped_eq(commit_vec(A, r), regA) /\ ped_eq(commit_vec(B, r), regB)
    /\ verify_gemm_v2(pf, A, B, C)

---------------------------------------------------------------------------
\* block_shard.hpp.  Blocks are numbered from zero in the proof.
shard_spec_ok(N, m) == N > 0 /\ m > 0 /\ m <= N /\ N % m = 0
block_leaf(pf, bi, bj) ==
    LET p3(l, r) == poseidon3("SHARD", l, r)
    IN  p3(p3(p3(p3(bi % P, bj % P), pf.comA), pf.comB), pf.comC)
fold_roots(leaves) ==
    IF leaves = <<>> THEN 0
    ELSE Run(LAMBDA acc, x : poseidon3("SHARD", acc, x), leaves[1], Tail(leaves))
rederive_root(S) ==
    fold_roots(Array(Len(S.proofs), LAMBDA k : block_leaf(S.proofs[k], S.blocks[k].bi, S.blocks[k].bj)))

\* The views of a block: full rows of A, full columns of B, a square of C.
BlockOf(A, B, C, N, m, b) ==
    [A |-> Matrix(m, N, LAMBDA r, c : At(A, N, b.bi * m + r, c)),
     B |-> Matrix(N, m, LAMBDA r, c : At(B, N, r, b.bj * m + c)),
     C |-> Matrix(m, m, LAMBDA r, c : At(C, N, b.bi * m + r, b.bj * m + c))]

prove_sharded(A, B, C, N, m) ==
    LET gb == N \div m
        blocks == Matrix(gb, gb, LAMBDA i, j : [bi |-> i - 1, bj |-> j - 1])
        prove(k) == LET v == BlockOf(A, B, C, N, m, blocks[k]) IN prove_gemm_v2(v.A, v.B, v.C, m, m, N)
        S == [N |-> N, m |-> m, gb |-> gb, blocks |-> blocks, proofs |-> Array(gb * gb, prove), root |-> 0]
    IN  [S EXCEPT !.root = rederive_root(S)]

\* Draws with repetition from a generator seeded by the beacon.
sample_blocks(seed, count, pool) ==
    Array(IF count > pool THEN pool ELSE count, LAMBDA s : 1 + (Sha(<<9, seed, s>>) % pool))

verify_sharded(S, A, B, C, seed, count) ==
    LET idx == sample_blocks(seed, count, Len(S.proofs))
        ok(k) == LET v == BlockOf(A, B, C, S.N, S.m, S.blocks[k]) IN verify_gemm_v2(S.proofs[k], v.A, v.B, v.C)
    IN  /\ shard_spec_ok(S.N, S.m) /\ S.gb = S.N \div S.m
        /\ Len(S.blocks) = S.gb * S.gb /\ Len(S.proofs) = Len(S.blocks)
        /\ \A M \in {A, B, C} : Len(M) = S.N * S.N
        /\ \A k \in DOMAIN S.blocks : /\ S.blocks[k].bi < S.gb /\ S.blocks[k].bj < S.gb
                                      /\ S.proofs[k].rows = S.m /\ S.proofs[k].cols = S.m
                                      /\ S.proofs[k].inner = S.N
        /\ rederive_root(S) = S.root
        /\ idx # <<>> /\ \A s \in DOMAIN idx : ok(idx[s])

---------------------------------------------------------------------------
\* attention.hpp.  W holds the four weight matrices.
attn_spec_ok(seq, dm, heads) == seq > 0 /\ dm > 0 /\ heads > 0 /\ dm % heads = 0
descale7(M) == Array(Len(M), LAMBDA i : IF fe_u64(M[i]).ok THEN Shift(M[i], 7) ELSE 0)
Projections(X, W, seq, dm) ==
    [q |-> matmul(X, W.q, seq, dm, dm), k |-> matmul(X, W.k, seq, dm, dm), v |-> matmul(X, W.v, seq, dm, dm)]
Descaled(M) == [q |-> descale7(M.q), k |-> descale7(M.k), v |-> descale7(M.v)]

\* One head.  The score product is called with inner dimension seq and dh
\* columns, which is the product only when the two are equal.
Scores(M, seq, dm, dh, h) ==
    LET Q1 == col_slice(M.q, seq, dm, h, dh)
        KT == transpose(col_slice(M.k, seq, dm, h, dh), seq, dh)
    IN  [Q |-> Q1, KT |-> KT, V |-> col_slice(M.v, seq, dm, h, dh), S |-> matmul(Q1, KT, seq, seq, dh)]
Outputs(Ph, hd, seq, dh) == matmul(Ph, hd.V, seq, seq, dh)
Concat(As, seq, dm, dh) == Matrix(seq, dm, LAMBDA r, c : At(As[(c - 1) \div dh + 1], dh, r, ((c - 1) % dh) + 1))

\* The legs proved from the projections raw, of which M feeds the heads.
ProveLegs(X, W, raw, M, Ps, seq, dm, heads) ==
    LET dh  == dm \div heads
        hd  == Array(heads, LAMBDA h : Scores(M, seq, dm, dh, h))
        As  == Array(heads, LAMBDA h : Outputs(Ps[h], hd[h], seq, dh))
        fin == Concat(As, seq, dm, dh)
        leg(B, C) == prove_gemm_v2(X, B, C, seq, dm, dm)
    IN  [seq |-> seq, dm |-> dm, heads |-> heads, dh |-> dh,
         Q |-> leg(W.q, raw.q), K |-> leg(W.k, raw.k), V |-> leg(W.v, raw.v),
         S |-> Array(heads, LAMBDA h : prove_gemm_v2(hd[h].Q, hd[h].KT, hd[h].S, seq, seq, dh)),
         A |-> Array(heads, LAMBDA h : prove_gemm_v2(Ps[h], hd[h].V, As[h], seq, dh, seq)),
         OUT |-> prove_gemm_v2(fin, W.o, matmul(fin, W.o, seq, dm, dm), seq, dm, dm)]
LegsOk(pf, X, W, raw, M, Ps) ==
    LET hd  == Array(pf.heads, LAMBDA h : Scores(M, pf.seq, pf.dm, pf.dh, h))
        As  == Array(pf.heads, LAMBDA h : Outputs(Ps[h], hd[h], pf.seq, pf.dh))
        fin == Concat(As, pf.seq, pf.dm, pf.dh)
    IN  /\ verify_gemm_v2(pf.Q, X, W.q, raw.q)
        /\ verify_gemm_v2(pf.K, X, W.k, raw.k)
        /\ verify_gemm_v2(pf.V, X, W.v, raw.v)
        /\ \A h \in 1 .. pf.heads : /\ verify_gemm_v2(pf.S[h], hd[h].Q, hd[h].KT, hd[h].S)
                                    /\ verify_gemm_v2(pf.A[h], Ps[h], hd[h].V, As[h])
        /\ verify_gemm_v2(pf.OUT, fin, W.o, matmul(fin, W.o, pf.seq, pf.dm, pf.dm))

\* The scaffold, with the weights P given.
prove_attention(X, W, Ps, seq, dm, heads) ==
    LET M == Projections(X, W, seq, dm) IN ProveLegs(X, W, M, M, Ps, seq, dm, heads)
verify_attention(pf, X, W, Ps) ==
    /\ attn_spec_ok(pf.seq, pf.dm, pf.heads) /\ pf.dh = pf.dm \div pf.heads
    /\ Len(Ps) = pf.heads /\ \A h \in DOMAIN Ps : Len(Ps[h]) = pf.seq * pf.seq
    /\ Len(pf.S) = pf.heads /\ Len(pf.A) = pf.heads
    /\ LET M == Projections(X, W, pf.seq, pf.dm) IN LegsOk(pf, X, W, M, M, Ps)

\* The full path derives P from the scores of the rescaled projections.
Derived(M, seq, dm, heads, alpha) ==
    Array(heads, LAMBDA h : softmax_rows(Scores(M, seq, dm, dm \div heads, h).S, seq,
                                         SoftmaxBatch(alpha + h - 1)))
AsField(R) == Array(Len(R), LAMBDA h : R[h].P)

prove_attention_full(X, W, seq, dm, heads, alpha) ==
    LET raw == Projections(X, W, seq, dm)
        M   == Descaled(raw)
        R   == Derived(M, seq, dm, heads, alpha)
    IN  [legs |-> ProveLegs(X, W, raw, M, AsField(R), seq, dm, heads),
         P_q7 |-> AsField(R), sm |-> Array(heads, LAMBDA h : R[h].audit)]

\* The verifier's own weights decide; the ones carried must agree.
verify_attention_full(pf, X, W) ==
    LET L   == pf.legs
        raw == Projections(X, W, L.seq, L.dm)
        M   == Descaled(raw)
        R   == Derived(M, L.seq, L.dm, L.heads, 0)
    IN  /\ attn_spec_ok(L.seq, L.dm, L.heads) /\ L.dh = L.dm \div L.heads
        /\ Len(L.S) = L.heads /\ Len(L.A) = L.heads
        /\ Len(pf.P_q7) = L.heads /\ Len(pf.sm) = L.heads
        /\ \A h \in 1 .. L.heads : /\ Len(pf.P_q7[h]) = L.seq * L.seq
                                   /\ R[h].ok /\ R[h].P = pf.P_q7[h]
                                   /\ SoftmaxBalanced(pf.sm[h])
        /\ LegsOk(L, X, W, raw, M, AsField(R))
---------------------------------------------------------------------------
\* A proof for an output with an error is accepted only if the folded claim
\* is blind to it.
FakedRefused(A, B, rows, cols, inner, pos, c, g, d) ==
    LET C    == matmul(A, B, rows, inner, cols)
        bad  == [C EXCEPT ![pos] = (@ + c) % P]
        f    == fs_challenges(commit(A), commit(B), commit(bad))
        w    == fold_witness(A, B, rows, cols, inner, g, d)
    IN  /\ verify_gemm(prove_gemm(A, B, bad, rows, cols, inner, g, d), w.a, w.b)
              <=> claim_from_C(bad, rows, cols, g, d) = claim_from_C(C, rows, cols, g, d)
        /\ verify_gemm_v2(prove_gemm_v2(A, B, bad, rows, cols, inner), A, B, bad)
              <=> claim_from_C(bad, rows, cols, f.g, f.d) = claim_from_C(C, rows, cols, f.g, f.d)

\* Product proofs: the honest one is accepted at every level; one moved to
\* another output, or over a model that is not the registered one, is refused;
\* and so is one for a wrong output when the inner dimension is at least two.
GemmExact(A, B, rows, cols, inner, pos, c, g, d) ==
    LET C    == matmul(A, B, rows, inner, cols)
        bad  == [C EXCEPT ![pos] = (@ + c) % P]
        f    == fs_challenges(commit(A), commit(B), commit(bad))
        w    == fold_witness(A, B, rows, cols, inner, g, d)
        A2   == [A EXCEPT ![1] = (@ + c) % P]
        C2   == matmul(A2, B, rows, inner, cols)
        pf   == prove_gemm_v2(A, B, C, rows, cols, inner)
        regA == commit_vec(A, 3)
        regB == commit_vec(B, 3)
    IN  /\ verify_gemm(prove_gemm(A, B, C, rows, cols, inner, g, d), w.a, w.b)
        /\ inner >= 2 => FakedRefused(A, B, rows, cols, inner, pos, c, g, d)
        /\ verify_gemm_v3(pf, A, B, C, regA, regB, 3)
        /\ verify_gemm_v2([pf EXCEPT !.comC = commit(bad), !.gamma = f.g, !.delta = f.d], A, B, bad) => bad = C
        /\ vesta_base(1).z # 0 =>
              ~verify_gemm_v3(prove_gemm_v2(A2, B, C2, rows, cols, inner), A2, B, C2, regA, regB, 3)

\* A sharded proof of a correct product is accepted; one with a wrong entry
\* is refused as soon as its block is sampled, and accepted when it is not; a
\* proof moved to another cell of the grid breaks the root.
ShardExact(A, B, N, m, seed, count, pos, c) ==
    LET C   == gemm(A, B, N)
        S   == prove_sharded(A, B, C, N, m)
        bad == [C EXCEPT ![pos] = (@ + c) % P]
        S2  == prove_sharded(A, B, bad, N, m)
        cell == [bi |-> ((pos - 1) \div N) \div m, bj |-> ((pos - 1) % N) \div m]
        idx == sample_blocks(seed, count, Len(S.proofs))
        hit == \E s \in DOMAIN idx : S2.blocks[idx[s]] = cell
    IN  /\ verify_sharded(S, A, B, C, seed, count)
        /\ verify_sharded(S2, A, B, bad, seed, count) <=> ~hit
        /\ \A k \in 2 .. Len(S.proofs) : S.proofs[k] # S.proofs[1] =>
              ~verify_sharded([S EXCEPT !.proofs[1] = S.proofs[k], !.proofs[k] = S.proofs[1]],
                              A, B, C, seed, count)

\* An honest attention proof is accepted.
AttentionAccepted(X, W, Ps, seq, dm, heads) ==
    verify_attention(prove_attention(X, W, Ps, seq, dm, heads), X, W, Ps)

\* With seq = dh an honest attention proof is accepted, on both paths; the
\* full path refuses carried weights that differ from the derived ones, and a
\* leg lifted from another head.
AttentionExact(X, W, Ps, seq, dm, heads, alpha) ==
    LET full == prove_attention_full(X, W, seq, dm, heads, alpha)
    IN  /\ AttentionAccepted(X, W, Ps, seq, dm, heads)
        /\ full.P_q7[1] # <<>> =>
             /\ verify_attention_full(full, X, W)
             /\ ~verify_attention_full([full EXCEPT !.P_q7[1][1] = @ + 1], X, W)
             /\ full.legs.S[1] # full.legs.S[heads] =>
                  ~verify_attention_full([full EXCEPT !.legs.S[1] = full.legs.S[heads]], X, W)
=============================================================================
