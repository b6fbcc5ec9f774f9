------------------------------ MODULE Circuits -----------------------------
(***************************************************************************)
(* The circuits: Poseidon (poseidon_r1cs.hpp), the openings of the sparse  *)
(* Merkle tree (smt_r1cs.hpp), the transition of a decree entry            *)
(* (fexec_circuit.hpp), the activation digest (fexec_act.hpp) and matrix   *)
(* products (gkr.hpp).  A system under construction keeps the entries of   *)
(* its three matrices and the witness w; wire 1 carries the constant one.  *)
(***************************************************************************)
EXTENDS Folding

CONSTANT SLOTS          \* activation slots of an instance

NEG == P - 1
System(w) == [a |-> <<>>, b |-> <<>>, c |-> <<>>, w |-> w]
Wire(S) == Len(S.w)                                     \* the newest wire
Push(S, v) == [S EXCEPT !.w = Append(@, v % P)]

\* A row is numbered by the entries of A so far, of which every row has one.
Row(S) == Len(S.a) + 1
prod_constraint(S, x, y, z) ==
    [S EXCEPT !.a = Append(@, <<Row(S), x, 1>>), !.b = Append(@, <<Row(S), y, 1>>),
              !.c = Append(@, <<Row(S), z, 1>>)]
lin_constraint(S, out, terms) ==
    [S EXCEPT !.a = Append(@, <<Row(S), out, 1>>), !.b = Append(@, <<Row(S), 1, 1>>),
              !.c = @ \o Array(Len(terms), LAMBDA i : <<Row(S), terms[i][1], terms[i][2]>>)]

\* A new wire for a product of two, or for a linear combination.
wmul(S, x, y) == LET T == Push(S, S.w[x] * S.w[y]) IN prod_constraint(T, x, y, Wire(T))
wlin(S, terms) ==
    LET T == Push(S, Run(LAMBDA v, t : (v + t[2] * S.w[t[1]]) % P, 0, terms))
    IN  lin_constraint(T, Wire(T), terms)

---------------------------------------------------------------------------
\* poseidon_r1cs.hpp.
sbox(S, x) == LET S2 == wmul(S, x, x)
                  S4 == wmul(S2, Wire(S2), Wire(S2))
              IN  wmul(S4, x, Wire(S4))

\* Three scaled wires and their sum for each of the three outputs.
mds_mul(S0, sb) ==
    Run(LAMBDA q, i :
               LET T == Run(LAMBDA U, j : wlin(U, <<<<sb[j], Fp.mds[i][j]>>>>), q.S, UpTo(3))
                   n == Wire(T)
                   V == wlin(T, <<<<n - 2, 1>>, <<n - 1, 1>>, <<n, 1>>>>)
               IN  [S |-> V, st |-> Append(q.st, Wire(V))],
             [S |-> S0, st |-> <<>>], UpTo(3))

\* The round constant becomes a wire that only the sum refers to.
ark(S, x, rc) == LET T == Push(S, rc) IN wlin(T, <<<<x, 1>>, <<Wire(T), 1>>>>)

\* Rounds with the first n lanes through the box, from constant k on.
BuildRound(q, n, rc) ==
    LET boxed == Run(LAMBDA u, i : LET T == ark(u.S, q.st[i], rc[q.k + i])
                                            V == sbox(T, Wire(T))
                                        IN  [S |-> V, sb |-> Append(u.sb, Wire(V))],
                          [S |-> q.S, sb |-> <<>>], UpTo(n))
        out == mds_mul(boxed.S, boxed.sb \o SubSeq(q.st, n + 1, 3))
    IN  [S |-> out.S, st |-> out.st, k |-> q.k + n]

build(S, s0, s1, s2, rc) ==
    LET full(q, n) == Run(LAMBDA t, r : BuildRound(t, 3, rc), q, UpTo(n))
        part(q, n) == Run(LAMBDA t, r : BuildRound(t, 1, rc), q, UpTo(n))
        end == full(part(full([S |-> S, st |-> <<s0, s1, s2>>, k |-> 0], Fp.half), Fp.partial), Fp.half)
    IN  [S |-> end.S, out |-> end.st[1]]

---------------------------------------------------------------------------
\* smt_r1cs.hpp.  The first version hashes the current wire first whatever
\* the direction, takes wire 4 for the third lane and binds no root.
build_smt_opening(S, leaf, sibs, rc) ==
    Run(LAMBDA q, sib : build(q.S, q.out, sib, 4, rc), [S |-> S, out |-> leaf], sibs)

\* Mutant: the direction wire is not held to zero and one.
boolean_row_None(S, dir) == S

boolean_row(S, dir) == prod_constraint(S, dir, dir, dir)

\* The second: a selector orders the pair by the direction wire, every level
\* has its own constants, and the last row binds the root.
build_smt_opening2(S, leaf, sibs, dirs, iv, root, rc) ==
    LET per == 6 * Fp.half + Fp.partial
        level(q, l) ==
          LET B0 == boolean_row(q.S, dirs[l])
              T  == wmul(B0, dirs[l], sibs[l])
              U  == wmul(T, dirs[l], q.out)
              t  == Wire(T)
              u  == Wire(U)
              L  == wlin(U, <<<<t, 1>>, <<u, NEG>>, <<q.out, 1>>>>)
              R  == wlin(L, <<<<u, 1>>, <<t, NEG>>, <<sibs[l], 1>>>>)
          IN  build(R, Wire(L), Wire(R), iv, SubSeq(rc, (l - 1) * per + 1, l * per))
        end == Run(level, [S |-> S, out |-> leaf], UpTo(Len(sibs)))
    IN  [S |-> lin_constraint(end.S, root, <<<<end.out, 1>>>>), out |-> end.out]

---------------------------------------------------------------------------
\* gkr.hpp.  A and B are laid out row by row, then C, then the products.
build_gemm(S0, rows, cols, inner) ==
    LET n  == Len(S0.w)
        at == [a |-> n, b |-> n + rows * inner, c |-> n + rows * inner + inner * cols]
        S1 == [S0 EXCEPT !.w = @ \o Zeros(rows * inner + inner * cols + rows * cols)]
        cell(S, i, j) ==
          LET T == Run(LAMBDA U, k : LET V == Push(U, 0)
                                          IN  prod_constraint(V, at.a + (i - 1) * inner + k,
                                                              at.b + (k - 1) * cols + j, Wire(V)),
                            S, UpTo(inner))
          IN  lin_constraint(T, at.c + (i - 1) * cols + j,
                             Array(inner, LAMBDA k : <<Wire(T) - inner + k, 1>>))
    IN  [S  |-> Run(LAMBDA S, ij : cell(S, 1 + (ij - 1) \div cols, 1 + ((ij - 1) % cols)), S1, UpTo(rows * cols)),
         at |-> at]
gemm_eval(A, B, rows, cols, inner) ==
    Array(rows * cols, LAMBDA ij :
      LET i == (ij - 1) \div cols
          j == 1 + ((ij - 1) % cols)
      IN  Run(LAMBDA s, k : (s + A[i * inner + k] * B[(k - 1) * cols + j]) % P, 0, UpTo(inner)))

---------------------------------------------------------------------------
\* fexec_circuit.hpp: the wires of a transition and its eight rows.
FexecWires == <<"U", "DPREV", "DNEW", "PTHASH", "COMPUTED", "NONCES", "NONCEPT", "LT",
                "SELF", "ISPAD", "PC", "SELEXEC", "BALNEW", "H", "NOTPAD", "ONE">>
Z(name) == CHOOSE i \in DOMAIN FexecWires : FexecWires[i] = name
build_matrices ==
    LET M(es) == [n |-> 8, e |-> [i \in DOMAIN es |-> <<es[i][1] + 1, Z(es[i][2]), es[i][3] % P>>]]
    IN  [A |-> M(<<<<0, "NOTPAD", 1>>, <<1, "NOTPAD", 1>>, <<2, "LT", 1>>, <<3, "ISPAD", 1>>,
                   <<4, "SELF", 1>>, <<5, "PC", 1>>, <<6, "H", 1>>, <<7, "ISPAD", 1>>>>),
         B |-> M(<<<<0, "COMPUTED", 1>>, <<0, "PTHASH", -1>>,
                   <<1, "NONCES", 1>>, <<1, "NONCEPT", -1>>, <<1, "ONE", 1>>,
                   <<2, "LT", 1>>, <<3, "ISPAD", 1>>, <<4, "SELF", 1>>, <<5, "PC", 1>>, <<6, "PC", 1>>,
                   <<7, "DNEW", 1>>, <<7, "DPREV", -1>>>>),
         C |-> M(<<<<2, "LT", 1>>, <<3, "ISPAD", 1>>, <<4, "SELF", 1>>, <<5, "H", 1>>,
                   <<6, "H", 3>>, <<6, "PC", -2>>>>)]

\* fexec_act.hpp: a chain of sums with a power of two public constants for
\* each slot, so that the order of the pairs counts.
C1 == 11
C2 == 13
slot_coeffs(i) == <<Power(P, C1, i), Power(P, C2, i)>>
W_IDX(i) == 2 + 2 * i
W_UV(i)  == 3 + 2 * i
W_ACC(i) == 3 + 2 * SLOTS + i
PairTerm(p, i) == (slot_coeffs(i)[1] * p.idx + slot_coeffs(i)[2] * p.uv) % P
Least(a, b) == IF a < b THEN a ELSE b
pairs_digest(ps) ==
    Run(LAMBDA acc, i : (acc + PairTerm(ps[i], i)) % P, 0, UpTo(Least(Len(ps), SLOTS)))
build_act_matrices ==
    LET prev(i) == IF i = 1 THEN 3 ELSE W_ACC(i - 1)
    IN  [A |-> [n |-> SLOTS, e |-> FlattenSeq(Array(SLOTS, LAMBDA i :
                  <<<<i, W_IDX(i), slot_coeffs(i)[1]>>, <<i, W_UV(i), slot_coeffs(i)[2]>>, <<i, prev(i), 1>>>>))],
         B |-> [n |-> SLOTS, e |-> Array(SLOTS, LAMBDA i : <<i, 2, 1>>)],
         C |-> [n |-> SLOTS, e |-> Array(SLOTS, LAMBDA i : <<i, W_ACC(i), 1>>)]]
honest_z(ps) ==
    Run(LAMBDA z, i : [z EXCEPT ![W_IDX(i)] = ps[i].idx % P, ![W_UV(i)] = ps[i].uv % P,
                                     ![W_ACC(i)] = pairs_digest(SubSeq(ps, 1, i))],
             <<1, 1>> \o Zeros(1 + 3 * SLOTS), UpTo(Least(Len(ps), SLOTS)))
circuit_digest(z) == z[W_ACC(SLOTS)]
satisfied(M, z) ==
    LET az == mat_vec(M.A, z)
        bz == mat_vec(M.B, z)
        cz == mat_vec(M.C, z)
    IN  \A r \in 1 .. M.A.n : (az[r] * bz[r]) % P = cz[r]

---------------------------------------------------------------------------
\* The matrices of a built system.
MatricesOf(S) ==
    LET M(es) == [n |-> Len(S.a), e |-> es] IN [A |-> M(S.a), B |-> M(S.b), C |-> M(S.c)]
Holds(S) == S.w[1] = 1 /\ satisfied(MatricesOf(S), S.w)

\* The circuit computes the permutation, and a change of any one wire but
\* the constant's is refused.
PoseidonCircuit(l, r, iv, bad) ==
    LET G == build(System(<<1, l, r, iv>>), 2, 3, 4, Fp.rc)
    IN  /\ Holds(G.S)
        /\ G.S.w[G.out] = p3_permute(Fp, <<l, r, iv>>)[1]
        /\ bad \in 2 .. Len(G.S.w) => ~Holds([G.S EXCEPT !.w[bad] = (@ + 1) % P])

\* The opening circuit is satisfied by the root of the path hashed in the
\* order of the direction bits, by no other root and by no direction wire
\* that is neither zero nor one.
OpeningCircuit(leaf, sibs, dirs, iv, wrong) ==
    LET d     == Len(sibs)
        fields == [l \in 1 .. d |-> [Fp EXCEPT !.rc = SubSeq(Fp.rc, 1, 6 * Fp.half + Fp.partial)]]
        root  == Run(LAMBDA h, l : IF dirs[l] = 1 THEN p3_permute(fields[l], <<sibs[l], h, iv>>)[1]
                                        ELSE p3_permute(fields[l], <<h, sibs[l], iv>>)[1], leaf, UpTo(d))
        rcs   == FlattenSeq([l \in 1 .. d |-> fields[l].rc])
        at(w) == build_smt_opening2(System(w), 2, [l \in 1 .. d |-> 4 + l], [l \in 1 .. d |-> 4 + d + l], 3, 4, rcs)
        w0    == <<1, leaf, iv, root>> \o sibs \o dirs
    IN  /\ Holds(at(w0).S)
        /\ ~Holds(at([w0 EXCEPT ![4] = (@ + wrong) % P]).S)
        /\ \A l \in 1 .. d : LET G == at([w0 EXCEPT ![4 + d + l] = 1 + wrong])
                             IN  ~Holds([G.S EXCEPT !.w[4] = G.S.w[G.out]])

\* The transition rows hold exactly when what they encode does.
TransitionCircuit(z) ==
    LET v(name) == z[Z(name)]
    IN  satisfied(build_matrices, z) <=>
          /\ v("NOTPAD") = 0 \/ (v("COMPUTED") = v("PTHASH") /\ v("NONCEPT") = (v("NONCES") + v("ONE")) % P)
          /\ {v("LT"), v("ISPAD"), v("SELF")} \subseteq {0, 1}
          /\ v("PC") \in {0, 1, 2} /\ v("H") = (v("PC") * v("PC")) % P
          /\ v("ISPAD") = 1 => v("DNEW") = v("DPREV")

\* The activation circuit's digest is the batch's, and no other running value
\* satisfies it; the product circuit holds for the product alone.
ActivationCircuit(ps) ==
    /\ satisfied(build_act_matrices, honest_z(ps))
    /\ circuit_digest(honest_z(ps)) = pairs_digest(ps)
    /\ \A i \in 1 .. SLOTS : ~satisfied(build_act_matrices, [honest_z(ps) EXCEPT ![W_ACC(i)] = (@ + 1) % P])
GemmCircuit(A, B, rows, cols, inner, wrong) ==
    LET G  == build_gemm(System(<<1>>), rows, cols, inner)
        C  == gemm_eval(A, B, rows, cols, inner)
        ps == Array(rows * cols * inner, LAMBDA n :
                LET k == 1 + ((n - 1) % inner)
                    c == (n - 1) \div inner
                IN  (A[(c \div cols) * inner + k] * B[(k - 1) * cols + 1 + (c % cols)]) % P)
        w(D) == <<1>> \o A \o B \o D \o ps
    IN  /\ Holds([G.S EXCEPT !.w = w(C)])
        /\ \A i \in DOMAIN C : ~Holds([G.S EXCEPT !.w = w([C EXCEPT ![i] = (@ + wrong) % P])])
=============================================================================
