------------------------------ MODULE Sumcheck -----------------------------
(***************************************************************************)
(* The sum-check engine (sumcheck.hpp), the multilinear commitment that    *)
(* opens with the same rounds at a derived or a given point (pcs.hpp), and *)
(* the wrap that adds out-of-domain points (whir.hpp) with its wire form.  *)
(* An array of 2^nv evaluations is a sequence; bit v of the index (from    *)
(* zero) is variable v.                                                    *)
(***************************************************************************)
EXTENDS Poseidon

CONSTANTS
    Sha(_),     \* SHA-256 of a tuple of words, as a number
    K_OOD       \* out-of-domain points of the wrap

SC == "SUMCHECK"
Size(nv) == 2 ^ nv
Log(n) == CHOOSE v \in 0 .. 20 : 2 ^ v <= n /\ n < 2 ^ (v + 1)   \* 31 - clz
SumUp(s) == Run(LAMBDA a, x : (a + x) % P, 0, s)
Dot(a, b) == SumUp([i \in DOMAIN a |-> a[i] * b[i]])
Inv2 == (P + 1) \div 2

---------------------------------------------------------------------------
\* chal: the challenge of a round is hashed from its values and the claim.
chal(e, d, claim) ==
    LET t == poseidon3(SC, e[1], e[2])
    IN  poseidon3(SC, IF d = 2 THEN poseidon3(SC, t, e[3]) ELSE t, claim)

\* Mutant: the middle basis polynomial with its sign reversed.
lag2_Sign(r, e) ==
    LET L0 == ((r - 1) * (r - 2) * Inv2) % P
        L1 == (r * (r - 2)) % P
        L2 == (r * (r - 1) * Inv2) % P
    IN  (e[1] * L0 + e[2] * L1 + e[3] * L2) % P

\* lag2: the quadratic through its values at 0, 1 and 2.
lag2(r, e) ==
    LET L0 == ((((r - 1) * (r - 2)) % P) * Inv2) % P
        L1 == (r * (2 - r)) % P
        L2 == (((r * (r - 1)) % P) * Inv2) % P
    IN  (e[1] * L0 + e[2] * L1 + e[3] * L2) % P

\* One variable bound to r: neighbours are interpolated.
Bind(a, r) ==
    Array(Len(a) \div 2, LAMBDA j : (a[2 * j - 1] * ((1 - r) % P) + a[2 * j] * r) % P)

\* The values of a round at 0, 1 and, for a product, 2.
Values(d, a, b) ==
    LET half == 1 .. Len(a) \div 2
        two(x, j) == (2 * x[2 * j] - x[2 * j - 1]) % P
    IN  IF d = 1 THEN <<SumUp([j \in half |-> a[2 * j - 1]]), SumUp([j \in half |-> a[2 * j]]), 0>>
        ELSE <<SumUp([j \in half |-> a[2 * j - 1] * b[2 * j - 1]]),
               SumUp([j \in half |-> a[2 * j] * b[2 * j]]),
               SumUp([j \in half |-> two(a, j) * two(b, j)])>>
NextClaim(d, e, r) == IF d = 1 THEN (e[1] * ((1 - r) % P) + e[2] * r) % P ELSE lag2(r, e)

\* The rounds: each binds the lowest variable to the challenge that At gives
\* for its number, its values and the running claim.
Rounds(d, nv, a0, b0, At(_, _, _)) ==
    Run(LAMBDA T, i :
               LET e == Values(d, T.a, T.b)
                   c == T.claims[i]
                   r == At(i, e, c)
               IN  [T EXCEPT !.a = Bind(T.a, r), !.b = Bind(T.b, r), !.r = Append(T.r, r),
                             !.evals = Append(T.evals, e),
                             !.claims = Append(T.claims, NextClaim(d, e, r))],
             [a |-> a0, b |-> b0, r |-> <<>>, evals |-> <<>>,
              claims |-> <<IF d = 1 THEN SumUp(a0) ELSE Dot(a0, b0)>>], UpTo(nv))
Finish(d, nv, T) ==
    [nv |-> nv, d |-> d, claims |-> T.claims, evals |-> T.evals, r |-> T.r,
     fa |-> T.a[1], fb |-> IF d = 1 THEN 0 ELSE T.b[1]]

prove_1(nv, a) ==
    Finish(1, nv, Rounds(1, nv, a, a, LAMBDA i, e, c : chal(e, 1, c)))
prove_2(nv, a, b) ==
    Finish(2, nv, Rounds(2, nv, a, b, LAMBDA i, e, c : chal(e, 2, c)))

\* The first round, counted from zero, that fails Ok; n when none does.
FirstFailure(n, Ok(_)) ==
    IF \A i \in 0 .. n - 1 : Ok(i) THEN n
    ELSE CHOOSE i \in 0 .. n - 1 : ~Ok(i) /\ \A j \in 0 .. i - 1 : Ok(j)
RoundOk(T, i, r) ==
    LET e == T.evals[i + 1]
    IN  /\ (e[1] + e[2]) % P = T.claims[i + 1]
        /\ NextClaim(T.d, e, r) = T.claims[i + 2]
FinalOk(T) == (IF T.d = 1 THEN T.fa ELSE (T.fa * T.fb) % P) = T.claims[T.nv + 1]

\* verify: nv accepts, 0 is also a wrong initial claim, i the failing round,
\* nv + 1 a wrong final value.
verify(T, C) ==
    LET ok(i) == chal(T.evals[i + 1], T.d, T.claims[i + 1]) = T.r[i + 1] /\ RoundOk(T, i, T.r[i + 1])
        bad   == FirstFailure(T.nv, ok)
    IN  IF T.claims[1] # C THEN 0
        ELSE IF bad < T.nv THEN bad ELSE IF FinalOk(T) THEN T.nv ELSE T.nv + 1

\* direct_eval: the multilinear extension as a weighted sum.
direct_eval(a, r) ==
    LET weight(n) == Run(LAMBDA w, v : (w * (IF (n \div 2 ^ (v - 1)) % 2 = 1 THEN r[v] ELSE (1 - r[v]) % P)) % P,
                              1, UpTo(Len(r)))
    IN  SumUp([i \in DOMAIN a |-> a[i] * weight(i - 1)])

---------------------------------------------------------------------------
\* pcs.hpp.  The point is derived from the commitment alone.
commit(evals) == Hash(SC, evals)
derive_points(C, nv) == Array(nv, LAMBDA i : poseidon3(SC, C, i - 1))

NoOpening == [nv |-> 0, d |-> 0, claims |-> <<>>, evals |-> <<>>, fa |-> 0, fb |-> 0]
Opening(d, nv, T) ==
    [nv |-> nv, d |-> d, claims |-> T.claims, evals |-> T.evals, fa |-> T.a[1],
     fb |-> IF d = 1 THEN 0 ELSE T.b[1]]

open_1(a) ==
    LET nv == Log(Len(a))
        r  == derive_points(commit(a), nv)
    IN  Opening(1, nv, Rounds(1, nv, a, a, LAMBDA i, e, c : r[i]))
open_2(a, b) ==
    LET nv == Log(Len(a))
        r  == derive_points(commit(a \o b), nv)
    IN  Opening(2, nv, Rounds(2, nv, a, b, LAMBDA i, e, c : r[i]))

PCS_REJECT_FINAL == -1
ChainVerdict(O, r) ==
    LET bad == FirstFailure(O.nv, LAMBDA i : RoundOk(O, i, r[i + 1]))
    IN  IF bad < O.nv THEN bad ELSE IF FinalOk(O) THEN O.nv ELSE PCS_REJECT_FINAL
pcs_verify(O, C) == IF O.claims = <<>> THEN 0 ELSE ChainVerdict(O, derive_points(C, O.nv))

\* The same rounds at the caller's point; a wrong size opens nothing.
open_2_at(a, b, r) ==
    IF Len(a) # Len(b) \/ Len(a) # Size(Len(r)) THEN NoOpening
    ELSE Opening(2, Len(r), Rounds(2, Len(r), a, b, LAMBDA i, e, c : r[i]))
verify_at(O, claim, r) ==
    IF Len(O.claims) # O.nv + 1 \/ Len(r) # O.nv \/ O.claims[1] # claim THEN 0
    ELSE ChainVerdict(O, r)

---------------------------------------------------------------------------
\* whir.hpp.  A digest becomes a scalar by at most eight subtractions.
digest_scalar(dg) == Run(LAMBDA x, t : IF x >= P THEN x - P ELSE x, dg, UpTo(8))
TauOf(C, nv) == Array(K_OOD, LAMBDA j : Array(nv, LAMBDA w : digest_scalar(Sha(<<0, j, w, C>>))))
WeightsOf(oc) == Array(K_OOD, LAMBDA j : digest_scalar(Sha(<<1, j, oc>>)))

\* eq_table: the last coordinate is used first and every later one takes the
\* lowest bit, so coordinate b of tau ends on bit b of the index.
eq_table(tau) ==
    Run(LAMBDA e, i : LET t == tau[Len(tau) + 1 - i]
                           IN  Array(2 * Len(e), LAMBDA k :
                                  (e[(k + 1) \div 2] * (IF k % 2 = 0 THEN t ELSE (1 - t) % P)) % P),
             <<1>>, UpTo(Len(tau)))
ood_eval(f, tau) == Run(LAMBDA g, t : Bind(g, t), f, tau)[1]
eq_point(tau, r) ==
    Run(LAMBDA acc, i : (acc * (((1 - r[i]) * (1 - tau[i]) + r[i] * tau[i]) % P)) % P, 1, UpTo(Len(r)))

wrap_open(f) ==
    LET nv   == Log(Len(f))
        C    == commit(f)
        T1   == open_1(f)
        tau  == TauOf(C, nv)
        ood  == Array(K_OOD, LAMBDA j : ood_eval(f, tau[j]))
        oc   == Hash(SC, ood)
        w    == WeightsOf(oc)
        eqs  == Array(K_OOD, LAMBDA j : eq_table(tau[j]))
        wbar == Array(Len(f), LAMBDA i : SumUp([j \in 1 .. K_OOD |-> w[j] * eqs[j][i]]))
        C2   == commit(f \o wbar)
    IN  [C |-> C, ood_commit |-> oc, C2 |-> C2, v |-> T1.fa, T1 |-> T1, T2 |-> open_2(f, wbar),
         fb_true |-> Run(LAMBDA g, r : Bind(g, r), wbar, derive_points(C2, nv))[1],
         tau |-> tau, ood |-> ood]

\* wrap_verify: the stage that refuses, zero when none does.
wrap_verify(W, nv) ==
    LET tau == TauOf(W.C, nv)
        w   == WeightsOf(W.ood_commit)
        r2  == derive_points(W.C2, nv)
    IN  IF pcs_verify(W.T1, W.C) # nv THEN 1
        ELSE IF W.v # W.T1.fa THEN 2
        ELSE IF Hash(SC, W.ood) # W.ood_commit THEN 3
        ELSE IF pcs_verify(W.T2, W.C2) # nv THEN 4
        ELSE IF W.T2.fb # SumUp([j \in 1 .. K_OOD |-> w[j] * eq_point(tau[j], r2)]) THEN 5
        ELSE 0

---------------------------------------------------------------------------
\* The wire form: a field element or a count is one word, of 32 and 4 bytes.
opening_wire_size(O) == 8 + (O.nv + 1) * 32 + O.nv * 96 + 64
wire_size(W) == 160 + opening_wire_size(W.T1) + opening_wire_size(W.T2) + K_OOD * 32
put_opening(O) == <<O.nv, O.d>> \o O.claims \o FlattenSeq(O.evals) \o <<O.fa, O.fb>>
wire_encode(W) ==
    <<W.C, W.ood_commit, W.C2, W.v, W.fb_true>> \o put_opening(W.T1) \o put_opening(W.T2) \o W.ood

\* Readers run over the words from s.at; one that fails leaves s.ok false.
get_fe(w, s) ==
    IF ~s.ok \/ s.at > Len(w) THEN [s EXCEPT !.ok = FALSE]
    ELSE IF w[s.at] >= P THEN [s EXCEPT !.ok = FALSE]
    ELSE [s EXCEPT !.at = @ + 1, !.got = Append(@, w[s.at])]
get_fes(w, s, n) == Run(LAMBDA q, i : get_fe(w, q), [s EXCEPT !.got = <<>>], UpTo(n))
get_opening(w, s) ==
    IF ~s.ok \/ s.at + 1 > Len(w) THEN [s |-> [s EXCEPT !.ok = FALSE], O |-> NoOpening]
    ELSE LET nv == w[s.at]
             q  == get_fes(w, [s EXCEPT !.at = @ + 2], (nv + 1) + 3 * nv + 2)
             g  == q.got
         IN  [s |-> q,
              O |-> IF ~q.ok THEN NoOpening
                    ELSE [nv |-> nv, d |-> w[s.at + 1], claims |-> SubSeq(g, 1, nv + 1),
                          evals |-> [i \in 1 .. nv |-> SubSeq(g, nv + 3 * i - 1, nv + 3 * i + 1)],
                          fa |-> g[4 * nv + 2], fb |-> g[4 * nv + 3]]]

\* wire_decode: exact length, canonical elements, tau recomputed from C.
wire_decode(w) ==
    LET h == get_fes(w, [ok |-> TRUE, at |-> 1, got |-> <<>>], 5)
        a == get_opening(w, h)
        b == get_opening(w, a.s)
        o == get_fes(w, b.s, K_OOD)
    IN  IF ~o.ok \/ o.at # Len(w) + 1 THEN [ok |-> FALSE]
        ELSE [ok |-> TRUE,
              W  |-> [C |-> h.got[1], ood_commit |-> h.got[2], C2 |-> h.got[3], v |-> h.got[4],
                      fb_true |-> h.got[5], T1 |-> a.O, T2 |-> b.O,
                      tau |-> TauOf(h.got[1], a.O.nv), ood |-> o.got]]
---------------------------------------------------------------------------
\* Transcripts at the point r with one value altered, of those that weigh: for
\* a sum the third value of a round and fb are not read; for a product the
\* third value counts for nothing at 0 and 1, and a factor for nothing when the
\* other is zero.
Altered(O, r, bump(_)) ==
    {[O EXCEPT !.claims[i] = bump(@)] : i \in 1 .. O.nv + 1}
    \cup {[O EXCEPT !.evals[i][k] = bump(@)] : i \in 1 .. O.nv, k \in 1 .. 2}
    \cup {[O EXCEPT !.evals[i][3] = bump(@)] : i \in {j \in 1 .. O.nv : O.d = 2 /\ r[j] \notin {0, 1}}}
    \cup (IF O.d = 1 \/ O.fb # 0 THEN {[O EXCEPT !.fa = bump(@)]} ELSE {})
    \cup (IF O.d = 2 /\ O.fa # 0 THEN {[O EXCEPT !.fb = bump(@)]} ELSE {})

\* A transcript is refused for another claim than its own.
ClaimRefused(T, claim) == claim # T.claims[1] => verify(T, claim) # T.nv

\* An honest transcript is accepted, and its final values are those of the
\* multilinear extensions at its point; with rounds to check, one altered in a
\* claim, a challenge, a round's value or a final value is refused, and so is
\* another claim; with none, one altered in a final value is.
SumcheckExact(nv, a, b, c) ==
    LET T == IF b = <<>> THEN prove_1(nv, a) ELSE prove_2(nv, a, b)
        bump(x) == (x + c) % P
        final == {U \in Altered(T, T.r, bump) : U.claims = T.claims /\ U.evals = T.evals}
    IN  /\ verify(T, IF b = <<>> THEN SumUp(a) ELSE Dot(a, b)) = nv
        /\ T.fa = direct_eval(a, T.r)
        /\ b # <<>> => T.fb = direct_eval(b, T.r)
        /\ \A U \in final : verify(U, T.claims[1]) = nv + 1
        /\ nv > 0 => /\ \A U \in Altered(T, T.r, bump) : verify(U, T.claims[1]) # nv
                     /\ \A i \in 1 .. nv : verify([T EXCEPT !.r[i] = bump(@)], T.claims[1]) = i - 1
                     /\ ClaimRefused(T, bump(T.claims[1]))
        /\ b # <<>> => verify_at(open_2_at(a, b, T.r), T.claims[1], T.r) = nv

\* A wrapped opening survives the wire and is accepted; with one value altered
\* it is refused at the stage that reads the value (fb_true is read by none),
\* and so is any change of the length or of an element past the modulus.
WrapExact(f, c) ==
    LET nv == Log(Len(f))
        W  == wrap_open(f)
        w  == wire_encode(W)
        bump(x) == (x + c) % P
    IN  /\ wrap_verify(W, nv) = 0
        /\ W.fb_true = W.T2.fb /\ W.v = direct_eval(f, derive_points(W.C, nv))
        /\ \A j \in 1 .. K_OOD : W.ood[j] = Dot(f, eq_table(W.tau[j]))
        /\ wire_decode(w) = [ok |-> TRUE, W |-> W]
        /\ wire_size(W) = 32 * (Len(w) - 4) + 16
        /\ ~wire_decode(Front(w)).ok /\ ~wire_decode(Append(w, 0)).ok
        /\ ~wire_decode([w EXCEPT ![1] = @ + P]).ok
        /\ \A O \in Altered(W.T1, derive_points(W.C, nv), bump) : wrap_verify([W EXCEPT !.T1 = O], nv) = 1
        /\ wrap_verify([W EXCEPT !.v = bump(@)], nv) = 2
        /\ wrap_verify([W EXCEPT !.ood_commit = bump(@)], nv) = 3
        /\ \A j \in 1 .. K_OOD : wrap_verify([W EXCEPT !.ood[j] = bump(@)], nv) = 3
        /\ \A O \in Altered(W.T2, derive_points(W.C2, nv), bump) : wrap_verify([W EXCEPT !.T2 = O], nv) \in {4, 5}
        /\ wrap_verify([W EXCEPT !.C = bump(@)], nv) # 0
        /\ wrap_verify([W EXCEPT !.C2 = bump(@)], nv) # 0
=============================================================================
