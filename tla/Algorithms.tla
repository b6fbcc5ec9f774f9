----------------------------- MODULE Algorithms ----------------------------
(***************************************************************************)
(* The algorithms on small parameters: proof systems, threshold            *)
(* cryptography, wire formats and the sampling automaton.  A behaviour     *)
(* picks one case of one kind, and the property of that kind compares the  *)
(* modelled code with its reference.                                       *)
(* Two-limb fields of word size 8 modulo 29; Pallas and Vesta are the      *)
(* curves y^2 = x^3 + 5 modulo 79 and modulo 97, the latter of order 79;   *)
(* the pairing curves have order 13 over the field of 37 elements.         *)
(***************************************************************************)
EXTENDS Integers, Sequences, SequencesExt

VARIABLE pick       \* the case under check

Mds   == <<<<2, 3, 5>>, <<7, 11, 13>>, <<17, 19, 29>>>>
Const(m, a, b) == SubSeq([i \in 1 .. 8 |-> (a * i * i + b * i + 5) % m], 1, 8)
Field(m, rc) == [m |-> m, mds |-> Mds, rc |-> rc, half |-> 1, partial |-> 2,
                 iv |-> [SUMCHECK |-> 31, FOLD |-> 44, PT |-> 23, POUW |-> 9, SHARD |-> 55, CYCLEFOLD |-> 31]]
Pallas == Field(79, Const(79, 7, 3))
Vesta  == Field(97, Const(97, 5, 9))
Large  == Field(26737, Const(79, 7, 3))     \* a field with room for fixed point

Mix(s) == FoldLeft(LAMBDA h, x : (h * 37 + x * 17 + 7) % 251, 3, s)
Draws(s) == LET h == FoldLeft(LAMBDA a, p : (a * 7 + p.x[1] + 3 * p.x[2] + 5 * p.y[1] + 2 * p.y[2] + p.z[1]) % 16, 1, s)
            IN  [i \in 1 .. 8 |-> 1 + ((h + 5 * i) % 15)]
Fill(i, b) == (i * 1234 + Len(b) * 77 + (IF b = <<>> THEN 5 ELSE b[1] * 311) + 99) % 8000
\* A decreasing stand-in for the exponential table: halved every 22 slots.
Exps == LET f(k) == (128 - (64 * (k % 22)) \div 22) \div 2 ^ (k \div 22)
        IN  SubSeq([i \in 1 .. 256 |-> f(257 - i)], 1, 256)
G1 == [x |-> 24, y |-> 29, z |-> 1]
G2 == [x |-> <<8, 4>>, y |-> <<16, 11>>, z |-> <<1, 0>>]

\* Stand-ins for the digests of byte strings and of draws.
Squeeze(h, b) == FoldLeft(LAMBDA a, x : (a * 31 + x * 7919 + 13) % 65521, h, b)
Stir(s) == FoldLeft(LAMBDA h, x : (h * 37 + x * 1717 + 7) % 50021, 3, s)
Sealed(d, r) == (d + 3 * r) % 101
LinkOf(p, d) == (31 * p + 17 * d + 5) % 251

F == INSTANCE Limbs WITH Word <- 8, Limbs <- 2, P <- 29
T == INSTANCE Envelopes WITH Q <- 37, R <- 13, B1 <- 4, H1 <- 3, LimbBits <- 2, Beta <- 5,
       Gamma <- <<5, 1>>, B2 <- <<20, 4>>, G1gen <- G1, G2gen <- G2,
       FinalExp <- <<16, 145, 207, 91, 196, 6, 7, 7>>, Hash <- Draws,
       Byte <- 4, DigestLen <- 8, CoordLimbs <- 2, Block <- 16, MAX_PAYLOAD <- 12, MAX_PEERS <- 2,
       Compress <- Squeeze, PallasP <- 18731, Link <- LinkOf
C == INSTANCE EpochChain WITH Fp <- Pallas, Fq <- Vesta, Sha <- Mix, K_OOD <- 2, NCOLS <- 8,
       PallasOrder <- 93, SLOTS <- 4, Q <- 37, B1 <- 4, H1 <- 3, LimbBits <- 2, Mersenne <- 8191, Word64 <- 64,
       Contract <- 32, ExpTable <- Exps, InputMax <- 32, VarianceMax <- 30000, Digest <- Fill,
       K <- 2, INNER <- 2, Word <- 16, DROOT <- 7
L == INSTANCE Gemm WITH Fp <- Large, Fq <- Vesta, Sha <- Mix, K_OOD <- 2, NCOLS <- 8,
       PallasOrder <- 93, Q <- 37, B1 <- 4, H1 <- 3, LimbBits <- 2, Mersenne <- 8191, Word64 <- 13312,
       Contract <- 12288, ExpTable <- Exps, InputMax <- 512, VarianceMax <- 30000, Digest <- Fill
S == INSTANCE Sampling WITH K_BASE <- 4, K_ESCALATED <- 5, K_ESC_AT_ROUND <- 4, PHI_FLOOR_BP <- 5000,
       ALPHA_BP <- 7500, BETA_CONFIRMATIONS <- 3, STALL_LIMIT <- 2, GRACE_MS <- 50, BP <- 10000,
       DRAW_ATTEMPT_CAP <- 24, Word <- Stir, EMA_SCALE <- 1000, EMA_LAM_N <- 971, TH_CORE <- 800,
       TH_GRAY <- 600, MinBond <- 5, Lag <- 2, Unbonding <- 3, ClusterCap <- 10, MaxAdversarial <- 2000

A == INSTANCE Transfer WITH BalMax <- 7, U128 <- 16, NonceMod <- 4
X == INSTANCE Explorer WITH RATE_LIMIT_PER_MIN <- 3, WINDOW <- 6, FLEET_N <- 1, DIRECT_N <- 2, INGEST_CAP <- 12,
       Gpu <- FALSE, FoldBand <- TRUE, FIELD <- 79, Founder <- "founder", sha256 <- Mix, weight_digest <- Mix,
       commit <- Sealed

---------------------------------------------------------------------------
\* Cases.
Vec(k, n, m) == SubSeq([i \in 1 .. k |-> (3 * n * i * i + n * n * i + 5) % m], 1, k)
VoteOf(n) == [epoch |-> n, root |-> Vec(8, n, 4), conflict |-> Vec(8, n + 1, 4),
              pref |-> Vec(8, n + 2, 4), round |-> 3 * n]
\* Thirteen events at the explorer: requests, whole or cut, of three keys (one
\* unknown, one issued on the way), the worker and restarts.
Submission(x) ==
    LET n  == (x \div 3) % 4
        k  == X!Clamp(n)
        in == Vec(k * k, x, IF x % 23 = 0 THEN 90 ELSE 79)
        id == x % 3
        r  == (34 * (Sealed(Mix(X!DevWeights(id)), id * 31 + 7) - Mix(in \o in))) % 101
        f(name, v) == [name |-> name, value |-> v]
        model == <<f("model_id", id), f("model_r", IF x % 7 = 0 THEN r + 1 ELSE r)>>
    IN  <<f("n", n)>> \o (IF x % 4 = 0 THEN <<>> ELSE <<f("a", in), f("b", in)>>) \o (IF x % 5 < 2 THEN <<>> ELSE model)
Request(x, at) ==
    LET body == Submission(x)
        whole == 3 + 2 * Len(body)
        path == <<"/submit_gemm", "/submit_gemm", "/submit_gemm", "/api_key", "/register_model",
                  "/claim_inputs", "/result", "/models", "/fleet">>[1 + (x % 9)]
    IN  [op |-> "request", at |-> at, path |-> path, fresh |-> "issued", id |-> 1 + (x % 2), verdict |-> x % 3 # 0,
         method |-> IF path \in {"/submit_gemm", "/register_model"} THEN "POST" ELSE "GET",
         auth |-> <<"founder", "founder", "issued", "unknown">>[1 + ((x \div 9) % 4)],
         body |-> body, length |-> 2 * Len(body),
         chunks |-> IF x % 17 = 0 THEN <<x % 4, 0, 20>> ELSE IF x % 10 = 1 THEN <<2, x % whole>> ELSE <<2, whole - 2>>]
Events(n, Of(_, _)) == SubSeq([i \in 1 .. 13 |-> Of((n * n * 7 + n * i * 5 + i * i * 11) % 1009, i + (n % 3) * (i \div 5))], 1, 13)
Requests(n) == Events(n, LAMBDA x, at : IF x % 29 = 4 THEN [op |-> "restart", at |-> at]
                                        ELSE IF x % 7 < 2 THEN [op |-> "work", verdict |-> x % 3 # 0, at |-> at]
                                        ELSE Request(x, at))
Posts(n) == Events(n, Request)
\* A key issued, then posts of two keys, one after the other.
Bursts(n) == Events(n, LAMBDA x, at :
                         [Request(x, at) EXCEPT !.method = IF at = 1 THEN "GET" ELSE "POST",
                                                !.path = IF at = 1 THEN "/api_key" ELSE "/register_model",
                                                !.auth = IF x % 4 = 0 THEN "issued" ELSE "founder",
                                                !.chunks = <<20>>])
\* Connections, messages and hang-ups at a validator.
Arrival(x, at) ==
    LET list == T!build_peer_list(<<[ip |-> x % 200, port |-> x % 9]>>)
        m == IF x % 3 = 0 THEN [type |-> T!PING, payload |-> <<>>]
             ELSE [type |-> T!PEER_LIST, payload |-> IF x % 3 = 1 THEN list ELSE SubSeq(list, 5, 10)]
    IN  [op |-> <<"accept", "ready", "ready", "ready", "ping">>[1 + (x % 5)],
         fd |-> IF x % 5 = 0 THEN 20 + at ELSE 20 + (at \div 2),
         pieces |-> IF x % 11 = 0 THEN <<>> ELSE T!send_message(m, 5)]
Init == pick = [kind |-> "none"]
Pick(c) == pick.kind = "none" /\ pick' = c

PickField   == \E x, y \in 0 .. 28 : Pick([kind |-> "field", x |-> x, y |-> y])
PickGroup   == \E i, j \in {0, 1, 2, 13, 26, 39, 40, 77, 78}, z \in {1, 5} : Pick([kind |-> "group", i |-> i, j |-> j, z |-> z])
PickPairing == \E s, c \in {1, 2, 4, 6, 12}, k \in {1, 2, 7} : Pick([kind |-> "pairing", s |-> s, c |-> c, k |-> k])
PickShares  == \E xs \in {<<1, 2>>, <<3, 1>>, <<2, 3, 1>>, <<2>>, <<3, 3>>}, a \in {0, 5, 12}, e \in {0, 4} :
                 Pick([kind |-> "shares", xs |-> xs, c |-> <<a, 7>>, e |-> e])
PickProof   == \E n \in 1 .. 24 : Pick([kind |-> "proof", n |-> n])
PickFold    == \E n \in 1 .. 16 : Pick([kind |-> "fold", n |-> n])
PickCircuit == \E n \in 1 .. 16 : Pick([kind |-> "circuit", n |-> n])
PickWork    == \E n \in 1 .. 12 : Pick([kind |-> "work", n |-> n])
PickKernel  == \E n \in 1 .. 30 : Pick([kind |-> "kernel", n |-> n])
PickChain   == \E n \in 1 .. 8, k \in 2 .. 4 : Pick([kind |-> "chain", n |-> n, k |-> k])
PickSealed  == \E n \in 1 .. 6, xs \in {<<1, 2>>, <<3, 1>>, <<2>>}, e \in {0, 4} :
                 Pick([kind |-> "sealed", n |-> n, xs |-> xs, e |-> e])
PickSigned  == \E n \in 1 .. 6 : Pick([kind |-> "signed", n |-> n])
PickWire    == \E n \in 1 .. 30 : Pick([kind |-> "wire", n |-> n])
PickServe   == \E n \in 1 .. 120 : Pick([kind |-> "serve", n |-> n])
PickSample  == \E n \in 1 .. 70 : Pick([kind |-> "sample", n |-> n])
Done        == pick.kind # "none" /\ UNCHANGED pick

Next == \/ PickField \/ PickGroup \/ PickPairing \/ PickShares \/ PickProof \/ PickFold
        \/ PickCircuit \/ PickWork \/ PickKernel \/ PickChain \/ PickSealed
        \/ PickSigned \/ PickWire \/ PickServe \/ PickSample \/ Done
Spec == Init /\ [][Next]_pick

---------------------------------------------------------------------------
\* The laws of a case, by kind; each property says that every case picked
\* obeys them.
Arithmetic(it) ==
    /\ it.kind = "field" => F!FieldExact(it.x, it.y)
    /\ it.kind = "group" =>
      LET p(k) == C!VAffine(C!Vmult(C!VGen, k))
          b(k) == T!AffineQ(T!Pmul(G1, k % 13))
      IN  /\ C!GroupLaw(97, p(it.i), p(it.j), it.z, 3)
          /\ C!MultipleLaw(97, p(it.i), it.j)
          /\ C!GroupLawBls(b(it.i), b(it.j), it.z, 3)
          /\ C!MultipleLawBls(b(it.i), it.j)
          /\ C!HashLaw(<<it.i % 37, it.j % 37, 11, 24>>, 13)

\* Montgomery arithmetic on limbs is arithmetic modulo the prime, in all four
\* implementations (fe.hpp, fev.hpp, scalar_r.hpp, mont384.hpp); Jacobian sums
\* and windowed multiples are the affine group law's whatever triples
\* represent the points, and compressed points read back
\* (g1p.hpp, g2v.hpp, threshold/g1.hpp, pcompress.hpp, h2g1.hpp).
ArithmeticExact == [][Arithmetic(pick')]_pick

Shares(it) ==
    /\ it.kind = "pairing" => T!VerifiesOnly(it.s, it.k, it.c)
    /\ it.kind = "shares" =>
         /\ T!Recovers(3, 2, it.c, it.xs, it.e, 5)
         /\ T!SignsAlike(3, 2, it.c, it.xs, 6)
         /\ \A s \in 0 .. 12 : T!SharesBind(3, 2, it.c, it.xs[1], s)
         /\ T!CommitteeExact(it.c[1], 3 + Len(it.xs), 2 + (it.e \div 4), Vec(8, it.c[1], 4),
                             <<[id |-> 9, weight |-> it.e], [id |-> 2, weight |-> 40], [id |-> 5, weight |-> 1]>>)

\* A signature verifies exactly under the secret that made it (pairing.hpp,
\* sig.hpp).  Any T distinct members recover the key's work and sign alike,
\* fewer or repeated ones do not, a wrong share is refused and blamed, and the
\* committee of an epoch is the one its seed determines
\* (threshold/dkg_vss.hpp, m2.hpp, beacon.hpp, epoch_node.cpp rotate_dkg).
ThresholdShares == [][Shares(pick')]_pick

Proofs(it) ==
    it.kind = "proof" =>
      LET n  == it.n
          nv == n % 4
          a  == Vec(2 ^ nv, n, 79)
          b  == Vec(2 ^ nv, n + 1, 79)
      IN  /\ C!SumcheckExact(nv, a, <<>>, 1 + (n % 5))
          /\ C!SumcheckExact(nv, a, b, 1 + (n % 5))
          /\ nv > 0 => C!WrapExact(a, 1 + (n % 5))

\* Sum-check transcripts, openings and wraps of honest provers are accepted
\* and agree with direct evaluation; one in which a single value that the
\* verifier reads is altered is refused (sumcheck.hpp, pcs.hpp, whir.hpp).
ProofsExact == [][Proofs(pick')]_pick

Folds(it) ==
    /\ it.kind = "chain" => C!HeaderExact(it.n, Vec(it.k, it.n, 85), 1 + (it.n % 16))
    /\ it.kind = "fold" =>
      LET n == it.n
          G == C!MatricesOf(C!build_gemm(C!System(<<1>>), 1, 1, 2).S)
          w(k) == LET v == Vec(4, k, 79)
                      p == (v[1] * v[3]) % 79
                      q == (v[2] * v[4]) % 79
                  IN  <<1>> \o v \o <<(p + q) % 79, p, q>>
          zs == <<w(n), w(n + 1), w(n + 2)>>
      IN  /\ C!FoldExact(G.A, G.B, G.C, zs)
          /\ C!CommitExact(G.A, G.B, G.C, zs, n)
          /\ C!NifsExact(Vec(4, n, 79), Vec(4, n + 1, 79), Vec(4, n + 2, 79), {1, 3, 4})

\* Folding keeps satisfaction and the folded commitment opens to the folded
\* witness (nifs.hpp, mfold.hpp, cfold.hpp, cfold_live.hpp, pedersen.hpp), and
\* the header of a completed epoch is confirmed by a node of the same chain, and
\* not passed on with another commitment, witness or blinding
\* (epoch_node.cpp handle_decree, EPOCH_HEADER).
FoldsExact == [][Folds(pick')]_pick

Circuit(it) ==
    it.kind = "circuit" =>
      LET n  == it.n
          d  == n % 3
          z  == [i \in 1 .. 16 |->
                   IF i = C!Z("PC") THEN d ELSE IF i = C!Z("H") THEN d * d
                   ELSE IF i = C!Z("ISPAD") THEN n % 2 ELSE IF i = C!Z("NOTPAD") THEN 1 - (n % 2)
                   ELSE IF i \in {C!Z("ONE"), C!Z("U"), C!Z("LT")} THEN 1
                   ELSE IF i = C!Z("SELF") THEN 0
                   ELSE IF i = C!Z("NONCES") THEN n ELSE IF i = C!Z("NONCEPT") THEN n + 1
                   ELSE IF i \in {C!Z("COMPUTED"), C!Z("PTHASH")} THEN n + 7 ELSE 40]
          account(k) == [mag |-> k % 8, sign |-> k % 8 = 1, nonce |-> k % 4, flags |-> 0, absent |-> FALSE]
      IN  /\ \A amount \in {0, 3, 7, 13}, fee \in {0, 2, 5}, s \in {"EXEC", "SKIP_USER", "PAD"} :
               LET tx == [amount |-> amount, fee |-> fee, nonce |-> (n + 1 + (fee \div 5)) % 4]
               IN  A!ConstraintsExact([tx |-> tx, status |-> s, pt_hash |-> A!pt_hash_of([tx EXCEPT !.nonce = (n + 1) % 4])],
                                      account(n), account(n + 3))
          /\ C!PoseidonCircuit(n, n + 1, 2 * n, 3 * n)
          /\ C!OpeningCircuit(n + 3, SubSeq(<<n + 7, n + 14>>, 1, d), SubSeq(<<n % 2, (n \div 2) % 2>>, 1, d), 31, 1 + (n % 5))
          /\ C!satisfied(C!build_matrices, z)
          /\ \A i \in 1 .. 16 : C!TransitionCircuit([z EXCEPT ![i] = (@ + 1) % 79])
          /\ C!ActivationCircuit([i \in 1 .. 4 |-> [idx |-> (n * i + 2) % 16, uv |-> (n + 5 * i) % 11]])
          /\ C!GemmCircuit(Vec(4, n, 79), Vec(6, n + 1, 79), 2, 3, 2, n)

\* The circuits hold for what they encode and for nothing one wire away
\* (poseidon_r1cs.hpp, smt_r1cs.hpp, gkr.hpp, fexec_circuit.hpp, fexec_act.hpp),
\* and the constraints of an entry agree with the money rules (ccs.hpp, tx.hpp).
CircuitsExact == [][Circuit(pick')]_pick

Work(it) ==
    LET n == it.n
        m == 26737
        heads == [q |-> Vec(16, n + 1, 50), k |-> Vec(16, n + 2, 50), v |-> Vec(16, n + 3, 50), o |-> Vec(16, n + 4, 50)]
    IN  /\ it.kind = "work" =>
          /\ C!GemmExact(Vec(4, n, 79), Vec(6, n + 1, 79), 2, 3, 2, 1 + (n % 6), n, n + 3, n + 5)
          /\ C!GemmExact(Vec(6, n, 79), Vec(3, n + 1, 79), 2, 1, 3, 1 + (n % 2), n, n + 3, n + 5)
          /\ L!ShardExact(Vec(16, n, m), Vec(16, n + 1, m), 4, 2, n, 1 + (n % 4), 1 + (n % 16), n)
          /\ L!AttentionExact(Vec(8, n, 50), heads, <<Vec(4, n, 128), Vec(4, n + 1, 128)>>, 2, 4, 2, n)
        /\ it.kind = "kernel" =>
          /\ L!SoftmaxExact(SubSeq([i \in 1 .. 9 |-> (n * i * i * 37 + n * n * i) % 12500], 1, 9), 3, n, n)
          /\ L!SoftmaxExact(SubSeq([i \in 1 .. 4 |-> (n * i * i * 37 + n * n * i * 111) % 12500], 1, 4), 2, n, n)
          /\ \A v \in {n, 37 * n, 1000 + n, 16383, 8000 * n + 17, 65535, 4 ^ (n % 11), 2 * 4 ^ (n % 11)} : L!RsqrtLaw(v)
          /\ L!LayerNormExact(SubSeq([i \in 1 .. 4 |-> (n * i * i * 37 + n * n * i * 111) % 450], 1, 4), n)
          /\ L!ModelBound(<<<<n>>, <<n + 1, 4>>>>, n, 5 * n)

\* A product proof of inner dimension two or more vouches for the product
\* alone, whole, sharded or composed into attention with as many rows as a head
\* has columns (pouw.hpp, block_shard.hpp, attention.hpp), and the integer
\* kernels are the functions they approximate: softmax weights, the inverse
\* square root, layer norm and model commitments (logup.hpp, softmax.hpp,
\* layernorm.hpp, model_commit.hpp).
WorkProven == [][Work(pick')]_pick

Sealing(it) ==
    LET n  == it.n
        c  == <<1 + (n % 12), 7>>
        i  == 1 + (n % 3)
        j  == 1 + ((n + 1) % 3)
        st == [epoch |-> n, oroot |-> Vec(8, n, 4), cth |-> Vec(8, n + 1, 4), D |-> T!g2_mul(G2, n)]
        v  == VoteOf(n)
    IN  /\ it.kind = "sealed" => T!Opens(c, it.xs, it.e, Vec(1 + (n % 11), n, 4), n, 1 + ((n * 5) % 12))
        /\ it.kind = "signed" =>
             /\ T!OrderBinds(<<3, 7>>, <<Vec(3, n, 4), Vec(3, n + 1, 4), Vec(9, n, 4)>>, n, Vec(8, n, 4))
             /\ T!SignsOnly(c, i, j, st, [st EXCEPT !.epoch = n + 5])
             /\ T!SignsOnly(c, i, j, st, [st EXCEPT !.D = T!g2_mul(G2, n + 1)])
             /\ T!BatchSound(c, i, j, v, [v EXCEPT !.round = 1])
             /\ T!CertificateBinds(c, [height |-> n % 2, epoch |-> n, root |-> Vec(8, n, 4), digest |-> 0,
                                       beacon |-> Vec(8, n + 2, 4)], n, 9)

\* An envelope is opened by a quorum and by no one else, and by nothing once a
\* byte of it is changed; the order root depends on the envelopes alone; votes,
\* attestations and certificates vouch for their own statement only
\* (m2.hpp, m2envelope.hpp, mempool.hpp, msscvote.hpp, lightclient.hpp).
EnvelopesOpen == [][Sealing(pick')]_pick

Wiring(it) ==
    /\ it.kind = "serve" => X!ServesExact(Requests(it.n)) /\ X!ServesExact(Bursts(it.n)) /\ X!ApiExact(Posts(it.n))
    /\ it.kind = "wire" =>
      LET n  == it.n
          at(k) == IF n % 5 = 0 THEN <<0, 0>> ELSE Vec(2, n + k, 65536)
          m(k) == [type |-> k % 4, payload |-> Vec(k % 14, k, 4)]
          R  == <<Vec(2, n, 65536), Vec(2, n + 1, 65536), Vec(2, n + 2, 65536), Vec(2, n + 3, 65536)>>
      IN  /\ T!StreamExact(<<m(n), m(n + 5), m(n + 10)>>, 1 + (n % 6))
          /\ T!GossipExact(<<[ip |-> n, port |-> 3]>>, Events(n, Arrival))
          /\ T!VoteExact(VoteOf(n), [inf |-> n % 5 = 0, x |-> at(0), y |-> at(1)], 17 * n)
          /\ T!EnvelopeExact([R |-> R, hdr |-> Vec(32, n, 4), ct |-> Vec(n % 5, n, 4), tag |-> Vec(8, n, 4),
                              cth |-> Vec(8, n + 3, 4)], 91 * n,
                             [i \in 1 .. n % 3 |-> [eix |-> (n * i) % 256, ser |-> Vec(64, n + i, 4)]])
          /\ T!ShaExact(Vec(n, n, 4), n \div 3)

\* Frames, votes, order signatures, envelopes and batches read back however
\* their bytes arrive, and cut short they are refused (p2p.hpp, msscvote.hpp, m2envelope.hpp, mempool.hpp,
\* sha256.hpp); a validator answers and learns within its bounds (node.cpp);
\* and the HTTP servers change only what a request is entitled to, lose no work
\* they accepted, and bind it to its inputs (explorer.hpp, api_server.cpp).
WireExact == [][Wiring(pick')]_pick

Sample(it) ==
    it.kind = "sample" =>
      LET n == it.n
          w == <<<<3, 4, 5, 1, 2>>, <<2, 2, 2, 2, 2, 2>>, <<1, 9, 0, 1, 1>>, <<0, 0, 0>>, <<5>>, <<2, 3, 1>>, <<4, 3, 3, 2, 4>>>>[1 + (n % 7)]
          k == Len(w)
          revoked == IF n % 5 = 0 THEN {2} ELSE {}
          vote(r, v) == [voter |-> v, epoch |-> 1, root |-> 9, conflict |-> 4,
                         round |-> IF (n * r + v) % 9 = 0 THEN r + 1 ELSE r,
                         pref |-> IF n % 4 = 0 THEN 1 ELSE ((n \div r) + v * (n % 3)) % 2]
          pools == SubSeq([r \in 1 .. 7 |-> SubSeq([v \in 1 .. k |-> vote(r, v)], 1, k)], 1, 7)
          op(x) == <<[op |-> "deposit", m |-> 1, n |-> 6], [op |-> "deposit", m |-> 2, n |-> 9],
                     [op |-> "deposit", m |-> 1, n |-> 4], [op |-> "unbond", m |-> 1], [op |-> "slash", m |-> 1],
                     [op |-> "wait"], [op |-> "wait"], [op |-> "unbond", m |-> 2]>>[1 + x]
      IN  /\ S!AutomatonExact([w |-> w, total |-> Last(S!Cum(w)), root |-> 9, self |-> 1], revoked,
                              [conflict |-> 4, pref |-> n % 2, confidence |-> 0, stall |-> 0, rounds |-> 0,
                               state |-> "Active"], pools, n)
          /\ S!BreakerOrderless(n, 2 * n + 1, n * n, n, 5)
          /\ S!TransportExact(<<n % 3, 2, 0, n % 5>>, n, (n * 37) % 1001)
          /\ S!StakeExact(<<op(0), op(1)>> \o SubSeq([i \in 1 .. 7 |-> op((n * n + n * i + i * i * i) % 8)], 1, 1 + (n % 7)))

\* The sampling automaton finalises only what a weighted quorum backed round
\* after round, its breaker does not depend on the order of its inputs, and
\* stake is conserved through deposits, unbonding and slashes
\* (consensus.hpp, g1net.hpp, econ/stake.hpp).
SamplingExact == [][Sample(pick')]_pick

---------------------------------------------------------------------------
\* What the repository's text says of cases in which the code does otherwise.
\* No run lists these: each is refuted when it is added to Algorithms.cfg as
\* an INVARIANT.

\* A transcript is refused for any claim but its own: verify returns "nv ==
\* ACCEPT; 0 = initial-claim failure" (sumcheck.hpp), the same value when
\* there is no round.
ClaimsRefused ==
    pick.kind = "proof" =>
      LET nv == pick.n % 4
          t  == C!prove_1(nv, Vec(2 ^ nv, pick.n, 79))
      IN  C!ClaimRefused(t, (t.claims[1] + 1) % 79)

\* "Faked RESULTS are caught" (pouw.hpp), here for products of a column and a
\* row, whose inner dimension is one.
ProductsBound ==
    pick.kind = "work" =>
      LET n == pick.n
      IN  C!FakedRefused(Vec(2, n, 79), Vec(2, n + 1, 79), 2, 2, 1, 1 + (n % 4), n, n + 3, n + 5)

\* The per-head scores Q_h K_h^T are seq x seq (attention.hpp), and an honest
\* proof of an admitted shape is accepted, here with heads wider than seq.
AttentionOfAnyShape ==
    pick.kind = "work" =>
      LET n == pick.n
          w(k) == Vec(64, n + k, 50)
      IN  L!attn_spec_ok(2, 8, 2) =>
            L!AttentionAccepted(Vec(16, n, 50), [q |-> w(1), k |-> w(2), v |-> w(3), o |-> w(4)],
                                <<Vec(4, n, 128), Vec(4, n + 1, 128)>>, 2, 8, 2)

\* The index of a score in the exponential table is "clamped to [0, 255]"
\* (softmax.hpp), so that a larger score has no smaller weight.
SoftmaxMonotone ==
    pick.kind = "kernel" =>
      LET n == pick.n
      IN  L!Monotone(SubSeq([i \in 1 .. 9 |-> (n * i * i * 37 + n * n * i) % 12500], 1, 9), 3, n, LAMBDA d : FALSE)

\* The verifier's "three public checks (recommit / C-link / W-chain
\* continuity)" ride on the header (epoch_node.cpp), so that one with another
\* error vector or scalar is not passed on.
ErrorsBound == pick.kind = "chain" => C!ErrorBound(pick.n, Vec(pick.k, pick.n, 85))

\* A peer list is "[count(4B)] then [ip(4B) port(2B)]" (p2p.hpp) and is read
\* as it was written.
PeerListsReadBack ==
    pick.kind = "wire" => T!ListReadsBack(<<[ip |-> 7 * pick.n, port |-> pick.n % 16]>>)

\* An announced address is "ip 4B network-order, port 2B LE" (epoch_node.cpp)
\* and is read as it was written.
AnnouncesReadBack ==
    pick.kind = "wire" => T!AnnounceReadsBack([ip |-> 7 * pick.n, port |-> pick.n % 16])

\* "Each key's count resets after 60s" (explorer.hpp check_rate_limit).
CountsReset == pick.kind = "serve" => X!CountResets(Bursts(pick.n))
=============================================================================
