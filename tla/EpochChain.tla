---------------------------- MODULE EpochChain -----------------------------
(***************************************************************************)
(* The epoch as the node computes it (tools/epoch_node.cpp): the digest    *)
(* chain, the fold of every decree entry into the accumulator and its      *)
(* commitment, the proof and the work of a full epoch, and the header that *)
(* carries them to a receiver.  A node is a record of the globals that a   *)
(* fold reads and writes; EpochFold has the control around it.             *)
(***************************************************************************)
EXTENDS Circuits, Gemm

CONSTANTS
    K,          \* g_k_entries, entries of an epoch
    INNER,      \* pouw_inner, the size of the epoch's product
    Word,       \* a limb of the header's digests is below this
    DROOT       \* g_epoch_droot

LEGACY == 52    \* bytes of a header without the commitment
FULL   == 916   \* and with it

\* Terms of an entry: a pure function of its epoch and number.
entry_terms(epoch, idx) ==
    LET h == Sha(<<8, epoch, idx>>)
        odd(x) == IF x % 2 = 0 THEN x + 1 ELSE x
    IN  [amount |-> (h % Word) * Word + odd(h \div Word), fee |-> 5 + (h % 7), nonce |-> idx + 1]
entry_pt(t) == poseidon3("PT", t.amount % P, (t.fee * Word + t.nonce) % P)
chain_step(dprev, pt) == poseidon3("FOLD", dprev, pt)

\* A payload that is not canonical reads as zero, and is used.
fe_from_payload(x) == IF x < P THEN x ELSE 0

build_witness_fe(dprev, dnew, pt) ==
    LET set == [DPREV |-> dprev, DNEW |-> dnew, PTHASH |-> pt, COMPUTED |-> pt, NONCES |-> 7, NONCEPT |-> 8,
                LT |-> 1, PC |-> 1, SELEXEC |-> 1, NOTPAD |-> 1, H |-> 1, ONE |-> 1]
    IN  Array(Len(FexecWires), LAMBDA i :
          IF FexecWires[i] \in DOMAIN set THEN set[FexecWires[i]] ELSE 0)
build_witness(dprev, dnew) == build_witness_fe(dprev, dnew, dprev)

---------------------------------------------------------------------------
\* nivc.hpp: the accumulator digest of an epoch.
fold_head(prev, droot) == [digest |-> poseidon3("FOLD", prev, droot), count |-> 0, pc |-> 1]
fold_close(acc) == [acc EXCEPT !.digest = poseidon3("FOLD", acc.digest, acc.count % P), !.pc = 2]

NoHeader == [epoch |-> -1]
genesis(d0) ==
    LET pt == entry_pt(entry_terms(0, 0))
        d1 == chain_step(d0, pt)
        z  == build_witness_fe(d0, d1, pt)
    IN  [epoch |-> 0, chain |-> <<d0, d1>>, seq |-> 1, decrees |-> 0, live |-> fresh(z, 8),
         cw |-> init_live(z, 0), acc |-> fold_head(d0, DROOT), hash |-> <<0, 0>>, weight |-> 0,
         sent |-> NoHeader]

---------------------------------------------------------------------------
\* The epoch's work: a product expanded from the tip of the chain.
Expand(tip, n) == Array(n, LAMBDA i : Sha(<<7, tip, i>>) % P)
weight(inner, proofs) == inner * inner * inner * proofs
EpochWork(tip) ==
    LET AB == Expand(tip, 2 * INNER * INNER)
        A  == SubSeq(AB, 1, INNER * INNER)
        B  == SubSeq(AB, INNER * INNER + 1, 2 * INNER * INNER)
        M  == gemm(A, B, INNER)
    IN  verify_gemm_v2(prove_gemm_v2(A, B, M, INNER, INNER, INNER), A, B, M)
run_epoch_pouw(tip) == IF EpochWork(tip) THEN weight(INNER, 1) ELSE 0
verify_peer_epoch_pouw(tip, claimed) == EpochWork(tip) /\ weight(INNER, 1) = claimed

\* The low half of each limb of a digest.
Halves(x) == Array(2, LAMBDA k : (x \div Word ^ (k - 1)) % (Word \div 2))

\* The instance as the wrap proves it.
Evals(R) ==
    LET e == R.z \o R.E \o <<R.u>> IN e \o Zeros(NextPower(Len(e)) - Len(e))

\* gossip_epoch_header: nothing is sent when the commitment does not compress.
gossip_epoch_header(node, pi) ==
    LET W == compress_v(node.cw.W)
        h == Halves(pi.v)
        hdr == [len |-> FULL, epoch |-> node.epoch, digest |-> Halves(node.acc.digest), size |-> wire_size(pi),
                inner |-> INNER, weight |-> node.weight, hash |-> h, W |-> W, rho |-> node.cw.rho,
                z |-> node.live.z, E |-> node.live.E, u |-> node.live.u]
    IN  [node EXCEPT !.hash = h, !.sent = IF W.ok THEN hdr ELSE NoHeader]

\* The end of handle_decree when the epoch is full: proof, close, work,
\* header, and the next epoch opened on the closed digest.
CompleteEpoch(node) ==
    LET pi == wrap_open(Evals(node.live))
        closed == [node EXCEPT !.acc = fold_close(@), !.weight = run_epoch_pouw(Last(node.chain))]
        told == gossip_epoch_header(closed, pi)
    IN  [told EXCEPT !.acc = fold_head(closed.acc.digest, DROOT), !.seq = 0, !.epoch = @ + 1, !.decrees = 0]

\* handle_decree from the payload on.  An unsatisfied instance or a rejected
\* label undoes the chain; a failed self-check leaves the fold in place.
handle_decree(node, payload) ==
    LET dnew == fe_from_payload(payload)
        pt   == entry_pt(entry_terms(node.epoch, node.seq))
        J    == fresh(build_witness_fe(Last(node.chain), dnew, pt), 8)
        M    == build_matrices
        rho  == rho_label(node.epoch, node.seq, dnew)
        fold == multifold_v2(M.A, M.B, M.C, node.live, <<J>>)
        next == [node EXCEPT !.chain = Append(@, dnew), !.seq = @ + 1, !.live = fold.folded,
                             !.cw = advance(@, commit_z(J.z, rho.v), rho.v, fold.r[1])]
        kept == [next EXCEPT !.decrees = @ + 1, !.acc.digest = poseidon3("FOLD", @, pt), !.acc.count = @ + 1]
    IN  IF sat_relaxed(M.A, M.B, M.C, J) # 8 \/ ~rho.ok THEN node
        ELSE IF ~self_check(next.live.z, next.cw.rho, next.cw.W) THEN next
        ELSE IF kept.decrees >= K THEN CompleteEpoch(kept) ELSE kept

\* The receiver of a header's bytes, of which len came.  The binding alone,
\* and only of a full header, decides whether it is passed on (EpochFold drops
\* the repeated ones); weight, state and work are reported of any header with
\* the legacy fields.
receive_header(node, h) ==
    LET W == decompress_v(h.W.x, h.W.odd)
        bound == /\ W.ok /\ \A i \in DOMAIN h.z : h.z[i] < P
                 /\ verify_recommit(h.z, h.rho % P, W.p)
        state == h.len >= LEGACY /\ h.epoch = node.epoch - 1 /\ h.hash = node.hash
    IN  [passed |-> h.len >= FULL => bound,
         weight |-> IF h.len < LEGACY THEN "NONE" ELSE IF h.inner # INNER THEN "PARAM"
                    ELSE IF h.weight = node.weight THEN "AGREE" ELSE "MISMATCH",
         state  |-> state,
         work   |-> state /\ verify_peer_epoch_pouw(Last(node.chain), h.weight)]
---------------------------------------------------------------------------
\* A node that folds the payloads, with its states on the way.
Folded(d0, payloads) ==
    Run(LAMBDA ns, x : Append(ns, handle_decree(Last(ns), x)), <<genesis(d0)>>, payloads)

\* The header of a completed epoch is passed on with no other error vector or
\* scalar than the accumulator's.
ErrorBound(d0, payloads) ==
    LET n == Last(Folded(d0, payloads))
        bump(x) == (x + 1) % P
    IN  n.decrees = 0 /\ n.sent # NoHeader =>
          /\ ~receive_header(n, [n.sent EXCEPT !.E[1] = bump(@)]).passed
          /\ ~receive_header(n, [n.sent EXCEPT !.u = bump(@)]).passed

\* Two nodes that fold the same payloads of an epoch: every fold keeps the
\* accumulator satisfied and opened by its commitment, the header of one is
\* passed on and confirmed at the other, also once that one has folded an entry
\* of the next epoch, and its digest is the closed one.  A full header with
\* another W, z or blinding is not passed on; a legacy one is confirmed
\* likewise, a shorter one passed on with nothing looked at; another weight,
\* hash or epoch is not confirmed.
HeaderExact(d0, payloads, i) ==
    LET M == build_matrices
        N == Folded(d0, payloads)
        n == Last(N)
        h == n.sent
        ok == [passed |-> TRUE, weight |-> "AGREE", state |-> TRUE, work |-> TRUE]
        bump(x) == (x + 1) % P
        infinite == \E k \in DOMAIN N : N[k].cw.W.z = 0
        after == handle_decree(n, 5)
    IN  infinite \/ vesta_base(i).z = 0 \/
        /\ \A k \in DOMAIN N : /\ sat_relaxed(M.A, M.B, M.C, N[k].live) = 8
                               /\ self_check(N[k].live.z, N[k].cw.rho, N[k].cw.W)
                               /\ Len(N[k].chain) = k + 1
        /\ n.epoch = Len(payloads) \div K
        /\ n.decrees = 0 =>
             /\ wrap_verify(wrap_open(Evals(n.live)), Log(Len(Evals(n.live)))) = 0
             /\ n.acc = fold_head(fold_close([N[Len(N) - 1].acc EXCEPT
                          !.digest = poseidon3("FOLD", @, entry_pt(entry_terms(n.epoch - 1, N[Len(N) - 1].seq))),
                          !.count = @ + 1]).digest, DROOT)
             /\ receive_header(n, h) = ok
             /\ receive_header([n EXCEPT !.chain = Append(@, 9)], h) = ok
             /\ after.epoch = n.epoch => receive_header(after, h) = ok
             /\ ~receive_header(n, [h EXCEPT !.z[i] = bump(@)]).passed
             /\ ~receive_header(n, [h EXCEPT !.z[i] = @ + P]).passed
             /\ ~receive_header(n, [h EXCEPT !.rho = bump(@)]).passed
             /\ ~receive_header(n, [h EXCEPT !.W.odd = 1 - @]).passed
             /\ receive_header(n, [h EXCEPT !.rho = @ + P]) = ok
             /\ receive_header(n, [h EXCEPT !.len = LEGACY]) = ok
             /\ receive_header(n, [h EXCEPT !.len = LEGACY - 1]) =
                  [ok EXCEPT !.weight = "NONE", !.state = FALSE, !.work = FALSE]
             /\ ~receive_header(n, [h EXCEPT !.weight = @ + 1]).work
             /\ ~receive_header(n, [h EXCEPT !.hash[1] = (@ + 1) % (Word \div 2)]).state
             /\ ~receive_header(n, [h EXCEPT !.epoch = @ + 1]).state
=============================================================================
