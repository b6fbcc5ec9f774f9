----------------------------- MODULE Envelopes -----------------------------
(***************************************************************************)
(* Statements in bytes and what is done with them: envelopes sealed to the *)
(* committee and opened by its shares (threshold/m2.hpp, m2envelope.hpp),  *)
(* the order that the beacon gives them (mempool.hpp, epoch.hpp),          *)
(* attestations and user signatures (m2.hpp, m2prod.hpp), votes and their  *)
(* aggregates (msscvote.hpp), and the light client's certificates          *)
(* (lightclient.hpp).  Hashes are Wire's sha256 of real byte strings.      *)
(***************************************************************************)
EXTENDS Sharing, Wire, Bitwise

CONSTANTS
    PallasP,            \* the field a root is reduced to
    Link(_, _)          \* the fold chain's link: previous digest, decree root

TAG == [H2G1 |-> <<0, 0>>, KDF |-> <<0, 1>>, DEM |-> <<0, 2>>, DTAG |-> <<0, 3>>, CT |-> <<1, 0>>,
        ORD |-> <<1, 1>>, OROOT |-> <<1, 2>>, SHR |-> <<1, 3>>, SU |-> <<2, 0>>, CERT |-> <<2, 1>>,
        ORDERLOCK |-> <<2, 2>>, DKG |-> <<2, 3>>, WROOT |-> <<3, 0>>]

\* A residue as limbs, a finite point of G2 as bytes.
CoordOf(c) == [i \in 1 .. CoordLimbs |-> IF i = 1 THEN c ELSE 0]
Coords(P) == LET a == g2_affine(P)
             IN  Array(4, LAMBDA i : CoordOf(<<a.x[1], a.x[2], a.y[1], a.y[2]>>[i]))
ser_g2(P) == Flat(Array(4, LAMBDA i : LeCoord(Coords(P)[i])))
Finite(P) == P.z # Zero2

\* hash_to_g1 of a byte string: a digest for each value of the counter.
HashTo(pre) == hash_to_g1(Array(16, LAMBDA c :
                 get_le(sha256(TAG.H2G1 \o Le(4, Len(pre)) \o pre \o Le(4, c - 1))) % Q))

---------------------------------------------------------------------------
\* m2.hpp: the data encapsulation.
ser_hdr(epoch, sender, nonce, fee) == Le(8, epoch) \o sender \o Le(8, nonce) \o Le(8, fee)
kdf(ss, xe, hd) == sha256(TAG.KDF \o ss \o xe \o hd)
dem_ks(k, blk) == sha256(TAG.DEM \o k \o Le(8, blk))

\* Mutant: the tag does not cover the text.
dem_tag_Textless(k, hd, ct) == sha256(TAG.DTAG \o k \o hd)

dem_tag(k, hd, ct) == sha256(TAG.DTAG \o k \o hd \o ct)
Masked(k, s) == Array(Len(s), LAMBDA i : s[i] ^^ dem_ks(k, (i - 1) \div DigestLen)[1 + ((i - 1) % DigestLen)])
dem_encrypt(k, hd, pl) == LET ct == Masked(k, pl) IN [ct |-> ct, tag |-> dem_tag(k, hd, ct)]
dem_decrypt(k, hd, ct, tag) == [ok |-> dem_tag(k, hd, ct) = tag, pl |-> Masked(k, ct)]

ct_hash(rs, ct) == sha256(TAG.CT \o rs \o ct)
sort_key(beacon, cth) == sha256(TAG.ORD \o beacon \o cth)
order_root(cths) == sha256(TAG.OROOT \o Flat(cths))

\* The pairing check of a decryption share; an infinite public key refuses.
verify_share(D, Y1, Rp) == Y1.z # 0 /\ pairing(G1gen, D) = pairing(AffineQ(Y1), Rp)
aggregate_shares(lams, Ds) == Sum2(lams, Ds)

\* Statements and their signatures; none of an infinite point.
dec_preimage(st) == TAG.SHR \o Le(8, st.epoch) \o st.oroot \o st.cth \o ser_g2(st.D)
attest(s, st) == IF Finite(st.D) THEN partial(s, HashTo(dec_preimage(st))) ELSE Inf
verify_attest(sig, st, Y) == Finite(st.D) /\ user_verify(sig, Y, HashTo(dec_preimage(st)))

\* m2prod.hpp: the user's signature over header and key.
user_preimage(hd, Rp) == TAG.SU \o hd \o ser_g2(Rp)
user_attest(s, hd, Rp) == IF Finite(Rp) THEN partial(s, HashTo(user_preimage(hd, Rp))) ELSE Inf
member_partial(s, id, H) == [id |-> id, sig |-> partial(s, H)]

---------------------------------------------------------------------------
\* dkg_vss.hpp: the committee of an epoch from a seed, none for the genesis
\* tip; every coefficient is a word of a digest of its own.
epoch_seed(epoch, tip) == sha256(TAG.DKG \o Le(8, epoch) \o tip)
seed_words(seed, t) == Array(t, LAMBDA k : get_le(SubSeq(sha256(Append(seed, k - 1)), 1, 8)) % R)
deal_epoch(epoch, n, t, tip) == deal(n, t, seed_words(epoch_seed(epoch, tip), t))

\* epoch_node: the rotation at every completed epoch, the members registered
\* at the start, and the root of the roster, in the order of the ids.
SharesOk(T) == Cardinality({j \in 1 .. T.n : vss_verify_share(T, j, T.Y[j])})
rotate_dkg(epoch, n, t, tip, old) ==
    IF ~config_ok(n, t) THEN old
    ELSE LET T == deal_epoch(epoch, n, t, tip) IN [T |-> T, shares_ok |-> SharesOk(T), agg_pk |-> T.C[1]]
register_members(T) == Array(T.n, LAMBDA j : [id |-> j, pk |-> g2_mul(G2gen, share_for(T.f, j))])
\* committee.toml, a line being a section mark or a key with its value: a
\* member counts once its section has given an identifier other than 0.
load_committee_config(lines) ==
    LET flush(c) == IF c.open /\ c.cur.id # 0 THEN Append(c.out, c.cur) ELSE c.out
        blank == [id |-> 0, weight |-> 0]
        line(c, l) == CASE l.key = "[[member]]"        -> [c EXCEPT !.out = flush(c), !.cur = blank, !.open = TRUE]
                        [] l.key = "threshold_t"       -> [c EXCEPT !.t = l.value]
                        [] c.open /\ l.key = "id"      -> [c EXCEPT !.cur.id = l.value]
                        [] c.open /\ l.key = "weight"  -> [c EXCEPT !.cur.weight = l.value]
                        [] OTHER                       -> c
        c == Run(line, [out |-> <<>>, cur |-> blank, open |-> FALSE, t |-> 0], lines)
    IN  [members |-> flush(c), t |-> c.t]
\* Without a file of members, three members, two of whom suffice.
committee_of(lines) ==
    LET f == load_committee_config(lines)
    IN  IF f.members = <<>> THEN [n |-> 3, t |-> 2, roster |-> <<[id |-> 1, weight |-> 60], [id |-> 2, weight |-> 40]>>]
        ELSE [n |-> Len(f.members), t |-> IF f.t # 0 THEN f.t ELSE 2, roster |-> f.members]
weight_root(roster) ==
    LET sorted == SortSeq(roster, LAMBDA a, b : a.id < b.id)
    IN  sha256(TAG.WROOT \o Be(4, Len(roster)) \o
               Flat(Array(Len(roster), LAMBDA i : Be(8, sorted[i].id) \o Be(8, sorted[i].weight))))

---------------------------------------------------------------------------
\* m2envelope.hpp.  The ephemeral scalar is the first draw below R of the
\* system's, or none; the sealing itself is the same with a pinned one.
fr_from_os(draws) == fr_from_digest(draws)
encrypt_det(pl, X, epoch, r) ==
    LET Rp == g2_mul(G2gen, r)
        hd == ser_hdr(epoch, Array(DigestLen, LAMBDA i : 0), 0, 0)
        k  == kdf(ser_g2(g2_mul(X, r)), ser_g2(X), hd)
        e  == dem_encrypt(k, hd, pl)
    IN  [R |-> Rp, hdr |-> hd, ct |-> e.ct, tag |-> e.tag, cth |-> ct_hash(ser_g2(Rp), e.ct)]
encrypt(pl, X, epoch, draws) ==
    LET r == fr_from_os(draws)
    IN  IF r.ok THEN [ok |-> TRUE, env |-> encrypt_det(pl, X, epoch, r.v)] ELSE Refused

---------------------------------------------------------------------------
\* mempool.hpp: the store of envelopes, one entry a content hash.
contains(pool, cth) == \E i \in DOMAIN pool : pool[i].cth = cth
push(pool, env) == IF contains(pool, env.cth) THEN pool ELSE Append(pool, env)
ByKey(beacon, cths) == SortSeq(cths, LAMBDA a, b : get_be(sort_key(beacon, a)) < get_be(sort_key(beacon, b)))
ordered_root(pool, beacon) ==
    IF pool = <<>> THEN <<>>
    ELSE order_root(ByKey(beacon, Array(Len(pool), LAMBDA i : pool[i].cth)))

\* epoch.hpp: the same order from keys and texts, and the root as a field
\* element, the modulus taken off at most eight times.
run_order(envs, beacon) ==
    LET cths == Array(Len(envs), LAMBDA i : ct_hash(ser_g2(envs[i].R), envs[i].ct))
    IN  order_root(ByKey(beacon, cths))
order_fe(oroot) ==
    Run(LAMBDA v, i : IF v >= PallasP THEN v - PallasP ELSE v, get_le(oroot), UpTo(8))

---------------------------------------------------------------------------
\* msscvote.hpp: a vote's signature, alone and in a batch.
sign_vote(s, pre) == partial(s, HashTo(pre))
sign_order(s, pre) == sign_vote(s, pre)
verify_vote(sig, pre, Y) == user_verify(sig, Y, HashTo(pre))
verify_vote_member(sig, pre, Y) == verify_vote(sig, pre, Y)
AggregateVerify == [sigma |-> Inf, Y |-> Inf2, count |-> 0]
agg_accumulate(av, sig, Y) ==
    IF av.count = 0 THEN [sigma |-> sig, Y |-> Y, count |-> 1]
    ELSE [sigma |-> Padd(av.sigma, sig), Y |-> g2_add(av.Y, Y), count |-> av.count + 1]
agg_verify(av, pre) == av.count > 0 /\ verify_vote(av.sigma, pre, av.Y)

\* lightclient.hpp: the certificate of a header, and the genesis policy.
lc_preimage(h) == TAG.CERT \o Le(8, h.height) \o Le(8, h.epoch) \o h.root \o Le(DigestLen, h.digest) \o h.beacon
may_sync(height, has_cert) == ~(height = 0 /\ ~has_cert)
lc_verify(h, has_cert, sig, Y, prev, decree) ==
    /\ may_sync(h.height, has_cert)
    /\ h.digest = Link(prev, decree)
    /\ LET H == HashTo(lc_preimage(h))
       IN  H.z # 0 /\ bls_verify_aff(sig, AffineQ(H), Y)

---------------------------------------------------------------------------
Secret(c, j) == share_for(c, j)
SamePoint(p, q) == AffineQ(p) = AffineQ(q)

\* An envelope opens to its payload under the shares of any quorum, and under
\* anything else is refused: too few shares, a wrong one, an altered text,
\* header or tag.  Honest shares pass the pairing check and a wrong one does
\* not; a zero share is refused although right, and an infinite sum has no
\* bytes to derive a key from.  The wire carries the envelope whole.
Opens(c, xs, e, pl, epoch, r) ==
    LET T   == deal(3, 2, c)
        X   == T.C[1]
        env == encrypt_det(pl, X, epoch, r)
        Ds  == Array(Len(xs), LAMBDA i : dec_share((Secret(c, xs[i]) + (IF i = Len(xs) THEN e ELSE 0)) % R, env.R))
        agg == aggregate_shares(lagrange_zero(xs).lam, Ds)
        k   == kdf(ser_g2(agg), ser_g2(X), env.hdr)
        out == dem_decrypt(k, env.hdr, env.ct, env.tag)
        hd2 == ser_hdr(epoch + 1, Array(DigestLen, LAMBDA i : 0), 0, 0)
        wire == [env EXCEPT !.R = Coords(env.R)]
        flip(s) == [s EXCEPT ![1] = (@ + 1) % Byte]
    IN  /\ Finite(agg) => (out.ok <=> Len(xs) >= 2 /\ e = 0)
        /\ out.ok => /\ out.pl = pl
                     /\ pt_eq(agg, g2_mul(X, r))
                     /\ ~dem_decrypt(k, env.hdr, flip(env.ct), env.tag).ok
                     /\ ~dem_decrypt(k, env.hdr, env.ct, flip(env.tag)).ok
                     /\ ~dem_decrypt(k, hd2, env.ct, env.tag).ok
                     /\ ~dem_decrypt(kdf(ser_g2(agg), ser_g2(X), hd2), env.hdr, env.ct, env.tag).ok
        /\ verify_share(Ds[Len(xs)], T.Y1[xs[Len(xs)]], env.R)
             <=> e = 0 /\ Secret(c, xs[Len(xs)]) # 0
        /\ decode_envelope(encode_envelope(wire)).env = wire
        /\ encrypt(pl, X, epoch, <<R, R + 1, r>>) = [ok |-> TRUE, env |-> env]
        /\ ~encrypt(pl, X, epoch, <<R, R + 1>>).ok

\* The committed order depends on the set of envelopes and the beacon alone:
\* not on the order of arrival, nor on repeated arrivals; and it binds every
\* envelope.  Its field element is the root modulo the field.
OrderBinds(c, pls, epoch, beacon) ==
    LET X    == deal(3, 2, c).C[1]
        envs == Array(Len(pls), LAMBDA i : encrypt_det(pls[i], X, epoch, i + 1))
        pool(is) == Run(LAMBDA p, i : push(p, envs[i]), <<>>, is)
        n    == Len(envs)
        root == ordered_root(pool(UpTo(n)), beacon)
    IN  /\ root = run_order(envs, beacon)
        /\ root = ordered_root(pool(Reverse(UpTo(n))), beacon)
        /\ root = ordered_root(pool(<<n>> \o UpTo(n) \o <<1>>), beacon)
        /\ \A i \in 1 .. n : root # ordered_root(pool(Except1(n, i)), beacon)
        /\ order_fe(root) = get_le(root) % PallasP

\* A signature of a statement verifies under the signer's key for that
\* statement, and for another statement or key only when the points agree.
SignsOnly(c, i, j, st, st2) ==
    LET T  == deal(3, 2, c)
        hd == ser_hdr(st.epoch, st.oroot, 1, 2)
        good(sig, H, k) == sig.z # 0 /\ SamePoint(sig, Pmul(H, Secret(c, k)))
        pre == dec_preimage(st)
        sig == attest(Secret(c, i), st)
        us  == user_attest(Secret(c, i), hd, st.D)
    IN  /\ pre # dec_preimage(st2)
        /\ verify_attest(sig, st, T.Y[i]) <=> sig.z # 0
        /\ verify_attest(sig, st2, T.Y[i]) <=> good(sig, HashTo(dec_preimage(st2)), i)
        /\ verify_attest(sig, st, T.Y[j]) <=> good(sig, HashTo(pre), j)
        /\ user_verify(us, T.Y[i], HashTo(user_preimage(hd, st.D))) <=> us.z # 0

\* A batch verifies when its signatures are its members' on the statement, and
\* otherwise only when the sums agree.
BatchSound(c, i, j, v, v2) ==
    LET T    == deal(3, 2, c)
        pre  == vote_preimage(v)
        pre2 == vote_preimage(v2)
        batch(p) == agg_accumulate(agg_accumulate(AggregateVerify, sign_vote(Secret(c, i), pre), T.Y[i]),
                                   sign_vote(Secret(c, j), p), T.Y[j])
        sum == Pmul(HashTo(pre), (Secret(c, i) + Secret(c, j)) % R)
        a == agg_verify(batch(pre), pre)
        b == agg_verify(batch(pre2), pre)
    IN  /\ pre # pre2
        /\ a <=> sum.z # 0
        /\ b <=> batch(pre2).sigma.z # 0 /\ SamePoint(batch(pre2).sigma, sum)
        /\ ~agg_verify(AggregateVerify, pre)
        /\ verify_vote_member(sign_vote(Secret(c, i), pre), pre, T.Y[i]) <=> Secret(c, i) # 0

\* A certificate is for one header on one parent; genesis needs one.
CertificateBinds(c, h0, prev, decree) ==
    LET T == deal(3, 2, c)
        h == [h0 EXCEPT !.digest = Link(prev, decree)]
        sig(k) == AffineQ(sign_vote(c[1], lc_preimage(k)))
        other == [h EXCEPT !.beacon[1] = (@ + 1) % Byte]
    IN  /\ lc_verify(h, TRUE, sig(h), T.C[1], prev, decree)
        /\ lc_verify(h, FALSE, sig(h), T.C[1], prev, decree) <=> h.height # 0
        /\ Link(prev + 1, decree) # h.digest => ~lc_verify(h, TRUE, sig(h), T.C[1], prev + 1, decree)
        /\ lc_verify(h, TRUE, sig(other), T.C[1], prev, decree) <=> sig(other) = sig(h)
        /\ lc_preimage(h) # lc_preimage(other)

\* The committee of an epoch: every share is the committed one, the members
\* registered are the transcript's, t of them recover its public key, refused
\* parameters keep the old committee, another epoch has other coefficients,
\* and the root of the roster depends on its members alone.
CommitteeExact(epoch, n, t, tip, roster) ==
    LET entry(m) == <<[key |-> "[[member]]"], [key |-> "id", value |-> m.id], [key |-> "operator"],
                      [key |-> "weight", value |-> m.weight]>>
        file == <<[key |-> "id", value |-> 7], [key |-> "threshold_t", value |-> t]>> \o Flat([i \in DOMAIN roster |-> entry(roster[i])])
        none == [T |-> <<>>, shares_ok |-> 0, agg_pk |-> Inf2]
        D  == rotate_dkg(epoch, n, t, tip, none)
        xs == [i \in 1 .. t |-> n + 1 - i]
        ms == register_members(D.T)
    IN  IF ~config_ok(n, t) THEN D = none
        ELSE /\ D.shares_ok = n
             /\ \A j \in 1 .. n : pt_eq(ms[j].pk, D.T.Y[j])
             /\ pt_eq(Sum2(lagrange_zero_batch(xs).lam, [i \in 1 .. t |-> ms[xs[i]].pk]), D.agg_pk)
             /\ epoch_seed(epoch, tip) # epoch_seed(epoch + 1, tip)
             /\ committee_of(file) = [n |-> Len(roster), t |-> t, roster |-> roster]
             /\ committee_of(<<>>).roster # committee_of(file).roster
             /\ weight_root(roster) = weight_root(Reverse(roster))
             /\ weight_root(roster) # weight_root([roster EXCEPT ![1].weight = @ + 1])
=============================================================================
