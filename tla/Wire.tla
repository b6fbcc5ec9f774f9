-------------------------------- MODULE Wire -------------------------------
(***************************************************************************)
(* What goes over the sockets, as bytes: the frames of p2p.hpp, votes and  *)
(* order signatures (msscvote.hpp), envelopes (m2envelope.hpp), the batch  *)
(* of shares for a late joiner (mempool.hpp) and the streamed SHA-256      *)
(* (sha256.hpp).  A byte is a digit below Byte, so that a u64 of eight     *)
(* digits stays small; sizes keep the code's structure, and the lengths of *)
(* a digest, of a coordinate and of a hash block are parameters.           *)
(***************************************************************************)
EXTENDS Arrays

CONSTANTS
    Byte,               \* 256
    DigestLen,          \* 32
    CoordLimbs,         \* 6
    Block,              \* 64
    MAX_PAYLOAD, MAX_PEERS,
    Compress(_, _)      \* the compression function: chaining value, block

MAGIC == <<1, 2, 3, 0>>
HEADER_LEN == Len(MAGIC) + 1 + 4
Slice(s, off, n) == SubSeq(s, off + 1, off + n)        \* n bytes from offset off

---------------------------------------------------------------------------
\* Integers, most and least significant byte first.
Be(n, v) == Array(n, LAMBDA i : (v \div Byte ^ (n - i)) % Byte)
Le(n, v) == Array(n, LAMBDA i : (v \div Byte ^ (i - 1)) % Byte)
get_be(s) == Run(LAMBDA v, b : v * Byte + b, 0, s)
get_le(s) == Run(LAMBDA v, b : v * Byte + b, 0, Reverse(s))
put_u32(v) == Be(4, v)
put_u64(v) == Be(8, v)
Flat(ss) == Run(LAMBDA a, b : a \o b, <<>>, ss)

---------------------------------------------------------------------------
\* Frames: magic, type, length, payload.
serialize(m) == MAGIC \o <<m.type>> \o put_u32(Len(m.payload)) \o m.payload
Refused == [ok |-> FALSE]

\* The header of a frame: its type and length, none if it is not one.
Header(buf) ==
    LET n == get_be(Slice(buf, Len(MAGIC) + 1, 4))
    IN  IF Len(buf) < HEADER_LEN THEN Refused
        ELSE IF SubSeq(buf, 1, Len(MAGIC)) # MAGIC \/ n > MAX_PAYLOAD THEN Refused
        ELSE [ok |-> TRUE, type |-> buf[Len(MAGIC) + 1], len |-> n]

\* deserialize: bytes past the payload are ignored.
deserialize(buf) ==
    LET h == Header(buf)
    IN  IF ~h.ok THEN Refused
        ELSE IF Len(buf) < HEADER_LEN + h.len THEN Refused
        ELSE [ok |-> TRUE, type |-> h.type, payload |-> Slice(buf, HEADER_LEN, h.len)]

\* A socket is the pieces the peer's bytes arrive in; an empty one, or none,
\* is an error or the end of the stream.  Take reads exactly n bytes, as the
\* recv loops do, and fails when the stream ends before.
Take(n, pieces) ==
    LET read == Run(LAMBDA q, p :
                      IF q.done THEN [q EXCEPT !.rest = Append(@, p)]
                      ELSE IF p = <<>> THEN [q EXCEPT !.done = TRUE]
                      ELSE LET k == n - Len(q.got)
                           IN  IF Len(p) > k
                               THEN [got |-> q.got \o SubSeq(p, 1, k), done |-> TRUE,
                                     rest |-> <<SubSeq(p, k + 1, Len(p))>>]
                               ELSE [q EXCEPT !.got = @ \o p, !.done = Len(p) = k],
                    [got |-> <<>>, done |-> n = 0, rest |-> <<>>], pieces)
    IN  [ok |-> Len(read.got) = n, got |-> read.got, rest |-> read.rest]

\* Mutant: a payload cut short is delivered.
recv_message_Short(pieces) ==
    LET head == Take(HEADER_LEN, pieces)
        h    == Header(head.got)
        body == Take(h.len, head.rest)
    IN  IF ~head.ok \/ ~h.ok THEN Refused
        ELSE [ok |-> TRUE, type |-> h.type, payload |-> body.got, rest |-> body.rest]

\* recv_message: a header, then as many bytes as it says.
recv_message(pieces) ==
    LET head == Take(HEADER_LEN, pieces)
        h    == Header(head.got)
        body == Take(h.len, head.rest)
    IN  IF ~head.ok \/ ~h.ok THEN Refused
        ELSE IF ~body.ok THEN Refused
        ELSE [ok |-> TRUE, type |-> h.type, payload |-> body.got, rest |-> body.rest]

\* send_message: the frame, in the pieces the socket takes.
send_message(m, k) ==
    LET b == serialize(m)
    IN  Array((Len(b) + k - 1) \div k,
              LAMBDA i : SubSeq(b, (i - 1) * k + 1, IF i * k < Len(b) THEN i * k ELSE Len(b)))

\* Peer lists: the builder writes a count first, the parser reads none.
build_peer_list(ps) ==
    put_u32(Len(ps)) \o Flat([i \in DOMAIN ps |-> Be(4, ps[i].ip) \o Be(2, ps[i].port)])
parse_peer_list(b) ==
    LET n == IF Len(b) \div 6 < MAX_PEERS THEN Len(b) \div 6 ELSE MAX_PEERS
    IN  Array(n, LAMBDA i : [ip |-> get_be(Slice(b, 6 * (i - 1), 4)), port |-> get_be(Slice(b, 6 * (i - 1) + 4, 2))])

\* An announced address: written in network order, the port least significant
\* byte first; read least significant byte first, both; six bytes or nothing.
announce(p) == Be(4, p.ip) \o Le(2, p.port)
announced(b) ==
    IF Len(b) # 6 THEN Refused
    ELSE [ok |-> TRUE, peer |-> [ip |-> get_le(Slice(b, 0, 4)), port |-> get_le(Slice(b, 4, 2))]]

---------------------------------------------------------------------------
\* The plain validator (tools/node.cpp): the peers it knows, its connections
\* and what it has sent.
PING == 4
PONG == 5
PEER_LIST == 1
Sent(v, fd, m) == [v EXCEPT !.sent = Append(@, [to |-> fd, msg |-> m])]
Learned(known, ps) ==
    Run(LAMBDA k, p : IF p \in {k[i] : i \in DOMAIN k} \/ Len(k) >= MAX_PEERS THEN k ELSE Append(k, p), known, ps)
handle_message(v, fd, m) ==
    CASE m.type = PING      -> Sent(v, fd, [type |-> PONG, payload |-> <<>>])
      [] m.type = PEER_LIST -> [v EXCEPT !.known = Learned(@, parse_peer_list(m.payload))]
      [] OTHER              -> v
gossip(v, m) == Run(LAMBDA q, fd : Sent(q, fd, m), v, v.fds)
\* A connection accepted, one that is readable, or the ping timer.
validator_step(v, e) ==
    CASE e.op = "accept" -> Sent([v EXCEPT !.fds = Append(@, e.fd)], e.fd,
                                 [type |-> PEER_LIST, payload |-> build_peer_list(v.known)])
      [] e.op = "ready"  -> LET r == recv_message(e.pieces)
                            IN  IF e.fd \notin {v.fds[i] : i \in DOMAIN v.fds} THEN v
                                ELSE IF r.ok THEN handle_message(v, e.fd, r)
                                ELSE [v EXCEPT !.fds = SelectSeq(@, LAMBDA f : f # e.fd)]
      [] e.op = "ping"   -> gossip(v, [type |-> PING, payload |-> <<>>])

---------------------------------------------------------------------------
\* Votes and order signatures.  A signature is affine, or infinite.
Coord(c) == Flat([i \in DOMAIN c |-> Be(8, c[i])])
get_coord(b, off) == Array(CoordLimbs, LAMBDA i : get_be(Slice(b, off + 8 * (i - 1), 8)))
CoordLen == 8 * CoordLimbs
SIG_SIZE == 2 * CoordLen
get_point(b, off) == [inf |-> FALSE, x |-> get_coord(b, off), y |-> get_coord(b, off + CoordLen)]
Signature(sig) == IF sig.inf THEN <<>> ELSE Coord(sig.x) \o Coord(sig.y)

PREIMAGE_SIZE == 4 + 3 * DigestLen + 8
vote_preimage(v) == Be(4, v.epoch) \o v.root \o v.conflict \o v.pref \o Be(8, v.round)
encode_vote(v, sig) == [type |-> 6, payload |-> vote_preimage(v) \o Signature(sig)]
encode_vote_v2(v, sig, member) ==
    LET m == encode_vote(v, sig)
    IN  IF Len(m.payload) # PREIMAGE_SIZE + SIG_SIZE THEN m
        ELSE [m EXCEPT !.payload = @ \o Be(8, member)]
decode_vote(m) ==
    LET p == m.payload
        n == Len(p)
        legacy == PREIMAGE_SIZE + SIG_SIZE
    IN  IF m.type # 6 \/ n \notin {legacy, legacy + 8} THEN Refused
        ELSE [ok |-> TRUE,
              vote |-> [epoch |-> get_be(Slice(p, 0, 4)), root |-> Slice(p, 4, DigestLen),
                        conflict |-> Slice(p, 4 + DigestLen, DigestLen),
                        pref |-> Slice(p, 4 + 2 * DigestLen, DigestLen),
                        round |-> get_be(Slice(p, 4 + 3 * DigestLen, 8))],
              sigma |-> get_point(p, PREIMAGE_SIZE),
              has_member |-> n = legacy + 8,
              member |-> IF n = legacy + 8 THEN get_be(Slice(p, legacy, 8)) ELSE 0]

order_sig_preimage(tag, epoch, oroot) == tag \o Be(4, epoch) \o oroot
encode_order_sig(epoch, oroot, sig, member) ==
    [type |-> 13,
     payload |-> Be(4, epoch) \o oroot \o Signature(sig) \o (IF sig.inf THEN <<>> ELSE Be(8, member))]
decode_order_sig(m) ==
    LET p == m.payload
        o == 4 + DigestLen
    IN  IF m.type # 13 \/ Len(p) # o + SIG_SIZE + 8 THEN Refused
        ELSE [ok |-> TRUE, epoch |-> get_be(Slice(p, 0, 4)), oroot |-> Slice(p, 4, DigestLen),
              sigma |-> get_point(p, o), member |-> get_be(Slice(p, o + SIG_SIZE, 8))]

---------------------------------------------------------------------------
\* Envelopes: coordinates least significant byte first, the length most.
LeCoord(c) == Flat([i \in DOMAIN c |-> Le(8, c[i])])
get_le_coord(b, off) == Array(CoordLimbs, LAMBDA i : get_le(Slice(b, off + 8 * (i - 1), 8)))
HdrLen == 24 + DigestLen
encode_envelope(e) ==
    [type |-> 7,
     payload |-> Flat([i \in DOMAIN e.R |-> LeCoord(e.R[i])]) \o e.hdr
                 \o put_u32(Len(e.ct)) \o e.ct \o e.tag \o e.cth]
decode_envelope(m) ==
    LET p == m.payload
        o == 4 * CoordLen + HdrLen
        n == get_be(Slice(p, o, 4))
    IN  IF m.type # 7 \/ Len(p) < o + 4 + 2 * DigestLen THEN Refused
        ELSE IF Len(p) < o + 4 + n + 2 * DigestLen THEN Refused
        ELSE [ok |-> TRUE,
              env |-> [R   |-> Array(4, LAMBDA i : get_le_coord(p, CoordLen * (i - 1))),
                       hdr |-> Slice(p, 4 * CoordLen, HdrLen),
                       ct  |-> Slice(p, o + 4, n),
                       tag |-> Slice(p, o + 4 + n, DigestLen),
                       cth |-> Slice(p, o + 4 + n + DigestLen, DigestLen)]]

\* A late joiner's batch: a count, then records of index, member and share.
ShareLen == 4 * CoordLen
sync_batch_encode(member, shares) ==
    Le(4, Len(shares)) \o Flat([i \in DOMAIN shares |-> Le(4, shares[i].eix) \o Le(8, member) \o shares[i].ser])
\* The member is the first record's, read at its offset even of no record.
sync_batch_decode(p) ==
    LET rec == 12 + ShareLen
        n   == (Len(p) - 4) \div rec
    IN  IF Len(p) < 4 \/ (Len(p) - 4) % rec # 0 THEN Refused
        ELSE IF get_le(Slice(p, 0, 4)) # n THEN Refused
        ELSE [ok |-> TRUE, member |-> get_le(Slice(p, 8, 8)),
              shares |-> Array(n, LAMBDA r : [eix |-> get_le(Slice(p, 4 + rec * (r - 1), 4)),
                                              ser |-> Slice(p, 4 + rec * (r - 1) + 12, ShareLen)])]

---------------------------------------------------------------------------
\* SHA-256: whole blocks are compressed as they fill.
reset == [h |-> 0, buf |-> <<>>, len |-> 0]
update(s, d) ==
    LET all == s.buf \o d
        n   == Len(all) \div Block
    IN  [h   |-> Run(LAMBDA h, i : Compress(h, Slice(all, Block * (i - 1), Block)), s.h, UpTo(n)),
         buf |-> Slice(all, Block * n, Len(all) - Block * n),
         len |-> s.len + Len(d)]
\* finish: a one bit, zeros up to the length field, the length in bits.
finish(s) ==
    LET one  == update(s, <<Byte \div 2>>)
        zero == (Block - 8 - Len(one.buf)) % Block
        full == update(one, Array(zero, LAMBDA i : 0))
    IN  Be(DigestLen, Compress(full.h, full.buf \o Be(8, 8 * s.len)))
sha256(d) == finish(update(reset, d))

---------------------------------------------------------------------------
\* What the codecs are for.
Truncations(s) == {SubSeq(s, 1, n) : n \in 0 .. Len(s) - 1}

\* Frames are read back from a stream in the order and at the sizes sent,
\* however the bytes are split; a frame cut short or over the limit is not.
StreamExact(ms, k) ==
    LET fits(m) == Len(m.payload) <= MAX_PAYLOAD
        all  == Flat([i \in DOMAIN ms |-> send_message(ms[i], k)])
        read == Run(LAMBDA q, i : IF ~q.ok THEN q
                      ELSE LET r == recv_message(q.rest)
                           IN  IF ~r.ok THEN [q EXCEPT !.ok = FALSE]
                               ELSE [ok |-> TRUE, rest |-> r.rest,
                                     got |-> Append(q.got, [type |-> r.type, payload |-> r.payload])],
                    [ok |-> TRUE, rest |-> all, got |-> <<>>], UpTo(Len(ms) + 1))
        good == IF \A i \in DOMAIN ms : fits(ms[i]) THEN ms
                ELSE SubSeq(ms, 1, (CHOOSE i \in DOMAIN ms : ~fits(ms[i]) /\ \A j \in 1 .. i - 1 : fits(ms[j])) - 1)
        one == serialize(ms[1])
    IN  /\ ~read.ok /\ read.got = good
        /\ deserialize(one \o <<1, 2>>) = IF fits(ms[1]) THEN [ok |-> TRUE, type |-> ms[1].type, payload |-> ms[1].payload]
                                           ELSE Refused
        /\ \A b \in Truncations(one) : ~deserialize(b).ok /\ ~recv_message(<<b>>).ok

\* A list of peers, and an announced one, are read as they were written.
ListReadsBack(ps) == Len(ps) <= MAX_PEERS => parse_peer_list(build_peer_list(ps)) = ps
AnnounceReadsBack(p) == announced(announce(p)) = [ok |-> TRUE, peer |-> p]

\* A validator writes only to open connections, one answer for each ping, and
\* knows no peer twice nor more peers than its seeds or the limit.
GossipExact(seeds, events) ==
    LET boot == [known |-> seeds, fds |-> <<>>, sent |-> <<>>]
        h == Run(LAMBDA q, e : Append(q, validator_step(Last(q), e)), <<boot>>, events)
        open(v) == {v.fds[i] : i \in DOMAIN v.fds}
        cap == IF Len(seeds) > MAX_PEERS THEN Len(seeds) ELSE MAX_PEERS
    IN  \A i \in DOMAIN events :
          LET v == h[i + 1]
              new == {v.sent[k] : k \in (Len(h[i].sent) + 1) .. Len(v.sent)}
              e == events[i]
              pinged == e.op = "ready" /\ e.fd \in open(h[i]) /\ recv_message(e.pieces).ok
                        /\ recv_message(e.pieces).type = PING
          IN  /\ \A x \in new : x.to \in open(v)
              /\ (\E x \in new : x.msg.type = PONG) <=> pinged
              /\ Len(v.known) <= cap
              /\ \A j, k \in (Len(seeds) + 1) .. Len(v.known) : v.known[j] = v.known[k] => j = k

\* Votes and order signatures are read back as sent, an infinite signature
\* and any other size are refused, and neither statement is the other's.
VoteExact(v, sig, member) ==
    LET old == encode_vote(v, sig)
        new == encode_vote_v2(v, sig, member)
        ord == encode_order_sig(v.epoch, v.root, sig, member)
        dv  == decode_vote(new)
        do  == decode_order_sig(ord)
    IN  /\ dv.ok <=> ~sig.inf
        /\ do.ok <=> ~sig.inf
        /\ dv.ok => /\ dv.vote = v /\ dv.sigma = sig /\ dv.has_member /\ dv.member = member
                    /\ decode_vote(old) = [dv EXCEPT !.has_member = FALSE, !.member = 0]
                    /\ do.epoch = v.epoch /\ do.oroot = v.root /\ do.sigma = sig /\ do.member = member
        /\ \A b \in Truncations(new.payload) : decode_vote([new EXCEPT !.payload = b]).ok => b = old.payload
        /\ ~decode_vote(ord).ok /\ ~decode_order_sig(new).ok
        /\ vote_preimage(v) # order_sig_preimage(<<3, 2, 1, 0>>, v.epoch, v.root)

\* Envelopes and batches are read back as sent and never from less.
EnvelopeExact(e, member, shares) ==
    LET m == encode_envelope(e)
        b == sync_batch_encode(member, shares)
    IN  /\ decode_envelope(m) = [ok |-> TRUE, env |-> e]
        /\ \A p \in Truncations(m.payload) : ~decode_envelope([m EXCEPT !.payload = p]).ok
        /\ shares # <<>> => sync_batch_decode(b) = [ok |-> TRUE, member |-> member, shares |-> shares]
        /\ \A p \in Truncations(b) : ~sync_batch_decode(p).ok

\* The digest of a message is that of its padded blocks, however the message
\* was split over the updates.
ShaExact(d, k) ==
    LET zeros == CHOOSE z \in 0 .. Block - 1 : (Len(d) + 1 + z + 8) % Block = 0
        pad == d \o <<Byte \div 2>> \o Array(zeros, LAMBDA i : 0) \o Be(8, 8 * Len(d))
        want == Run(LAMBDA h, i : Compress(h, Slice(pad, Block * (i - 1), Block)), 0, UpTo(Len(pad) \div Block))
    IN  /\ sha256(d) = Be(DigestLen, want)
        /\ k <= Len(d) => finish(update(update(reset, SubSeq(d, 1, k)), SubSeq(d, k + 1, Len(d)))) = sha256(d)
=============================================================================
