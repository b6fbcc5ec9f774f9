------------------------------- MODULE Fleet -------------------------------
(***************************************************************************)
(* The peers of one epoch node and its MSSC consensus loop                 *)
(* (tools/epoch_node.cpp, msscloop.hpp, peersec.hpp, econ/stake.hpp):      *)
(* connections are accepted, dialed and torn down under descriptor         *)
(* numbers the kernel reuses; verified votes bind a connection to a        *)
(* member, feed the tick, reveal equivocation and slash the stake; a       *)
(* message rate limit bans addresses.                                      *)
(*                                                                         *)
(* The other members are the environment: `signed' is every vote they      *)
(* ever sign, a member in Byzantine signs what it likes, the others sign   *)
(* one preference per round.  Whoever is behind a connection may deliver   *)
(* any of these votes, in any order and any number of times: the node      *)
(* checks the signature against the claimed member and nothing else.       *)
(* The weight root and the conflict digest are equal constants throughout  *)
(* the fleet (both are computed at boot), so a vote does not carry them.   *)
(***************************************************************************)
EXTENDS Integers, Sequences, FiniteSets, FiniteSetsExt, SequencesExt, Functions

CONSTANTS
    Peer,           \* the other members: member id = address of the process
    Byzantine,      \* those that may sign two preferences for one round
    Pref,           \* preference digests; 0 is the all-zero "no preference"
    SelfWeight,     \* g_mssc.self_weight
    Static,         \* the records of the built-in peer table
    SeedPeer,       \* g_seed_addrs
    DefaultWeight,  \* 30
    Fds,            \* descriptor numbers the process can be given
    PortOf(_),      \* the listening port of a peer
    MaxPeers,       \* p2p::MAX_PEERS
    MsgsPerWindow,  \* PEER_MSGS_PER_SEC
    Alpha, Phi,     \* alpha_bp, phi_floor_bp
    Beta,           \* confirmations to finalize
    StallLimit,
    Wrap,           \* 2^64: total_weight is unsigned
    MaxRound,       \* bound: the node stops ticking there
    MaxEpoch,       \* bound: no epoch closes there
    Statements,     \* bound: the sets of votes a behaviour may draw on
    MaxOpens,       \* bound: connections opened after the boot
    StatedRounds,   \* bound: rounds named in votes and receipts
    Announced,      \* bound: addresses that are announced
    Reporter,       \* bound: member ids named in uptime receipts
    LegacyVoter,    \* members whose votes are in the 204-byte format
    BatchCap        \* 128: more pending batches than this are dropped

\* The weight of the node and its built-in table.
BootWeight == SelfWeight + SumFunction([i \in DOMAIN Static |-> Static[i].weight])

ASSUME FleetAssumption ==
    /\ Peer \subseteq Nat \ {0} /\ IsFiniteSet(Peer)
    /\ Byzantine \subseteq Peer /\ SeedPeer \subseteq Peer /\ Announced \subseteq Peer
    /\ Reporter \subseteq Peer
    /\ Pref \subseteq Nat /\ Pref \ {0} # {}
    /\ Fds \subseteq Nat /\ IsFiniteSet(Fds)
    /\ SelfWeight \in Nat \ {0} /\ DefaultWeight \in Nat \ {0}
    /\ \A p \in Peer : PortOf(p) \in Nat \ Fds
    /\ Static \in Seq([port : Nat, weight : Nat, member : Peer])
    /\ MaxPeers \in Nat /\ MsgsPerWindow \in Nat \ {0}
    /\ {Alpha, Phi, Beta, StallLimit, Wrap, MaxRound, MaxEpoch,
        MaxOpens} \subseteq Nat
    /\ StatedRounds \subseteq 0 .. MaxRound
    /\ Wrap > 0
    \* No sum of weights reaches 2^64.
    /\ BootWeight + DefaultWeight * MaxOpens < Wrap
    /\ \A S \in Statements :
         S \subseteq [member : Peer, epoch : 0 .. MaxEpoch, round : StatedRounds, pref : Pref]
    /\ \A S \in Statements : \A u, v \in S :
         u.member = v.member /\ u.round = v.round /\ u.member \notin Byzantine
            => u.pref = v.pref

VARIABLES
    signed,     \* environment: every vote [member, epoch, round, pref]
    fds,        \* peer_fds
    remote,     \* the process at the other end of each open descriptor
    fdWeight,   \* g_fd_weights
    fdMember,   \* g_fd_member
    bucket,     \* peer_window_map: messages in the current window
    bans,       \* g_peer_bans
    found,      \* g_discovered
    peers,      \* g_mssc.peers
    total,      \* g_mssc.total_weight
    mssc,       \* preference, confidence, stall, rounds, state of g_mssc
    prefs,      \* g_peer_prefs
    batch,      \* g_agg_batches: the epoch signed in each pending batch
    evidence,   \* g_signed_prefs: the first preference per member and round
    slashed,    \* g_adversarial
    bonds,      \* g_stake_reg with g_stake_seeded
    receipts,   \* g_receipt_count and g_last_receipt of each member
    epoch,      \* current_epoch
    redials,    \* history: records added by the reconnect timer
    opens       \* connections opened after the boot

conn  == <<fds, remote, fdWeight, fdMember, bucket, opens>>
vote  == <<prefs, batch, evidence, slashed, bonds>>
fleetVars == <<signed, conn, bans, found, peers, total, mssc, vote, receipts,
               epoch, redials>>

Empty == [x \in {} |-> 0]

\* f with x removed from its domain, and f with x mapped to y.
Without(f, x)   == [z \in DOMAIN f \ {x} |-> f[z]]
With(f, x, y)   == [z \in DOMAIN f \cup {x} |-> IF z = x THEN y ELSE f[z]]

Vote == [member : Peer, epoch : 0 .. MaxEpoch, round : StatedRounds, pref : Pref]

---------------------------------------------------------------------------
\* msscloop::weight_of: the first record of the member speaks for it.
weight_of(ps, m) ==
    LET I == {i \in DOMAIN ps : ps[i].member = m}
    IN  IF I = {} THEN 0 ELSE ps[Min(I)].weight

\* msscloop::vote_fresh: this epoch, a round window of one.
vote_fresh(v) ==
    /\ v.epoch = epoch
    /\ v.round - mssc.rounds \in -1 .. 1

WeightSum(S) == SumFunction([m \in S |-> weight_of(peers, m)])

have_pref == mssc.pref # 0

\* The preference of the heaviest single voice, the node's own included;
\* equal weights go to the smaller digest.
Heaviest ==
    LET own   == IF have_pref THEN {[w |-> SelfWeight, p |-> mssc.pref]} ELSE {}
        voice == own \cup {[w |-> weight_of(peers, m), p |-> prefs[m]] :
                           m \in {k \in DOMAIN prefs : weight_of(peers, k) > 0}}
        top   == {x \in voice : \A y \in voice : y.w <= x.w}
    IN  IF voice = {} THEN mssc.pref ELSE Min({x.p : x \in top})

\* A round below alpha: back to no confidence, over to the heaviest voice.
Missed(s) == [s EXCEPT !.confidence = 0, !.pref = Heaviest, !.stall = @ + 1]

\* msscloop::tick over the reported preferences.
tick ==
    LET own      == IF have_pref THEN SelfWeight ELSE 0
        sampled  == own + WeightSum(DOMAIN prefs)
        agreeing == own + WeightSum({m \in DOMAIN prefs :
                                       have_pref /\ prefs[m] = mssc.pref})
        s        == [mssc EXCEPT !.rounds = @ + 1]
        floor    == total > 0 /\ sampled * 10000 < Phi * total
        alpha    == agreeing * 10000 >= Alpha * sampled
        counted  == IF alpha
                    THEN [s EXCEPT !.confidence = @ + 1, !.stall = 0,
                                   !.state = IF s.confidence + 1 >= Beta
                                             THEN "Finalized" ELSE @]
                    ELSE Missed(s)
    IN  IF floor THEN [s EXCEPT !.stall = @ + 1]
        ELSE IF counted.stall >= StallLimit
             THEN [counted EXCEPT !.state = "Suspended"] ELSE counted

\* Mutant: the node's own preference is not a candidate.
Frozen_PeersOnly(s) == Range(prefs)

\* The conflict the breaker resolves: the node's preference and the others'.
Frozen(s) == {s.pref} \cup Range(prefs)

\* msscloop::breaker_tick, called on a suspended node: with two candidates
\* the beacon picks one (any, as far as the model knows).
breaker_tick(s) ==
    IF s.state # "Suspended" \/ Cardinality(Frozen(s)) < 2 THEN {s}
    ELSE {[s EXCEPT !.pref = w, !.confidence = 0, !.stall = 0,
                    !.state = "Active"] : w \in Frozen(s)}

---------------------------------------------------------------------------
\* econ::StakeRegistry: a member's bonds, in the order of their deposits.
Bond == [amount : Nat, deposit : Nat, state : {"BONDING", "ACTIVE", "SLASHED"}]

\* deposit, then the two tick_epoch calls that pass the activation lag.
Seeded(bs) == Append([i \in DOMAIN bs |->
                        [bs[i] EXCEPT !.state = IF @ = "BONDING" THEN "ACTIVE" ELSE @]],
                     [amount |-> 1, deposit |-> 0, state |-> "ACTIVE"])

slash_equivocation(bs) ==
    [i \in DOMAIN bs |->
        IF bs[i].state = "SLASHED" THEN bs[i]
        ELSE [bs[i] EXCEPT !.amount = 0, !.state = "SLASHED"]]

active_weight(bs) ==
    Cardinality({i \in DOMAIN bs : bs[i].state = "ACTIVE" /\ bs[i].amount > 0})

---------------------------------------------------------------------------
Init ==
    /\ signed \in Statements
    /\ \E D \in SUBSET SeedPeer :      \* the seeds that answered at boot
         \E f \in [D -> Fds] :
            /\ \A p, q \in D : f[p] = f[q] => p = q
            /\ fds = Range(f)
            /\ remote = [x \in Range(f) |-> CHOOSE p \in D : f[p] = x]
    /\ fdWeight = Empty /\ fdMember = Empty /\ bucket = Empty
    /\ bans = {} /\ found = {}
    /\ peers = Static
    /\ total = BootWeight
    /\ mssc \in {[pref |-> p, confidence |-> 0, stall |-> 0, rounds |-> 0,
                  state |-> "Active"] : p \in {Min(Pref \ {0})}}
    /\ prefs = Empty /\ batch = Empty /\ evidence = Empty /\ slashed = {}
    /\ bonds = [m \in Peer |-> <<>>]
    /\ receipts = Empty
    /\ epoch = 0 /\ redials = 0 /\ opens = 0

---------------------------------------------------------------------------
\* A connection under the lowest free descriptor: peer_fds grows.
Opened(p, fd) ==
    /\ opens < MaxOpens /\ opens' = opens + 1
    /\ fd \notin fds /\ \A x \in Fds \ fds : fd <= x
    /\ fds' = fds \cup {fd}
    /\ remote' = With(remote, fd, p)

\* accept: a banned address is closed at once, any other joins the sampling
\* list with the default weight, under its descriptor.
Accept(p) ==
    /\ p \notin bans
    /\ \E fd \in Fds :
         /\ Opened(p, fd)
         /\ fdWeight' = With(fdWeight, fd, DefaultWeight)
         /\ peers' = Append(peers, [port |-> fd, weight |-> DefaultWeight, member |-> 0])
    /\ total' = (total + DefaultWeight) % Wrap
    /\ UNCHANGED <<signed, fdMember, bucket, bans, found, mssc, vote, receipts,
                   epoch, redials>>

\* Mutant: every connection is taken to have been given a weight.
LostWeight_Any(fd) == DefaultWeight

\* The weight recorded under the descriptor, if any.
LostWeight(fd) == IF fd \in DOMAIN fdWeight THEN fdWeight[fd] ELSE 0

\* Mutant: the rate window outlives the connection.
peer_forget_Leaks(fd) == bucket

\* peersec::peer_forget.
peer_forget(fd) == Without(bucket, fd)

\* The DEF-255 path: recv failed on fd.
Disconnect(fd) ==
    LET left  == (total - LostWeight(fd)) % Wrap
        lost  == IF fd \in DOMAIN fdMember THEN fdMember[fd] ELSE 0
        gone  == {i \in DOMAIN peers :
                    \/ lost # 0 /\ peers[i].member = lost
                    \/ peers[i].member = 0 /\ peers[i].port = fd}
    IN  /\ fdWeight' = Without(fdWeight, fd)
        /\ total' = IF fd \in DOMAIN fdWeight /\ left < SelfWeight
                    THEN SelfWeight ELSE left
        /\ peers' = IF gone = {} THEN peers ELSE RemoveAt(peers, Min(gone))
        /\ prefs' = Without(prefs, lost)
        /\ fdMember' = Without(fdMember, fd)
        /\ bucket' = peer_forget(fd)
        /\ fds' = fds \ {fd}
        /\ remote' = Without(remote, fd)
        /\ UNCHANGED <<signed, opens, found, mssc, batch, evidence, slashed, bonds,
                       receipts, epoch, redials>>

\* Mutant: the message that opens a window is not counted.
Count_FromZero(fd, expired) ==
    IF expired \/ fd \notin DOMAIN bucket THEN 0 ELSE bucket[fd] + 1

\* peersec::peer_allow: expired says that a second has passed since the
\* window opened.
Count(fd, expired) ==
    IF expired \/ fd \notin DOMAIN bucket THEN 1 ELSE bucket[fd] + 1

\* Readable descriptor over its rate: the address is banned (unless the
\* socket has already lost its peer name), the descriptor closed, recv fails.
RateExceeded(fd) ==
    /\ Count(fd, FALSE) > MsgsPerWindow
    /\ bans' \in {bans, bans \cup {remote[fd]}}
    /\ Disconnect(fd)

\* Readable descriptor that is closed: by its banned address or its peer.
Closed(fd) ==
    /\ \E expired \in BOOLEAN : Count(fd, expired) <= MsgsPerWindow
    /\ UNCHANGED bans
    /\ Disconnect(fd)

\* What precedes every handler of a message that was read.
Admit(fd) ==
    /\ fd \in fds
    /\ remote[fd] \notin bans
    /\ \E expired \in BOOLEAN :
         /\ Count(fd, expired) <= MsgsPerWindow
         /\ bucket' = With(bucket, fd, Count(fd, expired))
    /\ UNCHANGED <<signed, bans, epoch, redials>>

\* The ban window of an address has passed.
BanExpires(p) ==
    /\ p \in bans
    /\ bans' = bans \ {p}
    /\ UNCHANGED <<signed, conn, found, peers, total, mssc, vote, receipts, epoch, redials>>

---------------------------------------------------------------------------
\* The records a verified vote of m on fd binds to its member.
Bound(ps, fd, m) ==
    [i \in DOMAIN ps |->
        IF ps[i].member = 0 /\ ps[i].port = fd THEN [ps[i] EXCEPT !.member = m]
        ELSE ps[i]]

Voice(ps, m) == {i \in DOMAIN ps : ps[i].member = m /\ ps[i].weight > 0}

Silenced(ps, m) ==
    [i \in DOMAIN ps |-> IF i \in Voice(ps, m) THEN [ps[i] EXCEPT !.weight = 0] ELSE ps[i]]

\* Mutant: statements of different rounds are compared.
StatementKey_AnyRound(v) == <<v.member, 0>>

\* What a member may state only once.
StatementKey(v) == <<v.member, v.round>>

\* A vote in the old format joins the batch of its round and preference; the
\* second signature is verified with the first by one pairing, and the batch
\* is dropped.
Batched(v) ==
    LET key == <<v.round, v.pref>>
    IN  IF v.member \notin LegacyVoter THEN batch
        ELSE IF key \in DOMAIN batch THEN Without(batch, key)
        ELSE With(batch, key, v.epoch)

\* 0x06: the vote v, its signature verified against the claimed member (the
\* old format names none: the member whose key verifies it).
HandleVote(fd, v) ==
    LET key   == StatementKey(v)
        bound == Bound(peers, fd, v.member)
        twice == key \in DOMAIN evidence /\ evidence[key] # v.pref
        burnt == IF twice THEN slash_equivocation(bonds[v.member]) ELSE bonds[v.member]
    IN  /\ Admit(fd)
        /\ IF ~vote_fresh(v)
           THEN UNCHANGED <<fdMember, peers, total, vote>>
           ELSE /\ prefs' = With(prefs, v.member, v.pref)
                /\ batch' = Batched(v)
                /\ fdMember' = With(fdMember, fd, v.member)
                /\ IF twice
                   THEN /\ slashed' = slashed \cup {v.member}
                        /\ peers' = Silenced(bound, v.member)
                        /\ total' = (total - SumFunction([i \in Voice(bound, v.member) |->
                                                            bound[i].weight])) % Wrap
                        /\ UNCHANGED evidence
                   ELSE /\ evidence' = With(evidence, key, IF key \in DOMAIN evidence
                                                           THEN evidence[key] ELSE v.pref)
                        /\ peers' = bound
                        /\ UNCHANGED <<slashed, total>>
                /\ bonds' = [bonds EXCEPT ![v.member] =
                               IF burnt = <<>> THEN Seeded(burnt) ELSE burnt]
        /\ UNCHANGED <<fds, remote, fdWeight, opens, found, mssc, receipts>>

\* Mutant: the last receipt may be repeated.
Advances_OrRepeats(rd, last) == rd >= last

\* The anti-replay rule of receipts.
Advances(rd, last) == rd > last

\* 0x0A: an uptime receipt for the member it names; its round must be past
\* the last one's.
HandleUptime(fd, m, rd) ==
    LET last == IF m \in DOMAIN receipts THEN receipts[m].last ELSE -1
    IN  /\ Admit(fd)
        /\ receipts' = IF ~Advances(rd, last) THEN receipts
                       ELSE With(receipts, m,
                                 [count |-> 1 + (IF m \in DOMAIN receipts
                                                 THEN receipts[m].count ELSE 0),
                                  last |-> rd])
        /\ UNCHANGED <<fds, remote, fdWeight, fdMember, opens, found, peers, total, mssc, vote>>

\* 0x09: an address not yet known is kept and, below MAX_PEERS, dialed; the
\* dial may fail.
HandleAnnounce(fd, p) ==
    /\ Admit(fd)
    /\ found' = found \cup {p}
    /\ \/ /\ p \notin found /\ Cardinality(fds) < MaxPeers
          /\ \E dfd \in Fds :
               /\ Opened(p, dfd)
               /\ fdWeight' = With(fdWeight, dfd, DefaultWeight)
          /\ peers' = Append(peers, [port |-> PortOf(p), weight |-> DefaultWeight,
                                     member |-> 0])
          /\ total' = (total + DefaultWeight) % Wrap
       \/ UNCHANGED <<fds, remote, fdWeight, opens, peers, total>>
    /\ UNCHANGED <<fdMember, mssc, vote, receipts>>

---------------------------------------------------------------------------
\* One pass of the one-second timer: the reconnect timer may fire on a node
\* without peers, then the tick and, if it suspended the node, the breaker.
Redial ==
    \/ /\ fds = {}
       /\ \E p \in SeedPeer, fd \in Fds : Opened(p, fd) /\
            peers' = Append(peers, [port |-> PortOf(p), weight |-> DefaultWeight,
                                    member |-> 0])
       /\ total' = (total + DefaultWeight) % Wrap
       /\ redials' = redials + 1
    \/ UNCHANGED <<fds, remote, opens, peers, total, redials>>

Timer ==
    /\ mssc.rounds < MaxRound
    /\ Redial
    /\ IF prefs = Empty THEN UNCHANGED mssc ELSE mssc' \in breaker_tick(tick)
    /\ batch' = IF Cardinality(DOMAIN batch) > BatchCap THEN Empty ELSE batch
    /\ UNCHANGED <<signed, fdWeight, fdMember, bucket, bans, found, prefs, evidence,
                   slashed, bonds, receipts, epoch>>

\* Mutant: the votes of the closed epoch are kept.
CloseEpoch_KeepsVotes ==
    /\ epoch < MaxEpoch
    /\ epoch' = epoch + 1
    /\ batch' = Empty
    /\ UNCHANGED <<signed, conn, bans, found, peers, total, mssc, prefs, evidence,
                   slashed, bonds, receipts, redials>>

\* Mutant: the pending batches of the closed epoch are kept.
CloseEpoch_KeepsBatches ==
    /\ epoch < MaxEpoch
    /\ epoch' = epoch + 1
    /\ prefs' = Empty
    /\ UNCHANGED <<signed, conn, bans, found, peers, total, mssc, batch, evidence,
                   slashed, bonds, receipts, redials>>

\* The epoch closes: reset_epoch_ceremony forgets the votes and the batches.
CloseEpoch ==
    /\ epoch < MaxEpoch
    /\ epoch' = epoch + 1
    /\ prefs' = Empty /\ batch' = Empty
    /\ UNCHANGED <<signed, conn, bans, found, peers, total, mssc, evidence,
                   slashed, bonds, receipts, redials>>

Next ==
    \/ \E m \in Peer : Accept(m) \/ BanExpires(m)
    \/ \E fd \in fds : RateExceeded(fd) \/ Closed(fd)
    \/ \E fd \in fds : \E v \in signed : HandleVote(fd, v)
    \/ \E fd \in fds : \E m \in Reporter, rd \in StatedRounds : HandleUptime(fd, m, rd)
    \/ \E fd \in fds : \E p \in Announced : HandleAnnounce(fd, p)
    \/ Timer
    \/ CloseEpoch

Spec == Init /\ [][Next]_fleetVars
---------------------------------------------------------------------------
\* Every variable of the peer table and the consensus loop has its type.
TypeOK ==
    /\ signed \subseteq Vote
    /\ fds \subseteq Fds
    /\ remote \in [fds -> Peer]
    /\ \E D \in SUBSET Fds : fdWeight \in [D -> {DefaultWeight}]
    /\ \E D \in SUBSET Fds : fdMember \in [D -> Peer]
    /\ \E D \in SUBSET Fds : bucket \in [D -> 1 .. MsgsPerWindow]
    /\ bans \subseteq Peer /\ found \subseteq Peer /\ slashed \subseteq Peer
    /\ peers \in Seq([port : Nat, weight : Nat, member : Peer \cup {0}])
    /\ total \in 0 .. Wrap - 1
    /\ mssc \in [pref : Pref, confidence : Nat, stall : Nat, rounds : 0 .. MaxRound,
                 state : {"Active", "Finalized", "Suspended"}]
    /\ \E D \in SUBSET Peer : prefs \in [D -> Pref]
    /\ \E D \in SUBSET ((0 .. MaxRound) \X Pref) : batch \in [D -> 0 .. MaxEpoch]
    /\ \E D \in SUBSET (Peer \X (0 .. MaxRound)) : evidence \in [D -> Pref]
    /\ bonds \in [Peer -> Seq(Bond)]
    /\ \E D \in SUBSET Peer :
         receipts \in [D -> [count : Nat, last : 0 .. MaxRound]]
    /\ epoch \in 0 .. MaxEpoch
    /\ opens \in 0 .. MaxOpens /\ redials \in 0 .. MaxOpens

\* Teardown forgets (DEF-397): whatever is kept under a descriptor number
\* belongs to the connection that has the number now, so a reused number
\* inherits no weight, identity or rate window.
TeardownForgets ==
    DOMAIN fdWeight \cup DOMAIN fdMember \cup DOMAIN bucket \subseteq fds

\* The tick counts only statements of the epoch the node is in (DEF-393,
\* DEF-398): every vote it holds was signed by that member for this epoch,
\* however late, repeated or relayed it came.
VoiceCurrent ==
    \A m \in DOMAIN prefs :
        \E v \in signed : v.member = m /\ v.epoch = epoch /\ v.pref = prefs[m]

\* One pairing verifies a batch only over a shared message (DEC-287): the key
\* of a batch is the round and the preference, and what else the message
\* holds, its epoch, is that of any vote that can still join.
BatchesMatch == \A key \in DOMAIN batch : batch[key] = epoch

\* "a removed connection must not keep a voice via stale records"
\* (epoch_node.cpp, DEF-395): every vote the tick counts is that of a member
\* with an open connection bound to it.  The code does not keep this: a vote
\* relayed on another member's connection stays.
VoiceBacked ==
    \A m \in DOMAIN prefs : \E fd \in DOMAIN fdMember : fdMember[fd] = m

\* "a vote is state for ONE epoch ... and a bounded round window. Outside the
\* window it is a replay, not an opinion" (msscloop.hpp, DEF-393): every vote
\* the tick counts is within one round of the node's.  The code does not keep
\* this: freshness is tested when a vote arrives.
VoiceInWindow ==
    \A m \in DOMAIN prefs :
        \E v \in signed : v.member = m /\ v.pref = prefs[m] /\ vote_fresh(v)

\* Slashing is sound: only a member that signed two preferences for one
\* round is ever slashed, so a member that keeps the protocol loses nothing,
\* however its votes are delayed, repeated or spread over connections.
SlashSound ==
    \A m \in Peer :
        m \in slashed \/ (\E i \in DOMAIN bonds[m] : bonds[m][i].state = "SLASHED") =>
            \E u, v \in signed : /\ u.member = m /\ v.member = m
                                 /\ u.round = v.round /\ u.pref # v.pref

\* The denominator of the floor test: until somebody is slashed, total_weight
\* is the node's own weight, the built-in table's, the default weight of every
\* weighed connection and of every redialed record; joins and departures in
\* any order lose or invent nothing.
TotalExact ==
    slashed = {} =>
        total = BootWeight + DefaultWeight * (Cardinality(DOMAIN fdWeight) + redials)

\* Uptime cannot be inflated by repeating receipts: a member has at most one
\* credited receipt per round up to its last.
ReceiptsDistinct ==
    \A m \in DOMAIN receipts : receipts[m].count <= receipts[m].last + 1

\* "on suspension the breaker resolves the REAL conflict set" (epoch_node.cpp,
\* DEC-274): no pass of the timer leaves the node suspended.  The code does
\* not keep this against votes for the all-zero digest.
NeverLeftSuspended == mssc.state # "Suspended"

\* The breaker ends every suspension in the pass that began it, if no vote
\* names the all-zero digest: a round is missed only over a preference that
\* differs from the node's own, which is then a second candidate.
SuspensionEnds == (\A v \in signed : v.pref # 0) => NeverLeftSuspended

\* "excise the consensus voice ... the adversary leaves numerator AND
\* denominator": a slashed member weighs nothing in the tick.
SlashedVoiceGone == \A m \in slashed : weight_of(peers, m) = 0
=============================================================================
