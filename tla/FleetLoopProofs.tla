-------------------------- MODULE FleetLoopProofs ---------------------------
(***************************************************************************)
(* What holds of the consensus loop and of the weights it divides by, for  *)
(* every fleet: types, the exact denominator, and the breaker.             *)
(***************************************************************************)
EXTENDS FleetProofs, FiniteSums, SequenceTheorems

\* f maps some elements of X into Y.
Partial(f, X, Y) == \E D \in SUBSET X : f \in [D -> Y]

LEMMA PartialEmpty == ASSUME NEW X, NEW Y PROVE Partial(Empty, X, Y)
<1>1. Empty \in [{} -> Y]
  BY DEF Empty
<1> QED BY <1>1 DEF Partial

LEMMA PartialWith ==
    ASSUME NEW X, NEW Y, NEW f, Partial(f, X, Y), NEW x \in X, NEW y \in Y
    PROVE  Partial(With(f, x, y), X, Y)
<1>1. PICK D \in SUBSET X : f \in [D -> Y]
  BY DEF Partial
<1>2. With(f, x, y) \in [D \cup {x} -> Y]
  BY <1>1 DEF With
<1> QED BY <1>2 DEF Partial

LEMMA PartialWithout ==
    ASSUME NEW X, NEW Y, NEW f, Partial(f, X, Y), NEW x
    PROVE  Partial(Without(f, x), X, Y)
<1>1. PICK D \in SUBSET X : f \in [D -> Y]
  BY DEF Partial
<1>2. Without(f, x) \in [D \ {x} -> Y]
  BY <1>1 DEF Without
<1> QED BY <1>2 DEF Partial

\* The constants, each assumption by itself.
LEMMA Constants ==
    /\ Peer \subseteq Nat \ {0} /\ IsFiniteSet(Peer)
    /\ SeedPeer \subseteq Peer /\ Announced \subseteq Peer /\ Reporter \subseteq Peer
    /\ Pref \subseteq Nat /\ Pref \ {0} # {}
    /\ Fds \subseteq Nat /\ IsFiniteSet(Fds)
    /\ SelfWeight \in Nat \ {0} /\ DefaultWeight \in Nat \ {0}
    /\ MsgsPerWindow \in Nat \ {0}
    /\ Alpha \in Nat /\ Phi \in Nat /\ Beta \in Nat /\ StallLimit \in Nat
    /\ MaxRound \in Nat /\ MaxEpoch \in Nat /\ MaxOpens \in Nat
    /\ Wrap \in Nat /\ Wrap > 0
    /\ StatedRounds \subseteq 0 .. MaxRound
    /\ \A p \in Peer : PortOf(p) \in Nat /\ PortOf(p) \notin Fds
BY FleetAssumption

\* The weight at boot is a natural that leaves room for every connection.
LEMMA BootFits ==
    /\ BootWeight \in Nat /\ SelfWeight <= BootWeight
    /\ BootWeight + DefaultWeight * MaxOpens < Wrap
<1> DEFINE w == [i \in DOMAIN Static |-> Static[i].weight]
<1>1. Static \in Seq([port : Nat, weight : Nat, member : Peer])
  BY FleetAssumption
<1>2. DOMAIN Static = 1 .. Len(Static) /\ Len(Static) \in Nat
  BY <1>1
<1>3. \A i \in DOMAIN Static : w[i] \in Nat
  <2>1. \A i \in 1 .. Len(Static) : Static[i] \in [port : Nat, weight : Nat, member : Peer]
    BY <1>1, ElementOfSeq
  <2> QED BY <1>2, <2>1
<1>4. IsFiniteSet(DOMAIN w)
  BY <1>2, FS_Interval
<1>5. SumFunction(w) \in Nat
  BY <1>3, <1>4, SumType DEF SumFunction
<1>6. BootWeight = SelfWeight + SumFunction(w)
  BY DEF BootWeight
<1>7. BootWeight + DefaultWeight * MaxOpens < Wrap
  BY FleetAssumption
<1> HIDE DEF w
<1> QED BY <1>5, <1>6, <1>7, Constants

---------------------------------------------------------------------------
\* TypeOK in parts: the connection tables, the votes and what follows from
\* them, the books on the side, the sampling list, the loop.
ConnType ==
    /\ fds \subseteq Fds
    /\ remote \in [fds -> Peer]
    /\ Partial(fdWeight, Fds, {DefaultWeight})
    /\ Partial(fdMember, Fds, Peer)
    /\ Partial(bucket, Fds, 1 .. MsgsPerWindow)
VoteType ==
    /\ signed \subseteq Vote
    /\ Partial(prefs, Peer, Pref)
    /\ Partial(batch, (0 .. MaxRound) \X Pref, 0 .. MaxEpoch)
    /\ Partial(evidence, Peer \X (0 .. MaxRound), Pref)
    /\ slashed \subseteq Peer
    /\ bonds \in [Peer -> Seq(Bond)]
BookType ==
    /\ bans \subseteq Peer /\ found \subseteq Peer
    /\ Partial(receipts, Peer, [count : Nat, last : 0 .. MaxRound])
    /\ epoch \in 0 .. MaxEpoch
PeerRecord(W) == [port : Nat, weight : W, member : Peer \cup {0}]
ListType == peers \in Seq(PeerRecord(Nat)) /\ total \in 0 .. Wrap - 1
LoopState == [pref : Pref, confidence : Nat, stall : Nat, rounds : 0 .. MaxRound,
              state : {"Active", "Finalized", "Suspended"}]
LoopType == mssc \in LoopState
\* Each connection opened after the boot was weighed or redialed once.
OpensType ==
    /\ opens \in 0 .. MaxOpens /\ redials \in Nat
    /\ Cardinality(DOMAIN fdWeight) + redials <= opens

Types == ConnType /\ VoteType /\ BookType /\ ListType /\ LoopType /\ OpensType

\* Finitely many connections are weighed.
LEMMA WeighedFinite ==
    ASSUME ConnType PROVE IsFiniteSet(DOMAIN fdWeight) /\ Cardinality(DOMAIN fdWeight) \in Nat
<1>1. DOMAIN fdWeight \subseteq Fds
  BY DEF ConnType, Partial
<1> QED BY <1>1, Constants, FS_Subset, FS_CardinalityType

LEMMA TypesImplyTypeOK == Types => TypeOK
<1> SUFFICES ASSUME Types PROVE TypeOK
  OBVIOUS
<1>1. opens \in 0 .. MaxOpens /\ redials \in 0 .. MaxOpens
  <2>1. Cardinality(DOMAIN fdWeight) \in Nat
    BY WeighedFinite DEF Types
  <2> QED BY <2>1, Constants DEF Types, OpensType
<1> QED BY <1>1 DEF Types, ConnType, VoteType, BookType, ListType, LoopType, TypeOK, Partial,
           PeerRecord, LoopState

---------------------------------------------------------------------------
\* A rate window that is let through counts from one to the limit.
LEMMA AdmitWindow ==
    ASSUME ConnType, NEW fd \in fds, Admit(fd)
    PROVE  Partial(bucket', Fds, 1 .. MsgsPerWindow)
<1>1. PICK expired \in BOOLEAN : /\ Count(fd, expired) <= MsgsPerWindow
                                 /\ bucket' = With(bucket, fd, Count(fd, expired))
  BY DEF Admit
<1>2. PICK D \in SUBSET Fds : bucket \in [D -> 1 .. MsgsPerWindow]
  BY DEF ConnType, Partial
<1>3. Count(fd, expired) \in 1 .. MsgsPerWindow
  <2>1. CASE expired \/ fd \notin DOMAIN bucket
    BY <2>1, Constants DEF Count
  <2>2. CASE ~(expired \/ fd \notin DOMAIN bucket)
    <3>1. bucket[fd] \in 1 .. MsgsPerWindow
      BY <1>2, <2>2
    <3>2. Count(fd, expired) = bucket[fd] + 1
      BY <2>2 DEF Count
    <3> QED BY <1>1, <3>1, <3>2, Constants
  <2> QED BY <2>1, <2>2
<1>4. fd \in Fds
  BY DEF ConnType
<1> QED BY <1>1, <1>3, <1>4, PartialWith DEF ConnType

LEMMA OpenedConn ==
    ASSUME ConnType, NEW p \in Peer, NEW fd \in Fds, Opened(p, fd),
           fdWeight' \in {fdWeight, With(fdWeight, fd, DefaultWeight)}, fdMember' = fdMember,
           Partial(bucket', Fds, 1 .. MsgsPerWindow)
    PROVE  ConnType'
<1>1. fds' = fds \cup {fd} /\ remote' = With(remote, fd, p)
  BY DEF Opened
<1>2. fds' \subseteq Fds /\ remote' \in [fds' -> Peer]
  BY <1>1 DEF ConnType, With
<1>3. Partial(fdWeight', Fds, {DefaultWeight})
  <2>1. DefaultWeight \in {DefaultWeight}
    OBVIOUS
  <2> QED BY <2>1, PartialWith DEF ConnType
<1> QED BY <1>2, <1>3 DEF ConnType

LEMMA DisconnectConn ==
    ASSUME ConnType, NEW fd \in fds, Disconnect(fd)
    PROVE  ConnType'
<1>1. /\ fds' = fds \ {fd} /\ remote' = Without(remote, fd)
      /\ fdWeight' = Without(fdWeight, fd) /\ fdMember' = Without(fdMember, fd)
      /\ bucket' = Without(bucket, fd)
  BY DEF Disconnect, peer_forget
<1>2. fds' \subseteq Fds /\ remote' \in [fds' -> Peer]
  BY <1>1 DEF ConnType, Without
<1> QED BY <1>1, <1>2, PartialWithout DEF ConnType

\* The tables under the descriptors keep their types.
LEMMA ConnTyped == ConnType /\ VoteType /\ [Next]_fleetVars => ConnType'
<1> SUFFICES ASSUME ConnType, VoteType, [Next]_fleetVars PROVE ConnType'
  OBVIOUS
<1>1. CASE UNCHANGED <<fds, remote, fdWeight, fdMember, bucket>>
  BY <1>1 DEF ConnType
<1>2. ASSUME NEW m \in Peer, Accept(m) PROVE ConnType'
  <2>1. PICK fd \in Fds : Opened(m, fd) /\ fdWeight' = With(fdWeight, fd, DefaultWeight)
    BY <1>2 DEF Accept
  <2>2. UNCHANGED <<fdMember, bucket>>
    BY <1>2 DEF Accept
  <2> QED BY <2>1, <2>2, OpenedConn DEF ConnType
<1>3. ASSUME NEW m \in Peer, BanExpires(m) PROVE ConnType'
  BY <1>1, <1>3 DEF BanExpires, conn
<1>4. ASSUME NEW fd \in fds, RateExceeded(fd) \/ Closed(fd) PROVE ConnType'
  BY <1>4, DisconnectConn DEF RateExceeded, Closed
<1>5. ASSUME NEW fd \in fds, NEW v \in signed, HandleVote(fd, v) PROVE ConnType'
  <2>1. Partial(bucket', Fds, 1 .. MsgsPerWindow)
    BY <1>5, AdmitWindow DEF HandleVote
  <2>2. UNCHANGED <<fds, remote, fdWeight>> /\ fdMember' \in {fdMember, With(fdMember, fd, v.member)}
    BY <1>5 DEF HandleVote
  <2>3. fd \in Fds /\ v.member \in Peer
    BY DEF ConnType, VoteType, Vote
  <2>4. Partial(fdMember', Fds, Peer)
    BY <2>2, <2>3, PartialWith DEF ConnType
  <2> QED BY <2>1, <2>2, <2>4 DEF ConnType
<1>6. ASSUME NEW fd \in fds, NEW m \in Reporter, NEW rd \in StatedRounds, HandleUptime(fd, m, rd) PROVE ConnType'
  <2>1. Partial(bucket', Fds, 1 .. MsgsPerWindow)
    BY <1>6, AdmitWindow DEF HandleUptime
  <2> QED BY <1>6, <2>1 DEF HandleUptime, ConnType
<1>7. ASSUME NEW fd \in fds, NEW p \in Announced, HandleAnnounce(fd, p) PROVE ConnType'
  <2>1. Partial(bucket', Fds, 1 .. MsgsPerWindow) /\ fdMember' = fdMember
    BY <1>7, AdmitWindow DEF HandleAnnounce
  <2>2. \/ UNCHANGED <<fds, remote, fdWeight>>
        \/ \E x \in Fds : Opened(p, x) /\ fdWeight' = With(fdWeight, x, DefaultWeight)
    BY <1>7 DEF HandleAnnounce
  <2>3. p \in Peer
    BY Constants
  <2>4. CASE UNCHANGED <<fds, remote, fdWeight>>
    BY <2>1, <2>4 DEF ConnType
  <2> QED BY <2>1, <2>2, <2>3, <2>4, OpenedConn
<1>8. CASE Timer
  <2>1. UNCHANGED <<fdWeight, fdMember, bucket>>
    BY <1>8 DEF Timer
  <2>2. UNCHANGED <<fds, remote>> \/ \E p \in SeedPeer, fd \in Fds : Opened(p, fd)
    BY <1>8 DEF Timer, Redial
  <2>3. SeedPeer \subseteq Peer
    BY Constants
  <2> QED BY <1>1, <2>1, <2>2, <2>3, OpenedConn DEF ConnType
<1>9. CASE CloseEpoch \/ UNCHANGED fleetVars
  BY <1>1, <1>9 DEF CloseEpoch, conn, fleetVars
<1> QED BY <1>2, <1>3, <1>4, <1>5, <1>6, <1>7, <1>8, <1>9 DEF Next

---------------------------------------------------------------------------
\* A sequence over S stays one when an element is removed.
LEMMA RemoveAtType ==
    ASSUME NEW S, NEW s \in Seq(S), NEW i \in 1 .. Len(s)
    PROVE  RemoveAt(s, i) \in Seq(S)
<1>1. SubSeq(s, 1, i - 1) \in Seq(S)
  <2>1. \A j \in 1 .. i - 1 : s[j] \in S
    BY ElementOfSeq
  <2> QED BY <2>1, SubSeqProperties
<1>2. SubSeq(s, i + 1, Len(s)) \in Seq(S)
  <2>1. \A j \in i + 1 .. Len(s) : s[j] \in S
    BY ElementOfSeq
  <2> QED BY <2>1, SubSeqProperties
<1> QED BY <1>1, <1>2, ConcatProperties DEF RemoveAt

\* A function over the indices of a sequence that has values in S is a
\* sequence over S.
LEMMA MapType ==
    ASSUME NEW A, NEW S, NEW s \in Seq(A), NEW f, DOMAIN f = DOMAIN s,
           f = [i \in DOMAIN s |-> f[i]], \A i \in DOMAIN s : f[i] \in S
    PROVE  f \in Seq(S)
<1>1. DOMAIN s = 1 .. Len(s) /\ Len(s) \in Nat
  OBVIOUS
<1>2. f \in [1 .. Len(s) -> S]
  BY <1>1
<1> QED BY <1>1, <1>2

\* Binding a record to its member and silencing a member change neither the
\* number of records nor, but for zeroes, their weights.
LEMMA BoundType ==
    ASSUME NEW W, 0 \in W, NEW ps \in Seq(PeerRecord(W)), NEW fd, NEW m \in Peer
    PROVE  Bound(ps, fd, m) \in Seq(PeerRecord(W)) /\ Silenced(ps, m) \in Seq(PeerRecord(W))
<1>1. \A i \in DOMAIN ps : ps[i] \in PeerRecord(W)
  OBVIOUS
<1>2. ASSUME NEW i \in DOMAIN ps PROVE Bound(ps, fd, m)[i] \in PeerRecord(W)
  <2>1. [ps[i] EXCEPT !.member = m] \in PeerRecord(W)
    BY <1>1 DEF PeerRecord
  <2> QED BY <1>1, <2>1 DEF Bound
<1>3. ASSUME NEW i \in DOMAIN ps PROVE Silenced(ps, m)[i] \in PeerRecord(W)
  <2>1. [ps[i] EXCEPT !.weight = 0] \in PeerRecord(W)
    BY <1>1 DEF PeerRecord
  <2> QED BY <1>1, <2>1 DEF Silenced
<1>4. /\ DOMAIN Bound(ps, fd, m) = DOMAIN ps
      /\ Bound(ps, fd, m) = [i \in DOMAIN ps |-> Bound(ps, fd, m)[i]]
  BY DEF Bound
<1>5. /\ DOMAIN Silenced(ps, m) = DOMAIN ps
      /\ Silenced(ps, m) = [i \in DOMAIN ps |-> Silenced(ps, m)[i]]
  BY DEF Silenced
<1>6. Bound(ps, fd, m) \in Seq(PeerRecord(W))
  <2> DEFINE f == Bound(ps, fd, m)
  <2> HIDE DEF f
  <2>1. DOMAIN f = DOMAIN ps /\ f = [i \in DOMAIN ps |-> f[i]] /\ \A i \in DOMAIN ps : f[i] \in PeerRecord(W)
    BY <1>2, <1>4 DEF f
  <2>2. f \in Seq(PeerRecord(W))
    BY <2>1, MapType
  <2> QED BY <2>2 DEF f
<1>7. Silenced(ps, m) \in Seq(PeerRecord(W))
  <2> DEFINE f == Silenced(ps, m)
  <2> HIDE DEF f
  <2>1. DOMAIN f = DOMAIN ps /\ f = [i \in DOMAIN ps |-> f[i]] /\ \A i \in DOMAIN ps : f[i] \in PeerRecord(W)
    BY <1>3, <1>5 DEF f
  <2>2. f \in Seq(PeerRecord(W))
    BY <2>1, MapType
  <2> QED BY <2>2 DEF f
<1> QED BY <1>6, <1>7

\* The sampling list holds weights of W only, if the default weight is one.
LEMMA ListTyped ==
    ASSUME NEW W, 0 \in W, DefaultWeight \in W,
           ConnType, VoteType, peers \in Seq(PeerRecord(W)), [Next]_fleetVars
    PROVE  peers' \in Seq(PeerRecord(W))
<1>1. CASE UNCHANGED peers
  BY <1>1
<1>2. \A port \in Nat : [port |-> port, weight |-> DefaultWeight, member |-> 0] \in PeerRecord(W)
  BY DEF PeerRecord
<1>3. \A r \in PeerRecord(W) : Append(peers, r) \in Seq(PeerRecord(W))
  BY AppendProperties
<1>4. Fds \subseteq Nat /\ SeedPeer \subseteq Peer /\ Announced \subseteq Peer
      /\ \A p \in Peer : PortOf(p) \in Nat
  BY Constants
<1>5. ASSUME NEW m \in Peer, Accept(m) PROVE peers' \in Seq(PeerRecord(W))
  <2>1. PICK fd \in Fds : peers' = Append(peers, [port |-> fd, weight |-> DefaultWeight, member |-> 0])
    BY <1>5 DEF Accept
  <2> QED BY <1>2, <1>3, <1>4, <2>1
<1>6. ASSUME NEW fd \in fds, RateExceeded(fd) \/ Closed(fd) PROVE peers' \in Seq(PeerRecord(W))
  <2> DEFINE lost == IF fd \in DOMAIN fdMember THEN fdMember[fd] ELSE 0
             gone == {i \in DOMAIN peers : \/ lost # 0 /\ peers[i].member = lost
                                           \/ peers[i].member = 0 /\ peers[i].port = fd}
  <2>1. peers' = IF gone = {} THEN peers ELSE RemoveAt(peers, Min(gone))
    BY <1>6 DEF RateExceeded, Closed, Disconnect
  <2>2. gone \subseteq 1 .. Len(peers) /\ Len(peers) \in Nat
    OBVIOUS
  <2> HIDE DEF gone
  <2>3. gone \subseteq Nat
    BY <2>2
  <2>4. gone # {} => Min(gone) \in 1 .. Len(peers)
    BY <2>2, <2>3, MinNat
  <2> QED BY <2>1, <2>4, RemoveAtType
<1>7. ASSUME NEW fd \in fds, NEW v \in signed, HandleVote(fd, v) PROVE peers' \in Seq(PeerRecord(W))
  <2>1. v.member \in Peer
    BY DEF VoteType, Vote
  <2>2. \/ peers' = peers \/ peers' = Bound(peers, fd, v.member)
        \/ peers' = Silenced(Bound(peers, fd, v.member), v.member)
    BY <1>7 DEF HandleVote
  <2> QED BY <2>1, <2>2, BoundType
<1>8. ASSUME NEW fd \in fds, NEW p \in Announced, HandleAnnounce(fd, p) PROVE peers' \in Seq(PeerRecord(W))
  <2>1. peers' = peers \/ peers' = Append(peers, [port |-> PortOf(p), weight |-> DefaultWeight, member |-> 0])
    BY <1>8 DEF HandleAnnounce
  <2> QED BY <1>2, <1>3, <1>4, <2>1
<1>9. CASE Timer
  <2>1. \/ peers' = peers
        \/ \E p \in SeedPeer : peers' = Append(peers, [port |-> PortOf(p), weight |-> DefaultWeight, member |-> 0])
    BY <1>9 DEF Timer, Redial
  <2> QED BY <1>2, <1>3, <1>4, <2>1
<1>10. ASSUME NEW fd \in fds, NEW m \in Reporter, NEW rd \in StatedRounds, HandleUptime(fd, m, rd) PROVE peers' = peers
  BY <1>10 DEF HandleUptime
<1>11. ASSUME NEW m \in Peer, BanExpires(m) PROVE peers' = peers
  BY <1>11 DEF BanExpires
<1>12. CASE CloseEpoch \/ UNCHANGED fleetVars
  BY <1>1, <1>12 DEF CloseEpoch, fleetVars
<1> QED BY <1>1, <1>5, <1>6, <1>7, <1>8, <1>9, <1>10, <1>11, <1>12 DEF Next

---------------------------------------------------------------------------
\* What a vote writes under its member has its type.
LEMMA StakeType ==
    ASSUME NEW bs \in Seq(Bond)
    PROVE  /\ slash_equivocation(bs) \in Seq(Bond)
           /\ bs = <<>> => Seeded(bs) \in Seq(Bond)
<1>1. slash_equivocation(bs) \in Seq(Bond)
  <2> DEFINE f == slash_equivocation(bs)
  <2>1. ASSUME NEW i \in DOMAIN bs PROVE f[i] \in Bond
    <3>1. bs[i] \in Bond
      OBVIOUS
    <3>2. [bs[i] EXCEPT !.amount = 0, !.state = "SLASHED"] \in Bond
      BY <3>1 DEF Bond
    <3> QED BY <3>1, <3>2 DEF slash_equivocation
  <2>2. DOMAIN f = DOMAIN bs /\ f = [i \in DOMAIN bs |-> f[i]]
    BY DEF slash_equivocation
  <2> HIDE DEF f
  <2>3. f \in Seq(Bond)
    BY <2>1, <2>2, MapType
  <2> QED BY <2>3 DEF f
<1>2. ASSUME bs = <<>> PROVE Seeded(bs) \in Seq(Bond)
  <2> DEFINE none == [i \in DOMAIN bs |-> [bs[i] EXCEPT !.state = IF @ = "BONDING" THEN "ACTIVE" ELSE @]]
             b == [amount |-> 1, deposit |-> 0, state |-> "ACTIVE"]
  <2>1. none = <<>>
    BY <1>2
  <2>2. b \in Bond
    BY DEF Bond
  <2>3. Seeded(bs) = Append(none, b)
    BY DEF Seeded
  <2> HIDE DEF none, b
  <2> QED BY <2>1, <2>2, <2>3, AppendProperties, EmptySeq
<1> QED BY <1>1, <1>2

LEMMA VoteVoteType ==
    ASSUME VoteType, NEW fd \in fds, NEW v \in signed, HandleVote(fd, v)
    PROVE  VoteType'
<1> DEFINE key == StatementKey(v)
           twice == key \in DOMAIN evidence /\ evidence[key] # v.pref
           burnt == IF twice THEN slash_equivocation(bonds[v.member]) ELSE bonds[v.member]
           stake == IF burnt = <<>> THEN Seeded(burnt) ELSE burnt
<1>0. signed' = signed
  BY DEF HandleVote, Admit
<1>1. CASE UNCHANGED vote
  BY <1>0, <1>1 DEF vote, VoteType
<1>2. CASE ~UNCHANGED vote
  <2>1. vote_fresh(v)
    BY <1>2 DEF HandleVote
  <2>2. /\ bonds' = [bonds EXCEPT ![v.member] = stake]
        /\ slashed' = IF twice THEN slashed \cup {v.member} ELSE slashed
        /\ evidence' = IF twice THEN evidence
                       ELSE With(evidence, key, IF key \in DOMAIN evidence THEN evidence[key] ELSE v.pref)
        /\ prefs' = With(prefs, v.member, v.pref)
        /\ batch' = Batched(v)
    BY <2>1 DEF HandleVote
  <2>3. v.member \in Peer /\ v.pref \in Pref /\ v.round \in 0 .. MaxRound /\ v.epoch \in 0 .. MaxEpoch
    BY Constants DEF VoteType, Vote
  <2>4. bonds[v.member] \in Seq(Bond)
    BY <2>3 DEF VoteType
  <2>5. stake \in Seq(Bond)
    BY <2>4, StakeType
  <2>6. key \in Peer \X (0 .. MaxRound)
    BY <2>3 DEF StatementKey
  <2>7. key \in DOMAIN evidence => evidence[key] \in Pref
    BY DEF VoteType, Partial
  <2> HIDE DEF stake, burnt, twice, key
  <2>8. Partial(evidence', Peer \X (0 .. MaxRound), Pref)
    BY <2>2, <2>3, <2>6, <2>7, PartialWith DEF VoteType
  <2>9. Partial(prefs', Peer, Pref)
    BY <2>2, <2>3, PartialWith DEF VoteType
  <2>10. bonds' \in [Peer -> Seq(Bond)]
    BY <2>2, <2>3, <2>5 DEF VoteType
  <2>11. slashed' \subseteq Peer
    BY <2>2, <2>3 DEF VoteType
  <2>12. Partial(batch', (0 .. MaxRound) \X Pref, 0 .. MaxEpoch)
    <3> DEFINE b == <<v.round, v.pref>>
    <3>1. b \in (0 .. MaxRound) \X Pref
      BY <2>3
    <3>2. Batched(v) \in {batch, Without(batch, b), With(batch, b, v.epoch)}
      BY DEF Batched
    <3> HIDE DEF b
    <3> DEFINE K == (0 .. MaxRound) \X Pref
               E == 0 .. MaxEpoch
    <3>3. Partial(batch, K, E) /\ b \in K /\ v.epoch \in E
      BY <2>3, <3>1 DEF VoteType
    <3> HIDE DEF K, E
    <3>4. Partial(Without(batch, b), K, E) /\ Partial(With(batch, b, v.epoch), K, E)
      BY <3>3, PartialWith, PartialWithout
    <3>5. Partial(batch', K, E)
      BY <2>2, <3>2, <3>3, <3>4
    <3> QED BY <3>5 DEF K, E
  <2> QED BY <1>0, <2>8, <2>9, <2>10, <2>11, <2>12 DEF VoteType
<1> QED BY <1>1, <1>2

\* Votes, evidence, verdicts and stake keep their types.
LEMMA VoteTyped == ASSUME VoteType, [Next]_fleetVars PROVE VoteType'
<1>1. CASE UNCHANGED <<signed, prefs, batch, evidence, slashed, bonds>>
  BY <1>1 DEF VoteType
<1>2. ASSUME NEW fd \in fds, NEW v \in signed, HandleVote(fd, v) PROVE VoteType'
  BY <1>2, VoteVoteType
<1>3. ASSUME NEW fd \in fds, RateExceeded(fd) \/ Closed(fd) PROVE VoteType'
  <2>1. UNCHANGED <<signed, batch, evidence, slashed, bonds>> /\ \E x : prefs' = Without(prefs, x)
    BY <1>3 DEF RateExceeded, Closed, Disconnect
  <2> QED BY <2>1, PartialWithout DEF VoteType
<1>4. CASE CloseEpoch
  <2>1. UNCHANGED <<signed, evidence, slashed, bonds>> /\ prefs' = Empty /\ batch' = Empty
    BY <1>4 DEF CloseEpoch
  <2> QED BY <2>1, PartialEmpty DEF VoteType
<1>5. ASSUME NEW m \in Peer, Accept(m) \/ BanExpires(m) PROVE VoteType'
  BY <1>1, <1>5 DEF Accept, BanExpires, vote
<1>6. ASSUME NEW fd \in fds, NEW m \in Reporter, NEW rd \in StatedRounds, HandleUptime(fd, m, rd) PROVE VoteType'
  BY <1>1, <1>6 DEF HandleUptime, Admit, vote
<1>7. ASSUME NEW fd \in fds, NEW p \in Announced, HandleAnnounce(fd, p) PROVE VoteType'
  BY <1>1, <1>7 DEF HandleAnnounce, Admit, vote
<1>8. CASE UNCHANGED fleetVars
  BY <1>1, <1>8 DEF fleetVars, vote
<1>9. CASE Timer
  <2>1. UNCHANGED <<signed, prefs, evidence, slashed, bonds>> /\ batch' \in {batch, Empty}
    BY <1>9 DEF Timer
  <2> QED BY <2>1, PartialEmpty DEF VoteType
<1> QED BY <1>2, <1>3, <1>4, <1>5, <1>6, <1>7, <1>8, <1>9 DEF Next

\* Bans, addresses, receipts and the epoch keep their types.
LEMMA BookTyped == ASSUME ConnType, BookType, [Next]_fleetVars PROVE BookType'
<1>1. CASE UNCHANGED <<bans, found, receipts, epoch>>
  BY <1>1 DEF BookType
<1>2. ASSUME NEW fd \in fds, RateExceeded(fd) \/ Closed(fd) PROVE BookType'
  <2>1. UNCHANGED <<found, receipts, epoch>> /\ bans' \in {bans, bans \cup {remote[fd]}}
    BY <1>2 DEF RateExceeded, Closed, Disconnect
  <2>2. remote[fd] \in Peer
    BY DEF ConnType
  <2> QED BY <2>1, <2>2 DEF BookType
<1>3. ASSUME NEW fd \in fds, NEW m \in Reporter, NEW rd \in StatedRounds, HandleUptime(fd, m, rd) PROVE BookType'
  <2> DEFINE n == 1 + (IF m \in DOMAIN receipts THEN receipts[m].count ELSE 0)
             r == [count |-> n, last |-> rd]
  <2>1. UNCHANGED <<bans, found, epoch>>
    BY <1>3 DEF HandleUptime, Admit
  <2>2. receipts' = receipts \/ receipts' = With(receipts, m, r)
    BY <1>3 DEF HandleUptime
  <2>3. m \in Peer
    BY Constants
  <2>4. PICK D \in SUBSET Peer : receipts \in [D -> [count : Nat, last : 0 .. MaxRound]]
    BY DEF BookType, Partial
  <2>5. n \in Nat
    <3>1. CASE m \in DOMAIN receipts
      <4>1. receipts[m] \in [count : Nat, last : 0 .. MaxRound]
        BY <2>4, <3>1
      <4> QED BY <3>1, <4>1
    <3>2. CASE m \notin DOMAIN receipts
      BY <3>2
    <3> QED BY <3>1, <3>2
  <2>6. rd \in 0 .. MaxRound
    BY Constants
  <2> HIDE DEF n
  <2>7. r \in [count : Nat, last : 0 .. MaxRound]
    BY <2>5, <2>6
  <2> HIDE DEF r
  <2> DEFINE R == [count : Nat, last : 0 .. MaxRound]
  <2>8. Partial(receipts, Peer, R)
    BY DEF BookType
  <2>9. Partial(receipts', Peer, R)
    <3> HIDE DEF R
    <3>1. r \in R
      BY <2>7 DEF R
    <3> QED BY <2>2, <2>3, <2>8, <3>1, PartialWith
  <2> QED BY <2>1, <2>9 DEF BookType
<1>4. ASSUME NEW fd \in fds, NEW p \in Announced, HandleAnnounce(fd, p) PROVE BookType'
  <2>1. UNCHANGED <<bans, receipts, epoch>> /\ found' = found \cup {p}
    BY <1>4 DEF HandleAnnounce, Admit
  <2>2. p \in Peer
    BY Constants
  <2> QED BY <2>1, <2>2 DEF BookType
<1>5. ASSUME NEW m \in Peer, Accept(m) \/ BanExpires(m) PROVE BookType'
  <2>1. UNCHANGED <<found, receipts, epoch>> /\ bans' \subseteq bans
    BY <1>5 DEF Accept, BanExpires
  <2> QED BY <2>1 DEF BookType
<1>6. ASSUME NEW fd \in fds, NEW v \in signed, HandleVote(fd, v) PROVE BookType'
  BY <1>1, <1>6 DEF HandleVote, Admit
<1>7. CASE CloseEpoch
  <2>1. UNCHANGED <<bans, found, receipts>> /\ epoch < MaxEpoch /\ epoch' = epoch + 1
    BY <1>7 DEF CloseEpoch
  <2> QED BY <2>1, Constants DEF BookType
<1>8. CASE Timer \/ UNCHANGED fleetVars
  BY <1>1, <1>8 DEF Timer, fleetVars
<1> QED BY <1>2, <1>3, <1>4, <1>5, <1>6, <1>7, <1>8 DEF Next

---------------------------------------------------------------------------
\* How the denominator changes: with a weighed connection, with a redialed
\* record, with a connection torn down, with a slashed member, or not at all.
Joined ==
    /\ opens < MaxOpens /\ opens' = opens + 1 /\ redials' = redials
    /\ \E fd : fd \notin fds /\ DOMAIN fdWeight' = DOMAIN fdWeight \cup {fd}
    /\ total' = (total + DefaultWeight) % Wrap
Redialed ==
    /\ opens < MaxOpens /\ opens' = opens + 1 /\ redials' = redials + 1
    /\ fdWeight' = fdWeight
    /\ total' = (total + DefaultWeight) % Wrap
Departed(fd) ==
    LET left == (total - LostWeight(fd)) % Wrap
    IN  /\ UNCHANGED <<opens, redials>>
        /\ DOMAIN fdWeight' = DOMAIN fdWeight \ {fd}
        /\ total' = IF fd \in DOMAIN fdWeight /\ left < SelfWeight THEN SelfWeight ELSE left
Excised(w) == UNCHANGED <<opens, redials, fdWeight>> /\ slashed' # {} /\ total' = (total - w) % Wrap
WeightStep ==
    /\ slashed \subseteq slashed'
    /\ \/ UNCHANGED <<opens, redials, fdWeight, total>>
       \/ Joined
       \/ Redialed
       \/ \E fd \in fds : Departed(fd)
       \/ \E w \in Nat : Excised(w)

\* The weight a slashed member takes along is a natural number.
LEMMA VoiceWeight ==
    ASSUME NEW ps \in Seq(PeerRecord(Nat)), NEW m
    PROVE  SumFunction([i \in Voice(ps, m) |-> ps[i].weight]) \in Nat
<1> DEFINE w == [i \in Voice(ps, m) |-> ps[i].weight]
<1>1. Voice(ps, m) \subseteq 1 .. Len(ps) /\ Len(ps) \in Nat
  BY DEF Voice
<1>2. IsFiniteSet(1 .. Len(ps))
  BY <1>1, FS_Interval
<1>3. IsFiniteSet(Voice(ps, m))
  BY <1>1, <1>2, FS_Subset
<1>4. \A i \in 1 .. Len(ps) : ps[i].weight \in Nat
  <2>1. \A i \in 1 .. Len(ps) : ps[i] \in PeerRecord(Nat)
    BY ElementOfSeq
  <2> QED BY <2>1 DEF PeerRecord
<1>5. DOMAIN w = Voice(ps, m) /\ \A i \in DOMAIN w : w[i] \in Nat
  BY <1>1, <1>4
<1> HIDE DEF w
<1>6. SumFunction(w) \in Nat
  BY <1>3, <1>5, SumType DEF SumFunction
<1> QED BY <1>6 DEF w

LEMMA StepWeight == ASSUME ConnType, VoteType, ListType, [Next]_fleetVars PROVE WeightStep
<1>1. ASSUME NEW m \in Peer, Accept(m) PROVE WeightStep
  <2>1. PICK fd \in Fds : Opened(m, fd) /\ fdWeight' = With(fdWeight, fd, DefaultWeight)
    BY <1>1 DEF Accept
  <2>2. total' = (total + DefaultWeight) % Wrap /\ UNCHANGED <<slashed, redials>>
    BY <1>1 DEF Accept, vote
  <2>3. DOMAIN fdWeight' = DOMAIN fdWeight \cup {fd}
    BY <2>1 DEF With
  <2> QED BY <2>1, <2>2, <2>3 DEF WeightStep, Joined, Opened
<1>2. ASSUME NEW m \in Peer, BanExpires(m) PROVE WeightStep
  BY <1>2 DEF BanExpires, conn, vote, WeightStep
<1>3. ASSUME NEW fd \in fds, RateExceeded(fd) \/ Closed(fd) PROVE WeightStep
  <2>1. Disconnect(fd)
    BY <1>3 DEF RateExceeded, Closed
  <2>2. DOMAIN fdWeight' = DOMAIN fdWeight \ {fd}
    BY <2>1 DEF Disconnect, Without
  <2>3. Departed(fd) /\ slashed' = slashed
    BY <2>1, <2>2 DEF Disconnect, Departed
  <2> QED BY <2>3 DEF WeightStep
<1>4. ASSUME NEW fd \in fds, NEW v \in signed, HandleVote(fd, v) PROVE WeightStep
  <2> DEFINE bound == Bound(peers, fd, v.member)
             w == SumFunction([i \in Voice(bound, v.member) |-> bound[i].weight])
  <2>1. UNCHANGED <<opens, redials, fdWeight>>
    BY <1>4 DEF HandleVote, Admit
  <2>2. \/ total' = total /\ slashed' = slashed
        \/ slashed' = slashed \cup {v.member} /\ total' = (total - w) % Wrap
    BY <1>4 DEF HandleVote, vote
  <2>3. v.member \in Peer
    BY DEF VoteType, Vote
  <2>4. bound \in Seq(PeerRecord(Nat))
    BY <2>3, BoundType DEF ListType
  <2>5. w \in Nat
    BY <2>4, VoiceWeight
  <2> HIDE DEF w
  <2> QED BY <2>1, <2>2, <2>5 DEF WeightStep, Excised
<1>5. ASSUME NEW fd \in fds, NEW m \in Reporter, NEW rd \in StatedRounds, HandleUptime(fd, m, rd) PROVE WeightStep
  BY <1>5 DEF HandleUptime, Admit, vote, WeightStep
<1>6. ASSUME NEW fd \in fds, NEW p \in Announced, HandleAnnounce(fd, p) PROVE WeightStep
  <2>1. UNCHANGED <<slashed, redials>>
    BY <1>6 DEF HandleAnnounce, Admit, vote
  <2>2. CASE UNCHANGED <<fdWeight, opens, total>>
    BY <2>1, <2>2 DEF WeightStep
  <2>3. ASSUME NEW x \in Fds, Opened(p, x), fdWeight' = With(fdWeight, x, DefaultWeight),
               total' = (total + DefaultWeight) % Wrap
        PROVE  WeightStep
    <3>1. DOMAIN fdWeight' = DOMAIN fdWeight \cup {x}
      BY <2>3 DEF With
    <3> QED BY <2>1, <2>3, <3>1 DEF WeightStep, Joined, Opened
  <2> QED BY <1>6, <2>2, <2>3 DEF HandleAnnounce
<1>7. CASE Timer
  <2>1. UNCHANGED <<slashed, fdWeight>>
    BY <1>7 DEF Timer, vote
  <2> QED BY <1>7, <2>1 DEF Timer, Redial, Opened, WeightStep, Redialed
<1>8. CASE CloseEpoch \/ UNCHANGED fleetVars
  BY <1>8 DEF CloseEpoch, fleetVars, conn, vote, WeightStep
<1> QED BY <1>1, <1>2, <1>3, <1>4, <1>5, <1>6, <1>7, <1>8 DEF Next

\* Remainders of the 64-bit counter.
LEMMA Remainder ==
    ASSUME NEW a \in Int
    PROVE  a % Wrap \in 0 .. Wrap - 1 /\ (a \in 0 .. Wrap - 1 => a % Wrap = a)
BY Constants

LEMMA LostIs == ASSUME ConnType, NEW fd PROVE LostWeight(fd) = IF fd \in DOMAIN fdWeight THEN DefaultWeight ELSE 0
BY DEF LostWeight, ConnType, Partial

\* The denominator and the bounds behind it keep their types.
LEMMA WeightTyped ==
    ASSUME ConnType, ListType, OpensType, WeightStep
    PROVE  OpensType' /\ total' \in 0 .. Wrap - 1
<1> DEFINE c == Cardinality(DOMAIN fdWeight)
<1>0. IsFiniteSet(DOMAIN fdWeight) /\ c \in Nat
  BY WeighedFinite
<1>a. /\ total \in Int /\ DefaultWeight \in Nat /\ Wrap \in Nat /\ MaxOpens \in Nat
      /\ SelfWeight \in 0 .. Wrap - 1
  <2>1. DefaultWeight * MaxOpens \in Nat
    BY Constants
  <2> QED BY <2>1, Constants, BootFits DEF ListType
<1>1. CASE UNCHANGED <<opens, redials, fdWeight, total>>
  BY <1>1 DEF OpensType, ListType
<1>2. CASE Joined
  <2>1. PICK fd : fd \notin fds /\ DOMAIN fdWeight' = DOMAIN fdWeight \cup {fd}
    BY <1>2 DEF Joined
  <2>2. Cardinality(DOMAIN fdWeight') \in Nat /\ Cardinality(DOMAIN fdWeight') <= c + 1
    BY <1>0, <2>1, FS_AddElement
  <2> QED BY <1>0, <1>2, <1>a, <2>2, Remainder DEF Joined, OpensType
<1>3. CASE Redialed
  BY <1>0, <1>3, <1>a, Remainder DEF Redialed, OpensType
<1>4. ASSUME NEW fd \in fds, Departed(fd) PROVE OpensType' /\ total' \in 0 .. Wrap - 1
  <2>1. Cardinality(DOMAIN fdWeight') \in Nat /\ Cardinality(DOMAIN fdWeight') <= c
    <3>1. DOMAIN fdWeight' \in SUBSET DOMAIN fdWeight
      BY <1>4 DEF Departed
    <3> QED BY <1>0, <3>1, FS_Subset, FS_CardinalityType
  <2>2. total - LostWeight(fd) \in Int
    BY <1>a, LostIs
  <2>3. (total - LostWeight(fd)) % Wrap \in 0 .. Wrap - 1
    BY <2>2, Remainder
  <2>4. total' \in 0 .. Wrap - 1
    BY <1>4, <1>a, <2>3 DEF Departed
  <2> QED BY <1>0, <1>4, <2>1, <2>4 DEF Departed, OpensType
<1>5. ASSUME NEW w \in Nat, Excised(w) PROVE OpensType' /\ total' \in 0 .. Wrap - 1
  BY <1>5, <1>a, Remainder DEF Excised, OpensType
<1> QED BY <1>1, <1>2, <1>3, <1>4, <1>5 DEF WeightStep

---------------------------------------------------------------------------
\* The first record of a member gives its weight.
LEMMA WeightOfType ==
    ASSUME NEW W, 0 \in W, NEW ps \in Seq(PeerRecord(W)), NEW m
    PROVE  weight_of(ps, m) \in W
<1> DEFINE I == {i \in DOMAIN ps : ps[i].member = m}
<1>1. weight_of(ps, m) = IF I = {} THEN 0 ELSE ps[Min(I)].weight
  BY DEF weight_of
<1>2. DOMAIN ps = 1 .. Len(ps) /\ Len(ps) \in Nat
  OBVIOUS
<1>3. I \subseteq Nat /\ I \subseteq DOMAIN ps
  BY <1>2
<1> HIDE DEF I
<1>4. I # {} => Min(I) \in DOMAIN ps
  BY <1>3, MinNat
<1>5. \A i \in DOMAIN ps : ps[i].weight \in W
  <2>1. \A i \in DOMAIN ps : ps[i] \in PeerRecord(W)
    BY <1>2, ElementOfSeq
  <2> QED BY <2>1 DEF PeerRecord
<1> QED BY <1>1, <1>4, <1>5

\* The voices of a missed round, and the heaviest of them: some voice's
\* preference, such that no voice is heavier.
Own == IF have_pref THEN {[w |-> SelfWeight, p |-> mssc.pref]} ELSE {}
Voices == Own \cup {[w |-> weight_of(peers, m), p |-> prefs[m]] :
                    m \in {k \in DOMAIN prefs : weight_of(peers, k) > 0}}

LEMMA HeaviestIs ==
    ASSUME ListType, VoteType, LoopType, Voices # {}
    PROVE  \E x \in Voices : Heaviest = x.p /\ \A y \in Voices : y.w <= x.w
<1> DEFINE top == {x \in Voices : \A y \in Voices : y.w <= x.w}
           W == {y.w : y \in Voices}
           heard == {k \in DOMAIN prefs : weight_of(peers, k) > 0}
           said == {[w |-> weight_of(peers, m), p |-> prefs[m]] : m \in heard}
<1>0. Voices = Own \cup said
  BY DEF Voices
<1>1. DOMAIN prefs \subseteq Peer /\ \A m \in DOMAIN prefs : prefs[m] \in Pref
  BY DEF VoteType, Partial
<1>2. \A m : weight_of(peers, m) \in Nat
  BY WeightOfType DEF ListType
<1>3. mssc.pref \in Nat /\ Pref \subseteq Nat /\ SelfWeight \in Nat /\ IsFiniteSet(Peer)
  BY Constants DEF LoopType, LoopState
<1>4. \A y \in Voices : y.w \in Nat /\ y.p \in Nat
  <2>1. \A y \in Own : y.w \in Nat /\ y.p \in Nat
    BY <1>3 DEF Own
  <2>2. ASSUME NEW y \in said PROVE y.w \in Nat /\ y.p \in Nat
    <3>1. PICK m \in heard : y = [w |-> weight_of(peers, m), p |-> prefs[m]]
      OBVIOUS
    <3>2. y.w = weight_of(peers, m) /\ y.p = prefs[m]
      BY <3>1
    <3>3. prefs[m] \in Nat
      BY <1>1, <1>3
    <3> QED BY <1>2, <3>2, <3>3
  <2> QED BY <1>0, <2>1, <2>2
<1>5. IsFiniteSet(W)
  <2>1. IsFiniteSet(heard)
    BY <1>1, <1>3, FS_Subset
  <2> DEFINE ws == {weight_of(peers, m) : m \in heard}
  <2>2. IsFiniteSet(ws)
    <3> DEFINE f == [m \in heard |-> weight_of(peers, m)]
    <3>1. f \in [heard -> ws] /\ \A t \in ws : \E m \in heard : f[m] = t
      OBVIOUS
    <3> HIDE DEF f, ws, heard
    <3>2. f \in Surjection(heard, ws)
      BY <3>1 DEF Surjection
    <3> QED BY <2>1, <3>2, FS_Surjection
  <2>3. IsFiniteSet(ws \cup {SelfWeight})
    BY <2>2, FS_AddElement
  <2>4. W \subseteq ws \cup {SelfWeight}
    BY <1>0 DEF Own
  <2> QED BY <2>3, <2>4, FS_Subset
<1>6. W \subseteq Nat /\ W # {}
  BY <1>4
<1>7. PICK a \in W : \A b \in W : b <= a
  <2> HIDE DEF W
  <2> QED BY <1>5, <1>6, GreatestNat
<1>8. top # {}
  BY <1>7
<1> DEFINE ps == {x.p : x \in top}
<1>9. ps \subseteq Nat /\ ps # {}
  BY <1>4, <1>8
<1>10. Heaviest = Min(ps)
  BY DEF Heaviest, Voices, Own
<1>11. Min(ps) \in ps
  <2> HIDE DEF ps
  <2> QED BY <1>9, MinNat
<1> QED BY <1>10, <1>11

---------------------------------------------------------------------------
\* The parts of a tick: the weight heard, the weight that agrees, the round
\* counted, and the two outcomes of a round above the floor.
Agree    == {m \in DOMAIN prefs : have_pref /\ prefs[m] = mssc.pref}
Mine     == IF have_pref THEN SelfWeight ELSE 0
Sampled  == Mine + WeightSum(DOMAIN prefs)
Agreeing == Mine + WeightSum(Agree)
Reached  == Agreeing * 10000 >= Alpha * Sampled
Ticked   == [mssc EXCEPT !.rounds = @ + 1]
Hit      == [Ticked EXCEPT !.confidence = @ + 1, !.stall = 0,
                           !.state = IF Ticked.confidence + 1 >= Beta THEN "Finalized" ELSE @]
Suspend(s) == [s EXCEPT !.state = "Suspended"]

LEMMA TickIs ==
    \/ tick = [Ticked EXCEPT !.stall = @ + 1]
    \/ Reached /\ tick = (IF Hit.stall >= StallLimit THEN Suspend(Hit) ELSE Hit)
    \/ ~Reached /\ (tick = Missed(Ticked) \/ tick = Suspend(Missed(Ticked)))
<1> DEFINE floor == total > 0 /\ Sampled * 10000 < Phi * total
           counted == IF Reached THEN Hit ELSE Missed(Ticked)
<1>1. tick = IF floor THEN [Ticked EXCEPT !.stall = @ + 1]
             ELSE IF counted.stall >= StallLimit THEN Suspend(counted) ELSE counted
  BY DEF tick, Sampled, Agreeing, Agree, Mine, Reached, Ticked, Hit, Suspend
<1> HIDE DEF floor
<1>2. CASE floor
  BY <1>1, <1>2
<1>3. CASE ~floor /\ Reached
  BY <1>1, <1>3
<1>4. CASE ~floor /\ ~Reached
  BY <1>1, <1>4
<1> QED BY <1>2, <1>3, <1>4

\* A missed round never leaves the preferences the fleet knows.
LEMMA HeaviestType == ASSUME ListType, VoteType, LoopType PROVE Heaviest \in Pref
<1>1. CASE Voices = {}
  BY <1>1 DEF Heaviest, Voices, Own, LoopType, LoopState
<1>2. CASE Voices # {}
  <2>1. PICK x \in Voices : Heaviest = x.p
    BY <1>2, HeaviestIs
  <2>2. CASE x \in Own
    BY <2>1, <2>2 DEF Own, LoopType, LoopState
  <2>3. CASE x \notin Own
    <3>1. PICK m \in DOMAIN prefs : x = [w |-> weight_of(peers, m), p |-> prefs[m]]
      BY <2>3 DEF Voices
    <3>2. x.p = prefs[m]
      BY <3>1
    <3> QED BY <2>1, <3>2 DEF VoteType, Partial
  <2> QED BY <2>2, <2>3
<1> QED BY <1>1, <1>2

LEMMA TickType ==
    ASSUME ListType, VoteType, LoopType, mssc.rounds < MaxRound
    PROVE  tick \in LoopState
<1>1. mssc \in LoopState /\ MaxRound \in Nat
  BY Constants DEF LoopType
<1>2. Ticked \in LoopState
  BY <1>1 DEF Ticked, LoopState
<1>3. [Ticked EXCEPT !.stall = @ + 1] \in LoopState
  BY <1>2 DEF LoopState
<1>4. Hit \in LoopState
  <2> DEFINE c == Ticked.confidence + 1
             st == IF c >= Beta THEN "Finalized" ELSE Ticked.state
  <2>1. c \in Nat /\ st \in {"Active", "Finalized", "Suspended"}
    BY <1>2 DEF LoopState
  <2>2. Hit = [Ticked EXCEPT !.confidence = c, !.stall = 0, !.state = st]
    BY <1>2 DEF Hit, LoopState
  <2> HIDE DEF c, st
  <2> QED BY <1>2, <2>1, <2>2 DEF LoopState
<1>5. Missed(Ticked) \in LoopState
  <2> DEFINE k == Ticked.stall + 1
             h == Heaviest
  <2>1. k \in Nat
    BY <1>2 DEF LoopState
  <2>2. h \in Pref
    BY HeaviestType
  <2>3. Missed(Ticked) = [Ticked EXCEPT !.confidence = 0, !.pref = h, !.stall = k]
    BY <1>2 DEF Missed, LoopState
  <2> HIDE DEF k, h
  <2>4. \A q \in Pref, n \in Nat :
           [Ticked EXCEPT !.confidence = 0, !.pref = q, !.stall = n] \in LoopState
    BY <1>2 DEF LoopState
  <2> QED BY <2>1, <2>2, <2>3, <2>4
<1>6. \A s \in LoopState : Suspend(s) \in LoopState
  BY DEF Suspend, LoopState
<1> QED BY <1>3, <1>4, <1>5, <1>6, TickIs

\* The loop's own state keeps its type: only the timer writes it.
LEMMA LoopTyped ==
    ASSUME ListType, VoteType, LoopType, [Next]_fleetVars
    PROVE  LoopType'
<1>1. CASE UNCHANGED mssc
  BY <1>1 DEF LoopType
<1>2. CASE Timer
  <2>1. mssc.rounds < MaxRound /\ (mssc' = mssc \/ mssc' \in breaker_tick(tick))
    BY <1>2 DEF Timer
  <2>2. tick \in LoopState
    BY <2>1, TickType
  <2>3. ASSUME mssc' \in breaker_tick(tick) PROVE mssc' \in LoopState
    <3> DEFINE s == tick
    <3>1. mssc' = s \/ \E w \in Frozen(s) : mssc' = [s EXCEPT !.pref = w, !.confidence = 0, !.stall = 0,
                                                              !.state = "Active"]
      BY <2>3 DEF breaker_tick
    <3> HIDE DEF s
    <3>2. s \in LoopState
      BY <2>2 DEF s
    <3>3. Frozen(s) \subseteq Pref
      <4>1. \A m \in DOMAIN prefs : prefs[m] \in Pref
        BY DEF VoteType, Partial
      <4>2. s.pref \in Pref
        BY <3>2 DEF LoopState
      <4> QED BY <4>1, <4>2 DEF Frozen, Range
    <3>4. \A w \in Pref : [s EXCEPT !.pref = w, !.confidence = 0, !.stall = 0, !.state = "Active"] \in LoopState
      BY <3>2 DEF LoopState
    <3> QED BY <3>1, <3>2, <3>3, <3>4
  <2> QED BY <1>1, <2>1, <2>3 DEF LoopType
<1>3. ASSUME NEW m \in Peer, Accept(m) \/ BanExpires(m) PROVE mssc' = mssc
  BY <1>3 DEF Accept, BanExpires
<1>4. ASSUME NEW fd \in fds, RateExceeded(fd) \/ Closed(fd) PROVE mssc' = mssc
  BY <1>4 DEF RateExceeded, Closed, Disconnect
<1>5. ASSUME NEW fd \in fds, NEW v \in signed, HandleVote(fd, v) PROVE mssc' = mssc
  BY <1>5 DEF HandleVote
<1>6. ASSUME NEW fd \in fds, NEW m \in Reporter, NEW rd \in StatedRounds, HandleUptime(fd, m, rd) PROVE mssc' = mssc
  BY <1>6 DEF HandleUptime
<1>7. ASSUME NEW fd \in fds, NEW p \in Announced, HandleAnnounce(fd, p) PROVE mssc' = mssc
  BY <1>7 DEF HandleAnnounce
<1>8. CASE CloseEpoch \/ UNCHANGED fleetVars
  BY <1>1, <1>8 DEF CloseEpoch, fleetVars
<1> QED BY <1>1, <1>2, <1>3, <1>4, <1>5, <1>6, <1>7, <1>8 DEF Next

---------------------------------------------------------------------------
\* At boot every variable has its type.
LEMMA InitTypes == ASSUME Init PROVE Types
<1>1. ConnType
  <2>1. fdWeight = Empty /\ fdMember = Empty /\ bucket = Empty
    BY DEF Init
  <2>2. PICK D \in SUBSET SeedPeer : \E f \in [D -> Fds] :
           fds = Range(f) /\ remote = [x \in Range(f) |-> CHOOSE p \in D : f[p] = x]
    BY DEF Init
  <2>3. PICK f \in [D -> Fds] :
           fds = Range(f) /\ remote = [x \in Range(f) |-> CHOOSE p \in D : f[p] = x]
    BY <2>2
  <2>4. Range(f) = {f[p] : p \in D}
    BY DEF Range
  <2>5. \A x \in Range(f) : (CHOOSE p \in D : f[p] = x) \in D
    BY <2>4
  <2>6. fds \subseteq Fds
    BY <2>3, <2>4
  <2>7. D \subseteq Peer
    BY Constants
  <2>8. remote \in [fds -> Peer]
    BY <2>3, <2>5, <2>7
  <2> QED BY <2>1, <2>6, <2>8, PartialEmpty DEF ConnType
<1>2. VoteType
  <2>1. prefs = Empty /\ batch = Empty /\ evidence = Empty /\ slashed = {} /\ bonds = [m \in Peer |-> <<>>]
        /\ signed \in Statements
    BY DEF Init
  <2>2. signed \subseteq Vote
    BY <2>1, FleetAssumption DEF Vote
  <2>3. <<>> \in Seq(Bond)
    BY EmptySeq
  <2> QED BY <2>1, <2>2, <2>3, PartialEmpty DEF VoteType
<1>3. BookType
  BY PartialEmpty, Constants DEF Init, BookType
<1>4. ListType
  <2>1. peers = Static /\ total = BootWeight
    BY DEF Init
  <2>2. DefaultWeight * MaxOpens \in Nat
    BY Constants
  <2>3. total \in 0 .. Wrap - 1
    BY <2>1, <2>2, BootFits, Constants
  <2>4. Static \in Seq([port : Nat, weight : Nat, member : Peer])
    BY FleetAssumption
  <2>5. \A i \in DOMAIN Static : Static[i] \in PeerRecord(Nat)
    <3>1. \A i \in DOMAIN Static : Static[i] \in [port : Nat, weight : Nat, member : Peer]
      <4>1. DOMAIN Static = 1 .. Len(Static)
        BY <2>4
      <4> QED BY <2>4, <4>1, ElementOfSeq
    <3>2. [port : Nat, weight : Nat, member : Peer] \subseteq PeerRecord(Nat)
      BY DEF PeerRecord
    <3> QED BY <3>1, <3>2
  <2>6. Static \in Seq(PeerRecord(Nat))
    <3>1. Static = [i \in DOMAIN Static |-> Static[i]]
      BY <2>4
    <3> QED BY <2>4, <2>5, <3>1, MapType
  <2> QED BY <2>1, <2>3, <2>6 DEF ListType
<1>5. LoopType
  <2> DEFINE p == Min(Pref \ {0})
  <2>1. p \in Pref
    BY MinNat, Constants
  <2>2. mssc = [pref |-> p, confidence |-> 0, stall |-> 0, rounds |-> 0, state |-> "Active"]
    BY DEF Init
  <2> HIDE DEF p
  <2> QED BY <2>1, <2>2, Constants DEF LoopType, LoopState
<1>6. OpensType
  <2>1. DOMAIN fdWeight = {} /\ opens = 0 /\ redials = 0
    BY EmptyFacts DEF Init
  <2> QED BY <2>1, FS_EmptySet, Constants DEF OpensType
<1> QED BY <1>1, <1>2, <1>3, <1>4, <1>5, <1>6 DEF Types

LEMMA StepTypes == ASSUME Types, [Next]_fleetVars PROVE Types'
<1>1. 0 \in Nat /\ DefaultWeight \in Nat
  BY Constants
<1>2. ConnType' /\ VoteType' /\ BookType' /\ LoopType'
  BY ConnTyped, VoteTyped, BookTyped, LoopTyped DEF Types
<1>3. WeightStep
  BY StepWeight DEF Types
<1>4. OpensType' /\ total' \in 0 .. Wrap - 1
  BY <1>3, WeightTyped DEF Types
<1>5. peers' \in Seq(PeerRecord(Nat))
  BY <1>1, ListTyped DEF Types, ListType
<1> QED BY <1>2, <1>4, <1>5 DEF Types, ListType

LEMMA TypesInvariant == Spec => []Types
<1> QED BY InitTypes, StepTypes, PTL DEF Spec

\* Every variable of the peer table and of the loop keeps its type for any
\* fleet, with 64-bit weights: in particular a missed round and the breaker
\* only ever adopt a preference of the fleet (msscloop.hpp, epoch_node.cpp).
THEOREM FleetTypes == Spec => []TypeOK
<1> QED BY TypesInvariant, TypesImplyTypeOK, PTL

---------------------------------------------------------------------------
\* Multiples of the default weight.
LEMMA Multiples ==
    ASSUME NEW d \in Nat, NEW n \in Nat
    PROVE  /\ d * n \in Nat /\ d * (n + 1) = d * n + d
           /\ \A m \in Nat : n <= m => d * n <= d * m
<1>1. d * n \in Nat /\ d * (n + 1) = d * n + d
  OBVIOUS
<1>2. ASSUME NEW m \in Nat, n <= m PROVE d * n <= d * m
  <2>1. m - n \in Nat /\ m = n + (m - n)
    BY <1>2
  <2>2. \A k \in Nat : d * (n + k) = d * n + d * k /\ d * k \in Nat
    OBVIOUS
  <2>3. d * m = d * n + d * (m - n) /\ d * (m - n) \in Nat
    BY <2>1, <2>2
  <2> QED BY <1>1, <2>3
<1> QED BY <1>1, <1>2

\* The weight that n connections and redials add to the boot weight: within
\* 64 bits, and never below the node's own.
Expected(n) == BootWeight + DefaultWeight * n

LEMMA ExpectedFits ==
    ASSUME NEW n \in Nat, n <= MaxOpens
    PROVE  /\ Expected(n) \in 0 .. Wrap - 1 /\ Expected(n) >= SelfWeight
           /\ Expected(n + 1) = Expected(n) + DefaultWeight
<1> DEFINE a == DefaultWeight * n
           b == DefaultWeight * MaxOpens
<1>1. DefaultWeight \in Nat /\ MaxOpens \in Nat /\ Wrap \in Nat /\ SelfWeight \in Nat
  BY Constants
<1>2. a \in Nat /\ b \in Nat /\ a <= b /\ DefaultWeight * (n + 1) = a + DefaultWeight
  BY <1>1, Multiples
<1>3. BootWeight \in Nat /\ SelfWeight <= BootWeight /\ BootWeight + b < Wrap
  BY BootFits
<1>4. Expected(n) = BootWeight + a /\ Expected(n + 1) = BootWeight + (a + DefaultWeight)
  BY <1>2 DEF Expected
<1> HIDE DEF a, b
<1> QED BY <1>1, <1>2, <1>3, <1>4

LEMMA TotalStep ==
    ASSUME Types, TeardownForgets, TotalExact, WeightStep
    PROVE  TotalExact'
<1> DEFINE c == Cardinality(DOMAIN fdWeight)
           n == c + redials
<1> SUFFICES ASSUME slashed' = {}
             PROVE  total' = Expected(Cardinality(DOMAIN fdWeight') + redials')
  BY DEF TotalExact, Expected
<1>1. slashed = {}
  BY DEF WeightStep
<1>2. IsFiniteSet(DOMAIN fdWeight) /\ c \in Nat /\ n \in Nat /\ redials \in Nat /\ n <= MaxOpens
  BY WeighedFinite, Constants DEF Types, OpensType
<1>3. total = Expected(n)
  BY <1>1 DEF TotalExact, Expected
<1>4. DefaultWeight \in Nat /\ Wrap \in Nat /\ SelfWeight \in Nat
  BY Constants
<1>5. ASSUME opens < MaxOpens PROVE (total + DefaultWeight) % Wrap = Expected(n + 1)
  <2>1. n + 1 <= MaxOpens /\ n + 1 \in Nat
    BY <1>2, <1>5, Constants DEF Types, OpensType
  <2>2. Expected(n + 1) = total + DefaultWeight
    BY <1>2, <1>3, ExpectedFits
  <2>3. Expected(n + 1) \in 0 .. Wrap - 1 /\ Expected(n + 1) \in Int
    <3> HIDE DEF n
    <3> QED BY <2>1, ExpectedFits, <1>4
  <2> QED BY <2>2, <2>3, Remainder
<1>6. CASE UNCHANGED <<opens, redials, fdWeight, total>>
  BY <1>3, <1>6
<1>7. CASE Joined
  <2>1. PICK fd : fd \notin fds /\ DOMAIN fdWeight' = DOMAIN fdWeight \cup {fd}
    BY <1>7 DEF Joined
  <2>2. fd \notin DOMAIN fdWeight
    BY <2>1 DEF TeardownForgets
  <2>3. Cardinality(DOMAIN fdWeight') = c + 1
    BY <1>2, <2>1, <2>2, FS_AddElement
  <2>4. Cardinality(DOMAIN fdWeight') + redials' = n + 1
    BY <1>2, <1>7, <2>3 DEF Joined
  <2> QED BY <1>5, <1>7, <2>4 DEF Joined
<1>8. CASE Redialed
  <2>1. Cardinality(DOMAIN fdWeight') + redials' = n + 1
    BY <1>2, <1>8 DEF Redialed
  <2> QED BY <1>5, <1>8, <2>1 DEF Redialed
<1>9. ASSUME NEW fd \in fds, Departed(fd)
      PROVE  total' = Expected(Cardinality(DOMAIN fdWeight') + redials')
  <2> DEFINE left == (total - LostWeight(fd)) % Wrap
  <2>0. /\ DOMAIN fdWeight' = DOMAIN fdWeight \ {fd} /\ redials' = redials
        /\ total' = IF fd \in DOMAIN fdWeight /\ left < SelfWeight THEN SelfWeight ELSE left
    BY <1>9 DEF Departed
  <2>1. CASE fd \notin DOMAIN fdWeight
    <3>1. LostWeight(fd) = 0
      BY <2>1 DEF LostWeight
    <3>2. total \in 0 .. Wrap - 1
      BY DEF Types, ListType
    <3>3. total - 0 = total /\ total \in Int
      BY <3>2, <1>4
    <3>4. left = total
      BY <3>1, <3>2, <3>3, Remainder
    <3>5. DOMAIN fdWeight' = DOMAIN fdWeight
      BY <2>0, <2>1
    <3> QED BY <1>3, <2>0, <2>1, <3>4, <3>5
  <2>2. CASE fd \in DOMAIN fdWeight
    <3>1. Cardinality(DOMAIN fdWeight') = c - 1
      BY <1>2, <2>0, <2>2, FS_RemoveElement
    <3>2. c # 0
      BY <1>2, <2>2, FS_EmptySet
    <3>3. n - 1 \in Nat /\ n - 1 <= MaxOpens /\ Cardinality(DOMAIN fdWeight') + redials' = n - 1
          /\ (n - 1) + 1 = n
      BY <1>2, <2>0, <3>1, <3>2, Constants
    <3>4. LostWeight(fd) = DefaultWeight
      BY <2>2, LostIs DEF Types
    <3> DEFINE k == n - 1
    <3> HIDE DEF k
    <3>5. k \in Nat /\ k <= MaxOpens /\ k + 1 = n
      BY <3>3 DEF k
    <3>6. Expected(k) \in 0 .. Wrap - 1 /\ Expected(k) >= SelfWeight /\ Expected(k + 1) = Expected(k) + DefaultWeight
      BY <3>5, ExpectedFits
    <3>7. total - DefaultWeight = Expected(k) /\ Expected(k) \in Int
      BY <1>3, <1>4, <3>5, <3>6
    <3>8. left = Expected(k)
      BY <3>4, <3>6, <3>7, Remainder
    <3>9. ~(left < SelfWeight)
      BY <1>4, <3>6, <3>7, <3>8
    <3> QED BY <2>0, <3>3, <3>8, <3>9 DEF k
  <2> QED BY <2>1, <2>2
<1>10. ASSUME NEW w \in Nat, Excised(w) PROVE FALSE
  BY <1>10 DEF Excised
<1> QED BY <1>6, <1>7, <1>8, <1>9, <1>10 DEF WeightStep

\* The denominator of the floor test is exact for any fleet: until somebody
\* is slashed, however connections are accepted, dialed, announced, redialed,
\* torn down and their descriptors reused, total_weight is the boot weight and
\* the default weight of each weighed connection and redialed record.  So the
\* 64-bit counter never wraps and the clamp of the disconnect path to the
\* node's own weight is never taken (epoch_node.cpp DEF-255, DEF-397).
THEOREM TotalExactThm == Spec => []TotalExact
<1>1. Init => TotalExact
  <2> SUFFICES ASSUME Init PROVE TotalExact
    OBVIOUS
  <2>1. DOMAIN fdWeight = {} /\ redials = 0 /\ total = BootWeight
    BY EmptyFacts DEF Init
  <2>2. DefaultWeight * (0 + 0) = 0 /\ BootWeight + 0 = BootWeight
    BY Constants, BootFits
  <2> QED BY <2>1, <2>2, FS_EmptySet DEF TotalExact
<1>2. Types /\ TeardownForgets /\ TotalExact /\ [Next]_fleetVars => TotalExact'
  BY TotalStep, StepWeight DEF Types
<1> QED BY <1>1, <1>2, TypesInvariant, TeardownForgetsThm, PTL DEF Spec

---------------------------------------------------------------------------
\* A fleet in which no peer is as heavy as the node itself, alpha is a
\* fraction and a stall takes a round: the weights and parameters of epoch_node.cpp (own weight 60 or 40, a built-in peer of
\* 40 beside 60 only, 30 for everybody else).
NodeIsHeaviest ==
    /\ DefaultWeight < SelfWeight
    /\ \A i \in DOMAIN Static : Static[i].weight < SelfWeight
    /\ Alpha <= 10000
    /\ StallLimit > 0

LightPeers == peers \in Seq(PeerRecord(0 .. SelfWeight - 1))

\* The weights heard of finitely many members add up to a natural number.
LEMMA WeightSumType == ASSUME ListType, NEW S \in SUBSET Peer PROVE WeightSum(S) \in Nat
<1> DEFINE w == [m \in S |-> weight_of(peers, m)]
<1>1. IsFiniteSet(S)
  BY Constants, FS_Subset
<1>2. \A m \in S : w[m] \in Nat
  BY WeightOfType DEF ListType
<1>3. DOMAIN w = S /\ WeightSum(S) = SumFunction(w)
  BY DEF WeightSum
<1> HIDE DEF w
<1> QED BY <1>1, <1>2, <1>3, SumType DEF SumFunction

\* Fewer than two candidates: everybody heard says what the node now says.
LEMMA OneCandidate ==
    ASSUME VoteType, NEW s, Cardinality(Frozen(s)) < 2
    PROVE  \A m \in DOMAIN prefs : prefs[m] = s.pref
<1>1. DOMAIN prefs \subseteq Peer /\ prefs \in [DOMAIN prefs -> Pref]
  BY DEF VoteType, Partial
<1>2. IsFiniteSet(DOMAIN prefs)
  BY <1>1, Constants, FS_Subset
<1>3. IsFiniteSet(Range(prefs))
  <2>1. prefs \in Surjection(DOMAIN prefs, Range(prefs))
    BY <1>1 DEF Surjection, Range
  <2> QED BY <1>2, <2>1, FS_Surjection
<1>4. IsFiniteSet(Frozen(s)) /\ Cardinality(Frozen(s)) \in Nat
  <2>1. Frozen(s) = Range(prefs) \cup {s.pref}
    BY DEF Frozen
  <2>2. IsFiniteSet(Range(prefs) \cup {s.pref})
    BY <1>3, FS_AddElement
  <2> QED BY <2>1, <2>2, FS_CardinalityType
<1>5. s.pref \in Frozen(s)
  BY DEF Frozen
<1>6. Cardinality(Frozen(s)) = 1
  <2>1. Cardinality(Frozen(s)) # 0
    BY <1>4, <1>5, FS_EmptySet
  <2> QED BY <1>4, <2>1
<1>7. PICK x : Frozen(s) = {x}
  BY <1>4, <1>6, FS_Singleton
<1>8. \A m \in DOMAIN prefs : prefs[m] \in Frozen(s)
  BY DEF Frozen, Range
<1> QED BY <1>5, <1>7, <1>8

\* A round that misses alpha and then meets no second candidate: impossible.
LEMMA MissedHasRival ==
    ASSUME NodeIsHeaviest, Types, LightPeers, have_pref, ~Reached,
           \A m \in DOMAIN prefs : prefs[m] = Heaviest
    PROVE  FALSE
<1>1. mssc.pref \in Pref /\ have_pref
  BY DEF Types, LoopType, LoopState
<1>2. CASE mssc.pref = Heaviest
  <2>1. Agree = DOMAIN prefs
    BY <1>1, <1>2 DEF Agree
  <2>2. Agreeing = Sampled
    BY <2>1 DEF Agreeing, Sampled
  <2>3. DOMAIN prefs \in SUBSET Peer
    BY DEF Types, VoteType, Partial
  <2>4. Sampled \in Nat
    BY <2>3, WeightSumType, Constants DEF Sampled, Mine, Types
  <2>5. Alpha \in Nat /\ Alpha <= 10000
    BY Constants DEF NodeIsHeaviest
  <2>6. Sampled * 10000 >= Alpha * Sampled
    <3>1. Sampled * Alpha <= Sampled * 10000
      BY <2>4, <2>5, Multiples
    <3>2. \A a, b \in Nat : a * b = b * a
      OBVIOUS
    <3>3. Sampled * Alpha = Alpha * Sampled
      BY <2>4, <2>5, <3>2
    <3> QED BY <2>4, <2>5, <3>1, <3>3
  <2> QED BY <2>2, <2>6 DEF Reached
<1>3. CASE mssc.pref # Heaviest
  <2> DEFINE mine == [w |-> SelfWeight, p |-> mssc.pref]
  <2>1. Own = {mine}
    BY <1>1 DEF Own
  <2>2. mine \in Voices
    BY <2>1 DEF Voices
  <2>3. PICK x \in Voices : Heaviest = x.p /\ \A y \in Voices : y.w <= x.w
    BY <2>2, HeaviestIs DEF Types
  <2>4. SelfWeight <= x.w
    BY <2>2, <2>3
  <2>5. x \notin Own
    BY <1>3, <2>1, <2>3
  <2>6. PICK m \in DOMAIN prefs : x = [w |-> weight_of(peers, m), p |-> prefs[m]]
    BY <2>5 DEF Voices
  <2>7. weight_of(peers, m) \in 0 .. SelfWeight - 1
    <3>1. 0 \in 0 .. SelfWeight - 1
      BY Constants
    <3> QED BY <3>1, WeightOfType DEF LightPeers
  <2>8. x.w = weight_of(peers, m)
    BY <2>6
  <2> QED BY <2>4, <2>7, <2>8, Constants
<1> QED BY <1>2, <1>3

\* A tick that suspends an active node leaves it with a second candidate.
LEMMA TickSuspends ==
    ASSUME NodeIsHeaviest, Types, LightPeers, have_pref, NeverLeftSuspended, tick.state = "Suspended"
    PROVE  ~(Cardinality(Frozen(tick)) < 2)
<1>0. mssc \in LoopState
  BY DEF Types, LoopType
<1>1. Ticked.state = mssc.state /\ Ticked \in [pref : Pref, confidence : Nat, stall : Nat, rounds : Nat,
                                               state : {"Active", "Finalized", "Suspended"}]
  BY <1>0, Constants DEF Ticked, LoopState
<1>2. tick # [Ticked EXCEPT !.stall = @ + 1]
  <2>1. [Ticked EXCEPT !.stall = @ + 1].state = Ticked.state
    BY <1>1
  <2> QED BY <1>1, <2>1 DEF NeverLeftSuspended
<1>3. ~(Reached /\ tick = (IF Hit.stall >= StallLimit THEN Suspend(Hit) ELSE Hit))
  <2>1. Hit.stall = 0 /\ Hit.state \in {"Finalized", Ticked.state}
    BY <1>1 DEF Hit
  <2>2. ~(Hit.stall >= StallLimit)
    BY <2>1, Constants DEF NodeIsHeaviest
  <2>3. Hit.state # "Suspended"
    BY <1>1, <2>1 DEF NeverLeftSuspended
  <2> QED BY <2>2, <2>3
<1>4. ~Reached /\ (tick = Missed(Ticked) \/ tick = Suspend(Missed(Ticked)))
  BY <1>2, <1>3, TickIs
<1>5. tick.pref = Heaviest
  <2>1. Missed(Ticked).pref = Heaviest /\ Suspend(Missed(Ticked)).pref = Heaviest
    <3> DEFINE h == Heaviest
    <3>1. Missed(Ticked) = [Ticked EXCEPT !.confidence = 0, !.pref = h, !.stall = @ + 1]
      BY DEF Missed
    <3> HIDE DEF h
    <3>2. Missed(Ticked).pref = h /\ Suspend(Missed(Ticked)).pref = h
      BY <1>1, <3>1 DEF Suspend
    <3> QED BY <3>2 DEF h
  <2> QED BY <1>4, <2>1
<1> SUFFICES ASSUME Cardinality(Frozen(tick)) < 2 PROVE FALSE
  OBVIOUS
<1>6. \A m \in DOMAIN prefs : prefs[m] = tick.pref
  BY OneCandidate DEF Types
<1> QED BY <1>4, <1>5, <1>6, MissedHasRival

\* No vote and no preference of the node is the all-zero digest.
Voiced == \A v \in signed : v.pref # 0

\* Then neither the heaviest voice nor any candidate of the breaker is.
LEMMA HeaviestVoiced ==
    ASSUME Types, have_pref, \A m \in DOMAIN prefs : prefs[m] # 0
    PROVE  Heaviest # 0
<1> DEFINE mine == [w |-> SelfWeight, p |-> mssc.pref]
<1>1. Own = {mine} /\ mine.p # 0
  BY DEF Own, have_pref
<1>2. PICK x \in Voices : Heaviest = x.p
  <2>1. Voices # {}
    BY <1>1 DEF Voices
  <2> QED BY <2>1, HeaviestIs DEF Types
<1>3. CASE x \in Own
  BY <1>1, <1>2, <1>3
<1>4. CASE x \notin Own
  <2>1. PICK m \in DOMAIN prefs : x = [w |-> weight_of(peers, m), p |-> prefs[m]]
    BY <1>4 DEF Voices
  <2>2. x.p = prefs[m]
    BY <2>1
  <2> QED BY <1>2, <2>2
<1> QED BY <1>3, <1>4

LEMMA TickVoiced ==
    ASSUME Types, have_pref, \A m \in DOMAIN prefs : prefs[m] # 0
    PROVE  tick.pref # 0
<1>1. Ticked \in [pref : Pref, confidence : Nat, stall : Nat, rounds : Nat,
                   state : {"Active", "Finalized", "Suspended"}] /\ Ticked.pref = mssc.pref
  BY Constants DEF Ticked, Types, LoopType, LoopState
<1>2. [Ticked EXCEPT !.stall = @ + 1].pref = mssc.pref /\ Hit.pref = mssc.pref
      /\ Suspend(Hit).pref = mssc.pref
  BY <1>1 DEF Hit, Suspend
<1>3. Missed(Ticked).pref # 0 /\ Suspend(Missed(Ticked)).pref # 0
  <2> DEFINE h == Heaviest
  <2>1. Missed(Ticked) = [Ticked EXCEPT !.confidence = 0, !.pref = h, !.stall = @ + 1] /\ h # 0
    BY HeaviestVoiced DEF Missed
  <2> HIDE DEF h
  <2> QED BY <1>1, <2>1 DEF Suspend
<1>4. mssc.pref # 0
  BY DEF have_pref
<1> QED BY <1>2, <1>3, <1>4, TickIs

\* The breaker ends every suspension in the pass that began it, for any fleet
\* in which the node outweighs each peer and nobody signs the all-zero digest:
\* a round is missed only over a preference other than the node's own, the
\* node keeps its own against every lighter voice, and so the breaker has two
\* candidates (msscloop.hpp tick, breaker_tick; epoch_node.cpp timer).  The
\* induction carries that the node itself always has a preference, which
\* rests on VoiceCurrent: what it adopts, somebody signed.
THEOREM SuspensionEndsThm ==
    ASSUME NodeIsHeaviest PROVE Spec => []SuspensionEnds
<1> DEFINE Awake == have_pref /\ NeverLeftSuspended
           I == LightPeers /\ (Voiced => Awake)
           W == 0 .. SelfWeight - 1
<1>0. 0 \in W /\ DefaultWeight \in W
  BY Constants DEF NodeIsHeaviest
<1>1. Init => I
  <2> SUFFICES ASSUME Init PROVE I
    OBVIOUS
  <2>1. Types
    BY InitTypes
  <2>2. peers = Static /\ mssc.state = "Active" /\ mssc.pref = Min(Pref \ {0})
    BY DEF Init
  <2>3. peers \in Seq(PeerRecord(Nat)) /\ DOMAIN peers = 1 .. Len(peers)
    BY <2>1 DEF Types, ListType
  <2>4. ASSUME NEW i \in DOMAIN peers PROVE peers[i] \in PeerRecord(W)
    <3>1. peers[i] \in PeerRecord(Nat)
      BY <2>3, ElementOfSeq
    <3>2. peers[i].weight \in Nat /\ peers[i].weight < SelfWeight
      BY <2>2, <3>1 DEF NodeIsHeaviest, PeerRecord
    <3>3. peers[i].weight \in W
      BY <3>2, Constants
    <3> HIDE DEF W
    <3> QED BY <3>1, <3>3 DEF PeerRecord
  <2>5. peers = [i \in DOMAIN peers |-> peers[i]]
    BY <2>3
  <2>6. peers \in Seq(PeerRecord(W))
    <3> HIDE DEF W
    <3> QED BY <2>3, <2>4, <2>5, MapType
  <2>7. Min(Pref \ {0}) \in Pref \ {0}
    BY MinNat, Constants
  <2>8. have_pref
    BY <2>2, <2>7 DEF have_pref
  <2> QED BY <2>2, <2>6, <2>8 DEF LightPeers, NeverLeftSuspended
<1>2. Types /\ VoiceCurrent /\ I /\ [Next]_fleetVars => I'
  <2> SUFFICES ASSUME Types, VoiceCurrent, I, [Next]_fleetVars PROVE I'
    OBVIOUS
  <2>1. LightPeers'
    BY <1>0, ListTyped DEF Types, LightPeers
  <2>0. signed' = signed
    BY StepVotes DEF VoteStep
  <2> SUFFICES ASSUME Voiced PROVE Awake'
    BY <2>0, <2>1 DEF Voiced
  <2>a. have_pref /\ NeverLeftSuspended
    OBVIOUS
  <2>b. \A m \in DOMAIN prefs : prefs[m] # 0
    BY DEF VoiceCurrent, Voiced
  <2>2. CASE UNCHANGED mssc
    BY <2>2, <2>a DEF NeverLeftSuspended, have_pref
  <2>3. CASE Timer
    <3>1. mssc' = mssc \/ mssc' \in breaker_tick(tick)
      BY <2>3 DEF Timer
    <3>2. ASSUME mssc' \in breaker_tick(tick) PROVE mssc'.state # "Suspended" /\ mssc'.pref # 0
      <4>1. mssc.rounds < MaxRound
        BY <2>3 DEF Timer
      <4> DEFINE s == tick
      <4>2. s \in LoopState
        BY <4>1, TickType DEF Types
      <4>3. s.state = "Suspended" => ~(Cardinality(Frozen(s)) < 2)
        BY <2>a, TickSuspends
      <4>4. mssc' \in breaker_tick(s)
        BY <3>2
      <4>7. s.pref # 0
        BY <2>a, <2>b, TickVoiced
      <4> HIDE DEF s
      <4>5. \/ mssc' = s /\ s.state # "Suspended"
            \/ \E w \in Frozen(s) : mssc' = [s EXCEPT !.pref = w, !.confidence = 0, !.stall = 0, !.state = "Active"]
        BY <4>3, <4>4 DEF breaker_tick
      <4>6. \A w : /\ [s EXCEPT !.pref = w, !.confidence = 0, !.stall = 0, !.state = "Active"].state = "Active"
                   /\ [s EXCEPT !.pref = w, !.confidence = 0, !.stall = 0, !.state = "Active"].pref = w
        BY <4>2 DEF LoopState
      <4>8. \A w \in Frozen(s) : w # 0
        BY <2>b, <4>7 DEF Frozen, Range
      <4> QED BY <4>5, <4>6, <4>7, <4>8
    <3> QED BY <2>2, <3>1, <3>2 DEF NeverLeftSuspended, have_pref
  <2>4. ASSUME NEW m \in Peer, Accept(m) \/ BanExpires(m) PROVE mssc' = mssc
    BY <2>4 DEF Accept, BanExpires
  <2>5. ASSUME NEW fd \in fds, RateExceeded(fd) \/ Closed(fd) PROVE mssc' = mssc
    BY <2>5 DEF RateExceeded, Closed, Disconnect
  <2>6. ASSUME NEW fd \in fds, NEW v \in signed, HandleVote(fd, v) PROVE mssc' = mssc
    BY <2>6 DEF HandleVote
  <2>7. ASSUME NEW fd \in fds, NEW m \in Reporter, NEW rd \in StatedRounds, HandleUptime(fd, m, rd) PROVE mssc' = mssc
    BY <2>7 DEF HandleUptime
  <2>8. ASSUME NEW fd \in fds, NEW p \in Announced, HandleAnnounce(fd, p) PROVE mssc' = mssc
    BY <2>8 DEF HandleAnnounce
  <2>9. CASE CloseEpoch \/ UNCHANGED fleetVars
    BY <2>2, <2>9 DEF CloseEpoch, fleetVars
  <2> QED BY <2>2, <2>3, <2>4, <2>5, <2>6, <2>7, <2>8, <2>9 DEF Next
<1>3. I => SuspensionEnds
  BY DEF SuspensionEnds, Voiced
<1> QED BY <1>1, <1>2, <1>3, TypesInvariant, VoiceCurrentThm, PTL DEF Spec
=============================================================================
