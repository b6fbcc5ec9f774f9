---------------------------- MODULE FleetProofs -----------------------------
(***************************************************************************)
(* What holds of the peer table and the vote handler for every fleet: any  *)
(* number of members, connections, votes, rounds and epochs.               *)
(***************************************************************************)
EXTENDS Fleet, TLAPS

LEMMA EmptyFacts == DOMAIN Empty = {}
  BY DEF Empty

\* The connection tables change only by opening and tearing down connections,
\* and by what a handled message records under its own open descriptor.
ConnStep ==
    \/ UNCHANGED <<fds, fdWeight, fdMember, bucket>>
    \/ \E fd \in fds : /\ fds' = fds \ {fd}
                       /\ fdWeight' = Without(fdWeight, fd)
                       /\ fdMember' = Without(fdMember, fd)
                       /\ bucket' = Without(bucket, fd)
    \/ /\ fds \subseteq fds'
       /\ DOMAIN fdWeight' \subseteq DOMAIN fdWeight \cup fds'
       /\ DOMAIN fdMember' \subseteq DOMAIN fdMember \cup fds'
       /\ DOMAIN bucket' \subseteq DOMAIN bucket \cup fds'

LEMMA StepConn == ASSUME [Next]_fleetVars PROVE ConnStep
<1>1. CASE UNCHANGED fleetVars
  BY <1>1 DEF fleetVars, conn, ConnStep
<1>2. ASSUME NEW m \in Peer, Accept(m) PROVE ConnStep
  <2>1. PICK fd \in Fds : fds' = fds \cup {fd} /\ fdWeight' = With(fdWeight, fd, DefaultWeight)
    BY <1>2 DEF Accept, Opened
  <2>2. UNCHANGED <<fdMember, bucket>>
    BY <1>2 DEF Accept
  <2>3. DOMAIN fdWeight' = DOMAIN fdWeight \cup {fd}
    BY <2>1 DEF With
  <2> QED BY <2>1, <2>2, <2>3 DEF ConnStep
<1>3. ASSUME NEW m \in Peer, BanExpires(m) PROVE ConnStep
  BY <1>3 DEF BanExpires, conn, ConnStep
<1>4. ASSUME NEW fd \in fds, RateExceeded(fd) \/ Closed(fd) PROVE ConnStep
  <2>1. Disconnect(fd)
    BY <1>4 DEF RateExceeded, Closed
  <2> QED BY <2>1 DEF Disconnect, peer_forget, ConnStep
<1>5. ASSUME NEW fd \in fds, NEW v \in signed, HandleVote(fd, v) PROVE ConnStep
  <2>1. PICK n : bucket' = With(bucket, fd, n)
    BY <1>5 DEF HandleVote, Admit
  <2>2. fdMember' = fdMember \/ fdMember' = With(fdMember, fd, v.member)
    BY <1>5 DEF HandleVote
  <2>3. UNCHANGED <<fds, fdWeight>>
    BY <1>5 DEF HandleVote
  <2>4. DOMAIN bucket' = DOMAIN bucket \cup {fd}
    BY <2>1 DEF With
  <2>5. DOMAIN fdMember' \subseteq DOMAIN fdMember \cup {fd}
    BY <2>2 DEF With
  <2> QED BY <2>3, <2>4, <2>5 DEF ConnStep
<1>6. ASSUME NEW fd \in fds, NEW m \in Reporter, NEW rd \in StatedRounds, HandleUptime(fd, m, rd) PROVE ConnStep
  <2>1. PICK n : bucket' = With(bucket, fd, n)
    BY <1>6 DEF HandleUptime, Admit
  <2>2. UNCHANGED <<fds, fdWeight, fdMember>>
    BY <1>6 DEF HandleUptime
  <2>3. DOMAIN bucket' = DOMAIN bucket \cup {fd}
    BY <2>1 DEF With
  <2> QED BY <2>2, <2>3 DEF ConnStep
<1>7. ASSUME NEW fd \in fds, NEW p \in Announced, HandleAnnounce(fd, p) PROVE ConnStep
  <2>1. PICK n : bucket' = With(bucket, fd, n)
    BY <1>7 DEF HandleAnnounce, Admit
  <2>2. UNCHANGED fdMember
    BY <1>7 DEF HandleAnnounce
  <2>3. \/ UNCHANGED <<fds, fdWeight>>
        \/ \E dfd \in Fds : fds' = fds \cup {dfd} /\ fdWeight' = With(fdWeight, dfd, DefaultWeight)
    BY <1>7 DEF HandleAnnounce, Opened
  <2>4. DOMAIN bucket' = DOMAIN bucket \cup {fd}
    BY <2>1 DEF With
  <2>5. CASE UNCHANGED <<fds, fdWeight>>
    BY <2>2, <2>4, <2>5 DEF ConnStep
  <2>6. ASSUME NEW dfd \in Fds, fds' = fds \cup {dfd}, fdWeight' = With(fdWeight, dfd, DefaultWeight)
        PROVE  ConnStep
    <3>1. DOMAIN fdWeight' = DOMAIN fdWeight \cup {dfd}
      BY <2>6 DEF With
    <3> QED BY <2>2, <2>4, <2>6, <3>1 DEF ConnStep
  <2> QED BY <2>3, <2>5, <2>6
<1>8. CASE Timer
  <2>1. UNCHANGED <<fdWeight, fdMember, bucket>>
    BY <1>8 DEF Timer
  <2>2. fds \subseteq fds'
    BY <1>8 DEF Timer, Redial, Opened
  <2> QED BY <2>1, <2>2 DEF ConnStep
<1>9. CASE CloseEpoch
  BY <1>9 DEF CloseEpoch, conn, ConnStep
<1> QED BY <1>1, <1>2, <1>3, <1>4, <1>5, <1>6, <1>7, <1>8, <1>9 DEF Next

\* Teardown forgets, for any number of connections and descriptors: nothing
\* is kept under a descriptor number that no open connection has
\* (epoch_node.cpp DEF-255, DEF-397).
THEOREM TeardownForgetsThm == Spec => []TeardownForgets
<1>1. Init => TeardownForgets
  BY EmptyFacts DEF Init, TeardownForgets
<1>2. TeardownForgets /\ [Next]_fleetVars => TeardownForgets'
  <2> SUFFICES ASSUME TeardownForgets, ConnStep PROVE TeardownForgets'
    BY StepConn
  <2>1. CASE UNCHANGED <<fds, fdWeight, fdMember, bucket>>
    BY <2>1 DEF TeardownForgets
  <2>2. ASSUME NEW fd \in fds, fds' = fds \ {fd}, fdWeight' = Without(fdWeight, fd),
               fdMember' = Without(fdMember, fd), bucket' = Without(bucket, fd)
        PROVE  TeardownForgets'
    <3>1. /\ DOMAIN fdWeight' = DOMAIN fdWeight \ {fd}
          /\ DOMAIN fdMember' = DOMAIN fdMember \ {fd}
          /\ DOMAIN bucket' = DOMAIN bucket \ {fd}
      BY <2>2 DEF Without
    <3> QED BY <2>2, <3>1 DEF TeardownForgets
  <2>3. CASE /\ fds \subseteq fds'
             /\ DOMAIN fdWeight' \subseteq DOMAIN fdWeight \cup fds'
             /\ DOMAIN fdMember' \subseteq DOMAIN fdMember \cup fds'
             /\ DOMAIN bucket' \subseteq DOMAIN bucket \cup fds'
    BY <2>3 DEF TeardownForgets
  <2> QED BY <2>1, <2>2, <2>3 DEF ConnStep
<1> QED BY <1>1, <1>2, PTL DEF Spec

---------------------------------------------------------------------------
\* Receipts are numbers, as the bound on them needs.
ReceiptTypes == \A m \in DOMAIN receipts : receipts[m].count \in Nat /\ receipts[m].last \in Nat

\* Uptime cannot be inflated by repeating or reordering receipts: each member
\* has at most one credited receipt per round up to its last, for any number
\* of rounds (epoch_node.cpp 0x0A, anti-replay).
THEOREM ReceiptsDistinctThm == Spec => []ReceiptsDistinct
<1> DEFINE I == ReceiptTypes /\ ReceiptsDistinct
<1>1. Init => I
  BY EmptyFacts DEF Init, ReceiptTypes, ReceiptsDistinct
<1>2. I /\ [Next]_fleetVars => I'
  <2> SUFFICES ASSUME I, [Next]_fleetVars PROVE I'
    OBVIOUS
  <2>1. CASE UNCHANGED receipts
    BY <2>1 DEF ReceiptTypes, ReceiptsDistinct
  <2>2. ASSUME NEW fd \in fds, NEW m \in Reporter, NEW rd \in StatedRounds, HandleUptime(fd, m, rd) PROVE I'
    <3> DEFINE last == IF m \in DOMAIN receipts THEN receipts[m].last ELSE -1
               n == 1 + (IF m \in DOMAIN receipts THEN receipts[m].count ELSE 0)
    <3>1. rd \in Nat /\ last \in Int /\ n \in Nat /\ n <= last + 2
      <4>1. rd \in Nat
        BY FleetAssumption
      <4>2. CASE m \in DOMAIN receipts
        BY <4>1, <4>2 DEF ReceiptTypes, ReceiptsDistinct
      <4>3. CASE m \notin DOMAIN receipts
        BY <4>1, <4>3
      <4> QED BY <4>2, <4>3
    <3>2. receipts' = IF ~Advances(rd, last) THEN receipts ELSE With(receipts, m, [count |-> n, last |-> rd])
      BY <2>2 DEF HandleUptime
    <3> HIDE DEF last, n
    <3>3. CASE ~Advances(rd, last)
      BY <2>1, <3>2, <3>3
    <3>4. CASE Advances(rd, last)
      <4> DEFINE r == [count |-> n, last |-> rd]
      <4>1. r.count \in Nat /\ r.last \in Nat /\ r.count <= r.last + 1
        BY <3>1, <3>4 DEF Advances
      <4>2. receipts' = With(receipts, m, r)
        BY <3>2, <3>4
      <4> HIDE DEF r
      <4>3. /\ DOMAIN receipts' = DOMAIN receipts \cup {m}
            /\ receipts'[m] = r
            /\ \A z \in DOMAIN receipts : z # m => receipts'[z] = receipts[z]
        BY <4>2 DEF With
      <4> QED BY <4>1, <4>3 DEF ReceiptTypes, ReceiptsDistinct
    <3> QED BY <3>3, <3>4
  <2>3. ASSUME NEW m \in Peer, Accept(m) \/ BanExpires(m) PROVE I'
    BY <2>1, <2>3 DEF Accept, BanExpires
  <2>4. ASSUME NEW fd \in fds, RateExceeded(fd) \/ Closed(fd) PROVE I'
    BY <2>1, <2>4 DEF RateExceeded, Closed, Disconnect
  <2>5. ASSUME NEW fd \in fds, NEW v \in signed, HandleVote(fd, v) PROVE I'
    BY <2>1, <2>5 DEF HandleVote
  <2>6. ASSUME NEW fd \in fds, NEW p \in Announced, HandleAnnounce(fd, p) PROVE I'
    BY <2>1, <2>6 DEF HandleAnnounce
  <2>7. CASE Timer \/ CloseEpoch \/ UNCHANGED fleetVars
    BY <2>1, <2>7 DEF Timer, CloseEpoch, fleetVars
  <2> QED BY <2>2, <2>3, <2>4, <2>5, <2>6, <2>7 DEF Next
<1> QED BY <1>1, <1>2, PTL DEF Spec
---------------------------------------------------------------------------
\* The first statement kept for a member and round was signed by that member
\* for that round; and stake exists for the members.
EvidenceSound == \A k \in DOMAIN evidence : \E u \in signed : StatementKey(u) = k /\ u.pref = evidence[k]
BondTable == DOMAIN bonds = Peer /\ bonds = [m \in Peer |-> bonds[m]]

\* A member that signed two preferences for one round.
Equivocated(m) ==
    \E u, v \in signed : u.member = m /\ v.member = m /\ u.round = v.round /\ u.pref # v.pref
Burnt(bs) == \E i \in DOMAIN bs : bs[i].state = "SLASHED"

LEMMA SeededFresh == ~Burnt(Seeded(<<>>))
<1> DEFINE none == [i \in DOMAIN <<>> |-> [<<>>[i] EXCEPT !.state = IF @ = "BONDING" THEN "ACTIVE" ELSE @]]
           b == [amount |-> 1, deposit |-> 0, state |-> "ACTIVE"]
<1>1. none = <<>>
  OBVIOUS
<1>2. Seeded(<<>>) = Append(none, b)
  BY DEF Seeded
<1>3. Append(<<>>, b) = <<b>>
  OBVIOUS
<1>4. b.state = "ACTIVE"
  OBVIOUS
<1> HIDE DEF none, b
<1> QED BY <1>1, <1>2, <1>3, <1>4 DEF Burnt

\* What a vote does to evidence, verdicts and stake.
LEMMA VoteSound ==
    ASSUME EvidenceSound, BondTable, SlashSound,
           NEW fd \in fds, NEW v \in signed, HandleVote(fd, v)
    PROVE  EvidenceSound' /\ BondTable' /\ SlashSound'
<1> DEFINE key == StatementKey(v)
           twice == key \in DOMAIN evidence /\ evidence[key] # v.pref
           burnt == IF twice THEN slash_equivocation(bonds[v.member]) ELSE bonds[v.member]
           stake == IF burnt = <<>> THEN Seeded(burnt) ELSE burnt
<1>0. signed' = signed
  BY DEF HandleVote, Admit
<1>1. CASE UNCHANGED vote
  BY <1>0, <1>1 DEF vote, EvidenceSound, BondTable, SlashSound
<1>2. CASE ~UNCHANGED vote
  <2>1. vote_fresh(v)
    BY <1>2 DEF HandleVote
  <2>2. bonds' = [bonds EXCEPT ![v.member] = stake]
    BY <2>1 DEF HandleVote
  <2>3. slashed' = IF twice THEN slashed \cup {v.member} ELSE slashed
    BY <2>1 DEF HandleVote
  <2>4. evidence' = IF twice THEN evidence
                    ELSE With(evidence, key, IF key \in DOMAIN evidence THEN evidence[key] ELSE v.pref)
    BY <2>1 DEF HandleVote
  <2>5. twice => Equivocated(v.member)
    <3> SUFFICES ASSUME twice PROVE Equivocated(v.member)
      OBVIOUS
    <3>1. PICK u \in signed : StatementKey(u) = key /\ u.pref = evidence[key]
      BY DEF EvidenceSound
    <3> QED BY <3>1 DEF StatementKey, Equivocated
  <2>6. \A m \in Peer : m \in slashed \/ Burnt(bonds[m]) => Equivocated(m)
    BY DEF SlashSound, Burnt, Equivocated
  <2>7. Burnt(stake) => twice \/ Burnt(bonds[v.member])
    <3>1. CASE twice
      BY <3>1
    <3>2. CASE ~twice
      <4>1. burnt = bonds[v.member]
        BY <3>2
      <4>2. CASE burnt = <<>>
        BY <4>2, SeededFresh
      <4>3. CASE burnt # <<>>
        BY <4>1, <4>3
      <4> QED BY <4>2, <4>3
    <3> QED BY <3>1, <3>2
  <2> HIDE DEF stake, burnt
  <2>8. BondTable' /\ \A m \in Peer : bonds'[m] = IF m = v.member THEN stake ELSE bonds[m]
    BY <2>2 DEF BondTable
  <2>9. EvidenceSound'
    <3>1. CASE twice
      BY <1>0, <2>4, <3>1 DEF EvidenceSound
    <3>2. CASE ~twice
      <4> HIDE DEF key
      <4>1. /\ DOMAIN evidence' = DOMAIN evidence \cup {key}
            /\ \A k \in DOMAIN evidence : evidence'[k] = evidence[k]
            /\ key \notin DOMAIN evidence => evidence'[key] = v.pref
        BY <2>4, <3>2 DEF With
      <4>2. StatementKey(v) = key
        BY DEF key
      <4> QED BY <1>0, <4>1, <4>2 DEF EvidenceSound
    <3> QED BY <3>1, <3>2
  <2>10. \A m \in Peer : m \in slashed' \/ Burnt(bonds'[m]) => Equivocated(m)
    <3> SUFFICES ASSUME NEW m \in Peer, m \in slashed' \/ Burnt(bonds'[m]) PROVE Equivocated(m)
      OBVIOUS
    <3> HIDE DEF twice
    <3>1. CASE m = v.member
      BY <2>3, <2>5, <2>6, <2>7, <2>8, <3>1
    <3>2. CASE m # v.member
      BY <2>3, <2>6, <2>8, <3>2
    <3> QED BY <3>1, <3>2
  <2> QED BY <1>0, <2>8, <2>9, <2>10 DEF SlashSound, Burnt, Equivocated
<1> QED BY <1>1, <1>2

\* Slashing is sound for any fleet: only a member that signed two preferences
\* for one round is slashed or loses stake, however votes are delayed,
\* repeated or spread over connections, through disconnections and epoch
\* closes (epoch_node.cpp 0x06, econ/stake.hpp slash_equivocation).
THEOREM SlashSoundThm == Spec => []SlashSound
<1> DEFINE I == EvidenceSound /\ BondTable /\ SlashSound
<1>1. Init => I
  <2> SUFFICES ASSUME Init PROVE I
    OBVIOUS
  <2>1. bonds = [m \in Peer |-> <<>>] /\ slashed = {} /\ evidence = Empty
    BY DEF Init
  <2>2. BondTable /\ \A m \in Peer : DOMAIN bonds[m] = {}
    BY <2>1 DEF BondTable
  <2> QED BY <2>1, <2>2, EmptyFacts DEF EvidenceSound, SlashSound
<1>2. I /\ [Next]_fleetVars => I'
  <2> SUFFICES ASSUME I, [Next]_fleetVars PROVE I'
    OBVIOUS
  <2>1. CASE UNCHANGED <<signed, evidence, slashed, bonds>>
    BY <2>1 DEF EvidenceSound, BondTable, SlashSound
  <2>2. ASSUME NEW fd \in fds, NEW v \in signed, HandleVote(fd, v) PROVE I'
    BY <2>2, VoteSound
  <2>3. ASSUME NEW m \in Peer, Accept(m) \/ BanExpires(m) PROVE I'
    BY <2>1, <2>3 DEF Accept, BanExpires, vote
  <2>4. ASSUME NEW fd \in fds, RateExceeded(fd) \/ Closed(fd) PROVE I'
    BY <2>1, <2>4 DEF RateExceeded, Closed, Disconnect
  <2>5. ASSUME NEW fd \in fds, NEW m \in Reporter, NEW rd \in StatedRounds, HandleUptime(fd, m, rd) PROVE I'
    BY <2>1, <2>5 DEF HandleUptime, Admit, vote
  <2>6. ASSUME NEW fd \in fds, NEW p \in Announced, HandleAnnounce(fd, p) PROVE I'
    BY <2>1, <2>6 DEF HandleAnnounce, Admit, vote
  <2>7. CASE Timer \/ CloseEpoch \/ UNCHANGED fleetVars
    BY <2>1, <2>7 DEF Timer, CloseEpoch, fleetVars, vote
  <2> QED BY <2>2, <2>3, <2>4, <2>5, <2>6, <2>7 DEF Next
<1> QED BY <1>1, <1>2, PTL DEF Spec

---------------------------------------------------------------------------
\* What a step does to the votes and the pending batches: an epoch close
\* empties them, a fresh vote enters them, other steps only remove.
VoteStep ==
    /\ signed' = signed
    /\ \/ /\ DOMAIN prefs' = {} /\ DOMAIN batch' = {}
       \/ /\ epoch' = epoch
          /\ \A m \in DOMAIN prefs' :
               \/ m \in DOMAIN prefs /\ prefs'[m] = prefs[m]
               \/ \E v \in signed : v.member = m /\ v.epoch = epoch /\ v.pref = prefs'[m]
          /\ \A k \in DOMAIN batch' :
               (k \in DOMAIN batch /\ batch'[k] = batch[k]) \/ batch'[k] = epoch

LEMMA BatchStep ==
    ASSUME NEW v, v.epoch = epoch, NEW k \in DOMAIN Batched(v)
    PROVE  (k \in DOMAIN batch /\ Batched(v)[k] = batch[k]) \/ Batched(v)[k] = epoch
<1> DEFINE key == <<v.round, v.pref>>
<1> HIDE DEF key
<1>1. \/ Batched(v) = batch \/ Batched(v) = Without(batch, key)
      \/ Batched(v) = With(batch, key, v.epoch)
  BY DEF Batched, key
<1>2. CASE Batched(v) = batch
  BY <1>2
<1>3. CASE Batched(v) = Without(batch, key)
  BY <1>3 DEF Without
<1>4. CASE Batched(v) = With(batch, key, v.epoch)
  BY <1>4 DEF With
<1> QED BY <1>1, <1>2, <1>3, <1>4

LEMMA StepVotes == ASSUME [Next]_fleetVars PROVE VoteStep
<1>1. CASE UNCHANGED <<signed, prefs, batch, epoch>>
  BY <1>1 DEF VoteStep
<1>2. ASSUME NEW m \in Peer, Accept(m) \/ BanExpires(m) PROVE VoteStep
  BY <1>1, <1>2 DEF Accept, BanExpires, vote
<1>3. ASSUME NEW fd \in fds, RateExceeded(fd) \/ Closed(fd) PROVE VoteStep
  <2>1. PICK lost : prefs' = Without(prefs, lost)
    BY <1>3 DEF RateExceeded, Closed, Disconnect
  <2>2. UNCHANGED <<signed, batch, epoch>>
    BY <1>3 DEF RateExceeded, Closed, Disconnect
  <2>3. \A m \in DOMAIN prefs' : m \in DOMAIN prefs /\ prefs'[m] = prefs[m]
    BY <2>1 DEF Without
  <2> QED BY <2>2, <2>3 DEF VoteStep
<1>4. ASSUME NEW fd \in fds, NEW v \in signed, HandleVote(fd, v) PROVE VoteStep
  <2>1. UNCHANGED <<signed, epoch>>
    BY <1>4 DEF HandleVote, Admit
  <2>2. CASE ~vote_fresh(v)
    BY <1>1, <1>4, <2>1, <2>2 DEF HandleVote, vote
  <2>3. CASE vote_fresh(v)
    <3>1. prefs' = With(prefs, v.member, v.pref) /\ batch' = Batched(v)
      BY <1>4, <2>3 DEF HandleVote
    <3>2. v.epoch = epoch
      BY <2>3 DEF vote_fresh
    <3>3. \A m \in DOMAIN prefs' :
             \/ m \in DOMAIN prefs /\ prefs'[m] = prefs[m]
             \/ m = v.member /\ prefs'[m] = v.pref
      BY <3>1 DEF With
    <3>4. \A k \in DOMAIN batch' :
             (k \in DOMAIN batch /\ batch'[k] = batch[k]) \/ batch'[k] = epoch
      BY <3>1, <3>2, BatchStep
    <3> QED BY <2>1, <3>2, <3>3, <3>4 DEF VoteStep
  <2> QED BY <2>2, <2>3
<1>5. ASSUME NEW fd \in fds, NEW m \in Reporter, NEW rd \in StatedRounds, HandleUptime(fd, m, rd)
      PROVE  VoteStep
  BY <1>1, <1>5 DEF HandleUptime, Admit, vote
<1>6. ASSUME NEW fd \in fds, NEW p \in Announced, HandleAnnounce(fd, p) PROVE VoteStep
  BY <1>1, <1>6 DEF HandleAnnounce, Admit, vote
<1>7. CASE Timer
  <2>1. UNCHANGED <<signed, prefs, epoch>> /\ (batch' = batch \/ batch' = Empty)
    BY <1>7 DEF Timer
  <2>2. \A k \in DOMAIN batch' : k \in DOMAIN batch /\ batch'[k] = batch[k]
    BY <2>1, EmptyFacts
  <2> QED BY <2>1, <2>2 DEF VoteStep
<1>8. CASE CloseEpoch
  BY <1>8, EmptyFacts DEF CloseEpoch, VoteStep
<1>9. CASE UNCHANGED fleetVars
  BY <1>1, <1>9 DEF fleetVars, vote
<1> QED BY <1>2, <1>3, <1>4, <1>5, <1>6, <1>7, <1>8, <1>9 DEF Next

\* Only statements of this epoch are counted, for any fleet: every vote the
\* tick holds was signed by that member for the epoch the node is in, through
\* relays, repetitions, reused descriptors, disconnections and epoch closes
\* (epoch_node.cpp DEF-393, DEF-398).
THEOREM VoiceCurrentThm == Spec => []VoiceCurrent
<1>1. Init => VoiceCurrent
  BY EmptyFacts DEF Init, VoiceCurrent
<1>2. VoiceCurrent /\ [Next]_fleetVars => VoiceCurrent'
  <2> SUFFICES ASSUME VoiceCurrent, VoteStep PROVE VoiceCurrent'
    BY StepVotes
  <2>1. CASE DOMAIN prefs' = {}
    BY <2>1 DEF VoiceCurrent
  <2>2. CASE DOMAIN prefs' # {}
    <3>1. /\ signed' = signed /\ epoch' = epoch
          /\ \A m \in DOMAIN prefs' :
               \/ m \in DOMAIN prefs /\ prefs'[m] = prefs[m]
               \/ \E v \in signed : v.member = m /\ v.epoch = epoch /\ v.pref = prefs'[m]
      BY <2>2 DEF VoteStep
    <3> SUFFICES ASSUME NEW m \in DOMAIN prefs'
                 PROVE  \E v \in signed : v.member = m /\ v.epoch = epoch /\ v.pref = prefs'[m]
      BY <3>1 DEF VoiceCurrent
    <3> QED BY <3>1 DEF VoiceCurrent
  <2> QED BY <2>1, <2>2
<1> QED BY <1>1, <1>2, PTL DEF Spec

\* The pairing of a batch is over one message, for any fleet: a pending batch
\* was begun in the epoch of every vote that can still join it
\* (epoch_node.cpp DEC-287, reset_epoch_ceremony).
THEOREM BatchesMatchThm == Spec => []BatchesMatch
<1>1. Init => BatchesMatch
  BY EmptyFacts DEF Init, BatchesMatch
<1>2. BatchesMatch /\ [Next]_fleetVars => BatchesMatch'
  BY StepVotes DEF VoteStep, BatchesMatch
<1> QED BY <1>1, <1>2, PTL DEF Spec
=============================================================================
