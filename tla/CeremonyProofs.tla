--------------------------- MODULE CeremonyProofs ---------------------------
(***************************************************************************)
(* Proofs about the ordering ceremony, for every number of nodes, pool     *)
(* size K, threshold T, seed topology and sort-key function, under         *)
(* connection losses and (except for NoTwoOrders) restarts.                *)
(***************************************************************************)
EXTENDS Ceremony, TLAPS, FiniteSetTheorems

-----------------------------------------------------------------------------
(* The operators of the model are well typed.                              *)

\* The root m2::order_root yields over a pool is an order of pooled envelopes.
LEMMA OrderRootType ==
    ASSUME NEW b, NEW p \in Seq(Envelope)
    PROVE  OrderRoot(b, p) \in Orders
<1>1. Contents(p) \subseteq Envelope
    BY DEF Contents
<1>2. \A e \in Contents(p) :
        Cardinality({f \in Contents(p) : SortKey(b, f) < SortKey(b, e)})
            \in 0 .. Cardinality(Envelope)
    <2> TAKE e \in Contents(p)
    <2> DEFINE S == {f \in Contents(p) : SortKey(b, f) < SortKey(b, e)}
    <2>1. S \subseteq Envelope
        BY <1>1
    <2>2. IsFiniteSet(Envelope)
        BY CeremonyAssumption
    <2>3. IsFiniteSet(S) /\ Cardinality(S) <= Cardinality(Envelope)
        BY <2>1, <2>2, FS_Subset
    <2>4. Cardinality(S) \in Nat /\ Cardinality(Envelope) \in Nat
        BY <2>2, <2>3, FS_CardinalityType
    <2> HIDE DEF S
    <2>5. Cardinality(S) \in 0 .. Cardinality(Envelope)
        BY <2>3, <2>4
    <2> QED
        BY <2>5 DEF S
<1>3. OrderRoot(b, p) \in [Contents(p) -> 0 .. Cardinality(Envelope)]
    BY <1>2 DEF OrderRoot
<1> QED
    BY <1>1, <1>3 DEF Orders

\* order_lock_ingest keeps a lock a lock.
LEMMA IngestType ==
    ASSUME NEW L \in Lock, NEW r \in Orders, NEW p \in Node
    PROVE  Ingest(L, r, p) \in Lock
<1>1. L.count + 1 \in Nat /\ L.signers \cup {p} \in SUBSET Node
    BY DEF Lock
<1>2. (L.attested \/ L.count + 1 >= T) \in BOOLEAN
    OBVIOUS
<1> QED
    BY <1>1, <1>2 DEF Ingest, Lock

LEMMA NoLockType == NoRoot \in Orders /\ NoLock \in Lock
<1>1. NoRoot \in [{} -> 0 .. Cardinality(Envelope)]
    BY DEF NoRoot
<1>2. NoRoot \in Orders
    BY <1>1 DEF Orders
<1> QED
    BY <1>2 DEF NoLock, Lock

LEMMA MessageType ==
    ASSUME NEW n \in Node
    PROVE  /\ SelfMember[n] \in Member
           /\ \A e \in Epochs, r \in Orders : OrderMsg(n, e, r) \in Message
           /\ \A p \in Seq(Envelope) : SyncMsg(n, p) \in Message
           /\ [type |-> "SYNC_REQ"] \in Message
           /\ \A a \in Public : AnnounceMsg(a) \in Message
    BY DEF Member, OrderMsg, SyncMsg, AnnounceMsg, Message

LEMMA SentType ==
    ASSUME NEW S, NEW ms \in Seq(Message), NEW ch \in [Links -> Seq(Message)]
    PROVE  Sent(S, ms, ch) \in [Links -> Seq(Message)]
    BY DEF Sent

\* The two ends of a connection, and the nodes that hold them.
LEMMA LinkEnds ==
    ASSUME NEW l \in Links
    PROVE  /\ l[1] \in Conn /\ l = <<l[1], l[2]>>
           /\ Owner(l) \in Node
           /\ Other(l) \in Links /\ Other(l) # l /\ Other(Other(l)) = l
<1>1. l[1] \in Conn /\ l[2] \in {1, 2} /\ l = <<l[1], l[2]>>
    BY DEF Links
<1>2. l[1][1] \in Node /\ l[1][2] \in Node
    BY <1>1 DEF Conn
<1>3. <<l[1], 1>> \in Links /\ <<l[1], 2>> \in Links
    BY <1>1 DEF Links
<1> QED
    BY <1>1, <1>2, <1>3 DEF Owner, Other

LEMMA ReadType ==
    ASSUME NEW n \in Node, NEW l \in Links, NEW m, TypeOK, Arrives(n, l, m)
    PROVE  /\ Read(l) \in [Links -> Seq(Message)]
           /\ m \in Message
<1>1. Other(l) \in Links
    BY LinkEnds
<1>2. chan[Other(l)] \in Seq(Message) \ {<<>>}
    BY <1>1 DEF TypeOK, Arrives
<1> QED
    BY <1>1, <1>2 DEF TypeOK, Arrives, Read

-----------------------------------------------------------------------------
(* The inductive invariant.                                                *)

\* Nothing is pooled before the loop; the decrypt loop runs under a committed
\* order and over its pool; a committed order has a pool.
LoopInPool ==
    \A n \in Node :
        /\ pc[n] = "boot" => pool[n] = <<>>
        /\ committed[n] => pool[n] # <<>>
        /\ pc[n] = "decrypt" => committed[n] /\ ix[n] \in 1 .. Len(pool[n])

\* A lock without a partial has no signer and is not attested.
LockCounts ==
    \A n \in Node, e \in Epochs :
        locks[n][e].count = 0 => locks[n][e].signers = {} /\ ~locks[n][e].attested

\* Every order statement in flight was signed.
AllSigned(ms, S) ==
    \A i \in DOMAIN ms :
        ms[i].type = "ORDER" =>
            [node |-> ms[i].from, epoch |-> ms[i].epoch,
             root |-> ms[i].root] \in S
InFlightSigned == \A l \in Links : AllSigned(chan[l], signed)

Inv ==
    /\ TypeOK
    /\ LoopInPool
    /\ KnowledgeAfterCommit
    /\ PoolOfThisEpoch
    /\ LockCounts
    /\ InFlightSigned
    /\ LockIntegrity

\* Without restarts: what a node signed belongs to an epoch it has left, or is
\* its committed order.
SignedPast ==
    \A n \in Node : \A s \in signed :
        s.node = n =>
            \/ s.epoch < epoch[n]
            \/ s.epoch = epoch[n] /\ committed[n] /\ s.root = root[n]

BootEpoch == \A n \in Node : pc[n] = "boot" => epoch[n] = 0

OrderInv == SignedPast /\ BootEpoch /\ NoTwoOrders

-----------------------------------------------------------------------------
(* Sequences of messages keep AllSigned.                                   *)

LEMMA AllSignedConcat ==
    ASSUME NEW s \in Seq(Message), NEW t \in Seq(Message), NEW S,
           AllSigned(s, S), AllSigned(t, S)
    PROVE  AllSigned(s \o t, S)
<1> SUFFICES ASSUME NEW i \in DOMAIN (s \o t), (s \o t)[i].type = "ORDER"
             PROVE  [node |-> (s \o t)[i].from, epoch |-> (s \o t)[i].epoch,
                     root |-> (s \o t)[i].root] \in S
    BY DEF AllSigned
<1>1. CASE i <= Len(s)
    <2>1. i \in DOMAIN s /\ (s \o t)[i] = s[i]
        BY <1>1
    <2> QED
        BY <2>1 DEF AllSigned
<1>2. CASE i > Len(s)
    <2>1. i - Len(s) \in DOMAIN t /\ (s \o t)[i] = t[i - Len(s)]
        BY <1>2
    <2> QED
        BY <2>1 DEF AllSigned
<1> QED
    BY <1>1, <1>2

LEMMA AllSignedTail ==
    ASSUME NEW s \in Seq(Message), s # <<>>, NEW S, AllSigned(s, S)
    PROVE  AllSigned(Tail(s), S)
<1> SUFFICES ASSUME NEW i \in DOMAIN Tail(s), Tail(s)[i].type = "ORDER"
             PROVE  [node |-> Tail(s)[i].from, epoch |-> Tail(s)[i].epoch,
                     root |-> Tail(s)[i].root] \in S
    BY DEF AllSigned
<1>1. i + 1 \in DOMAIN s /\ Tail(s)[i] = s[i + 1]
    OBVIOUS
<1> QED
    BY <1>1 DEF AllSigned

LEMMA AllSignedMono ==
    ASSUME NEW s, NEW S, NEW R, S \subseteq R, AllSigned(s, S)
    PROVE  AllSigned(s, R)
    BY DEF AllSigned

\* A 0x0C batch, a 0x0B request, an announcement and silence carry no order
\* statement.
LEMMA AllSignedQuiet ==
    ASSUME NEW S, NEW n \in Node, NEW p
    PROVE  /\ AllSigned(<<>>, S)
           /\ AllSigned(<<SyncMsg(n, p)>>, S)
           /\ AllSigned(<<[type |-> "SYNC_REQ"]>>, S)
           /\ \A a : AllSigned(<<AnnounceMsg(a)>>, S)
    BY DEF AllSigned, SyncMsg, AnnounceMsg

LEMMA QuietType ==
    ASSUME NEW n \in Node, NEW p \in Seq(Envelope)
    PROVE  /\ <<>> \in Seq(Message)
           /\ <<SyncMsg(n, p)>> \in Seq(Message)
           /\ <<[type |-> "SYNC_REQ"]>> \in Seq(Message)
           /\ \A a \in Public : <<AnnounceMsg(a)>> \in Seq(Message)
<1>1. /\ SyncMsg(n, p) \in Message /\ [type |-> "SYNC_REQ"] \in Message
      /\ \A a \in Public : AnnounceMsg(a) \in Message
    BY MessageType
<1> QED
    BY <1>1

LEMMA AllSignedSent ==
    ASSUME NEW E, NEW ms \in Seq(Message), NEW S,
           NEW ch \in [Links -> Seq(Message)],
           AllSigned(ms, S), \A l \in Links : AllSigned(ch[l], S)
    PROVE  \A l \in Links : AllSigned(Sent(E, ms, ch)[l], S)
<1> TAKE l \in Links
<1>1. ch[l] \in Seq(Message)
    OBVIOUS
<1>2. Sent(E, ms, ch)[l] \in {ch[l] \o ms, ch[l]}
    BY DEF Sent
<1> QED
    BY <1>1, <1>2, AllSignedConcat

\* What an accepted connection is sent first.
LEMMA WelcomeQuiet ==
    ASSUME TypeOK, NEW n \in Node, NEW S
    PROVE  Welcome(n) \in Seq(Message) /\ AllSigned(Welcome(n), S)
<1> DEFINE a == IF pool[n] = <<>> THEN <<>> ELSE <<SyncMsg(n, pool[n])>>
           b == IF n \in Public THEN <<AnnounceMsg(n)>> ELSE <<>>
<1>1. pool[n] \in Seq(Envelope)
    BY DEF TypeOK
<1>2. a \in Seq(Message) /\ AllSigned(a, S)
    BY <1>1, QuietType, AllSignedQuiet
<1>3. b \in Seq(Message) /\ AllSigned(b, S)
    BY <1>1, QuietType, AllSignedQuiet
<1>4. Welcome(n) = a \o b
    BY DEF Welcome
<1> HIDE DEF a, b
<1> QED
    BY <1>2, <1>3, <1>4, AllSignedConcat

LEMMA AllSignedRead ==
    ASSUME NEW n \in Node, NEW l \in Links, NEW m, TypeOK, Arrives(n, l, m),
           InFlightSigned
    PROVE  /\ \A k \in Links : AllSigned(Read(l)[k], signed)
           /\ m.type = "ORDER" =>
                [node |-> m.from, epoch |-> m.epoch, root |-> m.root]
                    \in signed
<1> DEFINE k == Other(l)
<1>1. k \in Links /\ chan[k] \in Seq(Message) /\ chan[k] # <<>>
    BY LinkEnds DEF TypeOK, Arrives
<1>2. AllSigned(chan[k], signed)
    BY <1>1 DEF InFlightSigned
<1>3. \A j \in Links : Read(l)[j] \in {chan[j], Tail(chan[k])}
    BY <1>1 DEF Read, TypeOK
<1>4. \A j \in Links : AllSigned(Read(l)[j], signed)
    BY <1>1, <1>2, <1>3, AllSignedTail DEF InFlightSigned
<1>5. 1 \in DOMAIN chan[k] /\ m = chan[k][1]
    BY <1>1 DEF Arrives
<1> QED
    BY <1>2, <1>4, <1>5 DEF AllSigned

-----------------------------------------------------------------------------
(* Every action keeps the invariant.                                       *)

LEMMA InitInv == Init => Inv
<1> SUFFICES ASSUME Init PROVE Inv
    OBVIOUS
<1> USE CeremonyAssumption DEF Init
<1>1. TypeOK
    BY NoLockType DEF TypeOK, Epochs, Links
<1>2. InFlightSigned
    BY DEF InFlightSigned, AllSigned
<1>3. LockCounts /\ LockIntegrity
    BY DEF LockCounts, LockIntegrity, NoLock
<1> QED
    BY <1>1, <1>2, <1>3 DEF Inv, LoopInPool, KnowledgeAfterCommit, PoolOfThisEpoch

LEMMA EnterLoopInv ==
    ASSUME Inv, NEW n \in Node, EnterLoop(n)
    PROVE  Inv'
<1> USE DEF EnterLoop, ceremony, net, Inv
<1>1. TypeOK'
    BY DEF TypeOK
<1>2. LoopInPool' /\ KnowledgeAfterCommit'
    BY DEF TypeOK, LoopInPool, KnowledgeAfterCommit
<1>3. PoolOfThisEpoch'
    BY DEF TypeOK, LoopInPool, PoolOfThisEpoch
<1> QED
    BY <1>1, <1>2, <1>3 DEF LockCounts, InFlightSigned, LockIntegrity

\* A step that leaves the nodes alone and replaces the connections.
LEMMA ConnectionStepInv ==
    ASSUME Inv, UNCHANGED <<pc, ix, fold, ceremony, poolEpoch, root, beacon,
                            signed>>,
           known' \in [Node -> SUBSET Public],
           dialed' \subseteq Conn, accepted' \subseteq dialed',
           chan' \in [Links -> Seq(Message)],
           \A l \in Links : AllSigned(chan'[l], signed),
           faults' \in 0 .. MaxFaults
    PROVE  Inv'
<1> USE DEF Inv, fold, ceremony
<1>1. TypeOK'
    BY DEF TypeOK
<1>2. LoopInPool' /\ KnowledgeAfterCommit' /\ PoolOfThisEpoch'
    BY DEF LoopInPool, KnowledgeAfterCommit, PoolOfThisEpoch
<1>3. InFlightSigned'
    BY DEF InFlightSigned
<1> QED
    BY <1>1, <1>2, <1>3 DEF LockCounts, LockIntegrity

LEMMA DialInv ==
    ASSUME Inv, NEW c \in Conn, DialSeed(c) \/ Reconnect(c)
    PROVE  Inv'
<1>1. c[1] \in Node /\ <<c, 1>> \in Links
    BY DEF Conn, Links
<1> DEFINE Dials(h) == /\ h \in Seq(Message)
                       /\ AllSigned(h, signed)
                       /\ Dial(c, h)
<1>2. ASSUME NEW h, Dials(h) PROVE Inv'
    <2>1. chan' \in [Links -> Seq(Message)]
        BY <1>2 DEF Dial, Inv, TypeOK
    <2>2. \A l \in Links : AllSigned(chan'[l], signed)
        BY <1>1, <1>2 DEF Dial, Inv, TypeOK, InFlightSigned
    <2> QED
        BY <1>2, <2>1, <2>2, ConnectionStepInv DEF Dial, Inv, TypeOK
<1>3. Dials(<<[type |-> "SYNC_REQ"]>>) \/ Dials(<<>>)
    <2>1. <<>> \in Seq(Envelope)
        OBVIOUS
    <2>2. <<[type |-> "SYNC_REQ"]>> \in Seq(Message) /\ <<>> \in Seq(Message)
        BY <1>1, <2>1, QuietType
    <2>3. /\ AllSigned(<<[type |-> "SYNC_REQ"]>>, signed)
          /\ AllSigned(<<>>, signed)
        BY <1>1, AllSignedQuiet
    <2> QED
        BY <2>2, <2>3 DEF DialSeed, Reconnect
<1> QED
    BY <1>2, <1>3

LEMMA AcceptInv ==
    ASSUME Inv, NEW c \in Conn, Accept(c)
    PROVE  Inv'
<1>1. c[2] \in Node /\ <<c, 2>> \in Links
    BY DEF Conn, Links
<1>2. Welcome(c[2]) \in Seq(Message) /\ AllSigned(Welcome(c[2]), signed)
    BY <1>1, WelcomeQuiet DEF Inv
<1>3. chan' = [chan EXCEPT ![<<c, 2>>] = Welcome(c[2])]
    BY DEF Accept
<1>4. chan' \in [Links -> Seq(Message)]
    BY <1>2, <1>3 DEF Inv, TypeOK
<1>5. \A l \in Links : AllSigned(chan'[l], signed)
    BY <1>1, <1>2, <1>3 DEF Inv, TypeOK, InFlightSigned
<1> QED
    BY <1>4, <1>5, ConnectionStepInv DEF Accept, Inv, TypeOK

LEMMA LoseChan ==
    ASSUME Inv, NEW cs, Lose(cs)
    PROVE  /\ dialed' \subseteq Conn
           /\ accepted' \subseteq dialed'
           /\ chan' \in [Links -> Seq(Message)]
           /\ \A l \in Links : AllSigned(chan'[l], signed)
           /\ faults' \in 0 .. MaxFaults
<1>1. AllSigned(<<>>, signed)
    BY DEF AllSigned
<1> QED
    BY <1>1, CeremonyAssumption DEF Lose, Inv, TypeOK, InFlightSigned

LEMMA DisconnectInv ==
    ASSUME Inv, NEW c \in Conn, Disconnect(c)
    PROVE  Inv'
    BY LoseChan, ConnectionStepInv DEF Disconnect, Inv, TypeOK

LEMMA RestartInv ==
    ASSUME Inv, NEW n \in Node, Restart(n)
    PROVE  Inv'
<1> USE DEF Inv, Restart
<1> DEFINE cs == {c \in dialed : n \in {c[1], c[2]}}
<1>1. /\ dialed' \subseteq Conn
      /\ accepted' \subseteq dialed'
      /\ chan' \in [Links -> Seq(Message)]
      /\ \A l \in Links : AllSigned(chan'[l], signed)
      /\ faults' \in 0 .. MaxFaults
    <2>1. Lose(cs)
        OBVIOUS
    <2> QED
        BY <2>1, LoseChan
<1>2. TypeOK'
    <2>1. 0 \in 0 .. K - 1 /\ 0 \in Epochs
        BY CeremonyAssumption DEF Epochs
    <2>2. /\ decrees' \in [Node -> 0 .. K - 1]
          /\ poolEpoch' \in [Node -> Epochs]
        BY <2>1 DEF TypeOK
    <2>3. /\ seen' \in [Node -> Seq(Envelope \cup Decree)]
          /\ pool' \in [Node -> Seq(Envelope)]
          /\ beacon' \in [Node -> Seq(Epochs)]
        BY DEF TypeOK
    <2>4. /\ root' \in [Node -> Orders]
          /\ locks' \in [Node -> [Epochs -> Lock]]
        BY NoLockType DEF TypeOK
    <2>5. /\ pc' \in [Node -> {"boot", "idle", "decrypt"}]
          /\ ix' \in [Node -> Nat \ {0}]
          /\ epoch' \in [Node -> Nat]
          /\ opened' \in [Node -> SUBSET (Nat \ {0})]
          /\ thr' \in [Node -> SUBSET [ix : Nat \ {0}, member : Member,
                                        env : Envelope]]
          /\ committed' \in [Node -> BOOLEAN]
          /\ known' \in [Node -> SUBSET Public]
          /\ signed' \subseteq [node : Node, epoch : Epochs, root : Orders]
        BY DEF TypeOK
    <2> QED
        BY <1>1, <2>2, <2>3, <2>4, <2>5 DEF TypeOK
<1>3. LoopInPool' /\ KnowledgeAfterCommit' /\ PoolOfThisEpoch'
    BY DEF TypeOK, LoopInPool, KnowledgeAfterCommit, PoolOfThisEpoch
<1>4. LockCounts' /\ LockIntegrity'
    BY DEF TypeOK, LockCounts, LockIntegrity, NoLock
<1>5. InFlightSigned'
    BY <1>1 DEF InFlightSigned
<1> QED
    BY <1>2, <1>3, <1>4, <1>5

LEMMA AddSeenType ==
    ASSUME NEW S, NEW s \in Seq(S), NEW d \in S
    PROVE  AddSeen(s, d) \in Seq(S)
<1>1. CASE Len(s) < SeenCap
    BY <1>1 DEF AddSeen
<1>2. CASE ~(Len(s) < SeenCap)
    <2>1. s # <<>>
        BY <1>2, CeremonyAssumption
    <2>2. Tail(s) \in Seq(S)
        BY <2>1
    <2> QED
        BY <1>2, <2>2 DEF AddSeen
<1> QED
    BY <1>1, <1>2

\* handle_decree keeps its node's pool and order, or drops both with
\* everything decrypted, and touches no other node.
Keeps(n, op) ==
    /\ epoch'[n] = epoch[n]
    /\ pool'[n] = pool[n]
    /\ opened'[n] = op
    /\ committed'[n] = committed[n]
    /\ locks'[n] = locks[n]

Closes(n) ==
    /\ epoch'[n] = epoch[n] + 1
    /\ pool'[n] = <<>>
    /\ opened'[n] = {}
    /\ committed'[n] = FALSE
    /\ locks'[n] = [e \in Epochs |-> NoLock]

LEMMA HandleDecreeEffect ==
    ASSUME TypeOK, NEW n \in Node, NEW d, NEW op, HandleDecree(n, d, op)
    PROVE  /\ \A m \in Node \ {n} : Keeps(m, opened[m])
           /\ Keeps(n, op) \/ Closes(n)
<1>1. CASE d \in Contents(seen[n])
    BY <1>1 DEF TypeOK, HandleDecree, fold, Keeps
<1>2. CASE d \notin Contents(seen[n]) /\ ~EpochComplete(n)
    BY <1>2 DEF TypeOK, HandleDecree, Keeps
<1>3. CASE d \notin Contents(seen[n]) /\ EpochComplete(n)
    BY <1>3 DEF TypeOK, HandleDecree, ResetCeremony, Keeps, Closes
<1> QED
    BY <1>1, <1>2, <1>3

LEMMA HandleDecreeType ==
    ASSUME TypeOK, NEW n \in Node, NEW d \in Envelope \cup Decree,
           NEW op \in SUBSET (Nat \ {0}), HandleDecree(n, d, op)
    PROVE  /\ epoch' \in [Node -> Nat]
           /\ decrees' \in [Node -> 0 .. K - 1]
           /\ seen' \in [Node -> Seq(Envelope \cup Decree)]
           /\ pool' \in [Node -> Seq(Envelope)]
           /\ opened' \in [Node -> SUBSET (Nat \ {0})]
           /\ thr' \in [Node -> SUBSET [ix : Nat \ {0}, member : Member,
                                         env : Envelope]]
           /\ committed' \in [Node -> BOOLEAN]
           /\ locks' \in [Node -> [Epochs -> Lock]]
<1>1. CASE d \in Contents(seen[n])
    BY <1>1 DEF TypeOK, HandleDecree, fold
<1>2. CASE d \notin Contents(seen[n])
    <2>1. /\ seen \in [Node -> Seq(Envelope \cup Decree)]
          /\ seen' = [seen EXCEPT ![n] = AddSeen(seen[n], d)]
        BY <1>2 DEF TypeOK, HandleDecree
    <2>2. AddSeen(seen[n], d) \in Seq(Envelope \cup Decree)
        BY <2>1, AddSeenType
    <2>3. seen' \in [Node -> Seq(Envelope \cup Decree)]
        BY <2>1, <2>2
    <2>4. CASE ~EpochComplete(n)
        <3>1. /\ decrees' = [decrees EXCEPT ![n] = @ + 1]
              /\ opened' = [opened EXCEPT ![n] = op]
              /\ UNCHANGED <<epoch, pool, thr, committed, locks>>
            BY <1>2, <2>4 DEF HandleDecree
        <3>2. decrees \in [Node -> 0 .. K - 1] /\ K \in Nat
            BY CeremonyAssumption DEF TypeOK
        <3>3. decrees' \in [Node -> 0 .. K - 1]
            BY <2>4, <3>1, <3>2 DEF EpochComplete
        <3> QED
            BY <2>3, <3>1, <3>3 DEF TypeOK
    <2>5. CASE EpochComplete(n)
        <3>1. /\ decrees' = [decrees EXCEPT ![n] = 0]
              /\ epoch' = [epoch EXCEPT ![n] = @ + 1]
              /\ committed' = [committed EXCEPT ![n] = FALSE]
              /\ pool' = [pool EXCEPT ![n] = <<>>]
              /\ opened' = [opened EXCEPT ![n] = {}]
              /\ thr' = [thr EXCEPT ![n] = {}]
              /\ locks' = [locks EXCEPT ![n] = [e \in Epochs |-> NoLock]]
            BY <1>2, <2>5 DEF HandleDecree, ResetCeremony
        <3>2. decrees \in [Node -> 0 .. K - 1] /\ 0 \in 0 .. K - 1
            BY CeremonyAssumption DEF TypeOK
        <3>3. decrees' \in [Node -> 0 .. K - 1]
            BY <3>1, <3>2
        <3>4. locks' \in [Node -> [Epochs -> Lock]]
            BY <3>1, NoLockType DEF TypeOK
        <3>5. pool' \in [Node -> Seq(Envelope)] /\ epoch' \in [Node -> Nat]
            BY <3>1 DEF TypeOK
        <3>6. /\ opened' \in [Node -> SUBSET (Nat \ {0})]
              /\ thr' \in [Node -> SUBSET [ix : Nat \ {0}, member : Member,
                                            env : Envelope]]
              /\ committed' \in [Node -> BOOLEAN]
            BY <3>1 DEF TypeOK
        <3> QED
            BY <2>3, <3>3, <3>4, <3>5, <3>6
    <2> QED
        BY <2>4, <2>5
<1> QED
    BY <1>1, <1>2

\* The invariant apart from the program counter and the connections.
LEMMA HandleDecreeInv ==
    ASSUME Inv, NEW n \in Node, NEW d \in Envelope \cup Decree,
           NEW op \in SUBSET (Nat \ {0}), op # {} => committed[n],
           HandleDecree(n, d, op),
           UNCHANGED <<poolEpoch, root, beacon, net, signed>>
    PROVE  /\ KnowledgeAfterCommit'
           /\ PoolOfThisEpoch'
           /\ LockCounts'
           /\ LockIntegrity'
           /\ InFlightSigned'
           /\ \A m \in Node : committed'[m] => pool'[m] # <<>>
<1>1. /\ \A m \in Node \ {n} : Keeps(m, opened[m])
      /\ Keeps(n, op) \/ Closes(n)
    BY HandleDecreeEffect DEF Inv
<1> USE DEF Keeps, Closes
<1>2. KnowledgeAfterCommit'
    BY <1>1 DEF Inv, KnowledgeAfterCommit
<1>3. PoolOfThisEpoch'
    BY <1>1 DEF Inv, PoolOfThisEpoch
<1>4. \A m \in Node, e \in Epochs : locks'[m][e] \in {locks[m][e], NoLock}
    BY <1>1
<1>5. LockCounts'
    BY <1>4 DEF Inv, LockCounts, NoLock
<1>6. LockIntegrity'
    BY <1>4 DEF Inv, LockIntegrity, NoLock
<1>7. InFlightSigned'
    BY DEF Inv, InFlightSigned, net
<1>8. \A m \in Node : committed'[m] => pool'[m] # <<>>
    BY <1>1 DEF Inv, LoopInPool
<1> QED
    BY <1>2, <1>3, <1>5, <1>6, <1>7, <1>8

LEMMA ReceiveDecreeInv ==
    ASSUME Inv, NEW n \in Node, NEW d \in Decree, ReceiveDecree(n, d)
    PROVE  Inv'
<1>1. opened[n] \in SUBSET (Nat \ {0}) /\ (opened[n] # {} => committed[n])
    BY DEF Inv, TypeOK, KnowledgeAfterCommit
<1>2. /\ pc[n] = "idle"
      /\ HandleDecree(n, d, opened[n])
      /\ UNCHANGED <<pc, ix, poolEpoch, root, beacon, net, signed>>
    BY DEF ReceiveDecree
<1>3. /\ KnowledgeAfterCommit' /\ PoolOfThisEpoch' /\ LockCounts'
      /\ LockIntegrity' /\ InFlightSigned'
      /\ \A m \in Node : committed'[m] => pool'[m] # <<>>
    BY <1>1, <1>2, HandleDecreeInv
<1>4. TypeOK'
    BY <1>1, <1>2, HandleDecreeType DEF Inv, TypeOK, net
<1>5. /\ \A m \in Node \ {n} : Keeps(m, opened[m])
      /\ Keeps(n, opened[n]) \/ Closes(n)
    BY <1>2, HandleDecreeEffect DEF Inv
<1>6. LoopInPool'
    BY <1>2, <1>3, <1>5 DEF Inv, LoopInPool, Keeps, Closes
<1> QED
    BY <1>3, <1>4, <1>6 DEF Inv

\* Whatever the loop does to the pool, its index stays inside.
LEMMA LoopStep ==
    ASSUME Inv, NEW n \in Node, DecryptStep(n),
           pool'[n] \in Seq(Envelope),
           pool'[n] = <<>> \/ (pool'[n] = pool[n] /\ committed'[n]),
           \A m \in Node \ {n} : pool'[m] = pool[m] /\ committed'[m] = committed[m],
           \A m \in Node : committed'[m] => pool'[m] # <<>>
    PROVE  /\ pc' \in [Node -> {"boot", "idle", "decrypt"}]
           /\ ix' \in [Node -> Nat \ {0}]
           /\ LoopInPool'
<1>1. /\ pc \in [Node -> {"boot", "idle", "decrypt"}]
      /\ ix \in [Node -> Nat \ {0}]
      /\ LoopInPool
    BY DEF Inv, TypeOK
<1>2. \/ /\ ix[n] + 1 <= Len(pool'[n])
         /\ ix' = [ix EXCEPT ![n] = @ + 1]
         /\ pc' = pc
      \/ /\ ix' = [ix EXCEPT ![n] = 1]
         /\ pc' = [pc EXCEPT ![n] = "idle"]
    BY DEF DecryptStep
<1>3. pc[n] = "decrypt"
    BY DEF DecryptStep
<1>4. CASE /\ ix[n] + 1 <= Len(pool'[n])
           /\ ix' = [ix EXCEPT ![n] = @ + 1]
           /\ pc' = pc
    <2>1. ix' \in [Node -> Nat \ {0}]
        BY <1>1, <1>4
    <2>2. pool'[n] = pool[n] /\ committed'[n]
        <3>1. ix[n] + 1 > 0 /\ Len(<<>>) = 0
            BY <1>1
        <3>2. pool'[n] # <<>>
            BY <1>4, <3>1, <1>1
        <3> QED
            BY <3>2
    <2>3. ix'[n] \in 1 .. Len(pool'[n])
        BY <1>1, <1>4, <2>1
    <2> QED
        BY <1>1, <1>3, <1>4, <2>1, <2>2, <2>3 DEF LoopInPool
<1>5. CASE /\ ix' = [ix EXCEPT ![n] = 1]
           /\ pc' = [pc EXCEPT ![n] = "idle"]
    BY <1>1, <1>5 DEF LoopInPool
<1> QED
    BY <1>2, <1>4, <1>5

LEMMA DecryptStepInv ==
    ASSUME Inv, NEW n \in Node, DecryptStep(n)
    PROVE  Inv'
<1> DEFINE op == opened[n] \cup {ix[n]}
<1>1. /\ pc[n] = "decrypt"
      /\ UNCHANGED <<poolEpoch, root, beacon, net, signed>>
      /\ HandleDecree(n, pool[n][ix[n]], op) \/ UNCHANGED <<fold, ceremony>>
    BY DEF DecryptStep
<1>2. pool[n] \in Seq(Envelope) /\ ix[n] \in Nat \ {0}
    BY DEF Inv, TypeOK
<1>3. committed[n] /\ ix[n] \in 1 .. Len(pool[n])
    BY <1>1 DEF Inv, LoopInPool
<1>4. pool[n][ix[n]] \in Envelope
    BY <1>2, <1>3
<1>5. op \in SUBSET (Nat \ {0})
    BY <1>2 DEF Inv, TypeOK
<1>6. CASE HandleDecree(n, pool[n][ix[n]], op)
    <2> HIDE DEF op
    <2>1. /\ KnowledgeAfterCommit' /\ PoolOfThisEpoch' /\ LockCounts'
          /\ LockIntegrity' /\ InFlightSigned'
          /\ \A m \in Node : committed'[m] => pool'[m] # <<>>
        BY <1>1, <1>3, <1>4, <1>5, <1>6, HandleDecreeInv
    <2>2. /\ \A m \in Node \ {n} : Keeps(m, opened[m])
          /\ Keeps(n, op) \/ Closes(n)
        BY <1>6, HandleDecreeEffect DEF Inv
    <2>3. /\ pool'[n] \in Seq(Envelope)
          /\ pool'[n] = <<>> \/ (pool'[n] = pool[n] /\ committed'[n])
          /\ \A m \in Node \ {n} :
                pool'[m] = pool[m] /\ committed'[m] = committed[m]
        <3>1. <<>> \in Seq(Envelope)
            OBVIOUS
        <3>2. \A m \in Node \ {n} :
                pool'[m] = pool[m] /\ committed'[m] = committed[m]
            BY <2>2 DEF Keeps
        <3>3. CASE Keeps(n, op)
            BY <1>2, <1>3, <3>2, <3>3 DEF Keeps
        <3>4. CASE Closes(n)
            <4>1. pool'[n] = <<>>
                BY <3>4 DEF Closes
            <4> QED
                BY <3>1, <3>2, <4>1
        <3> QED
            BY <2>2, <3>3, <3>4
    <2>4. /\ pc' \in [Node -> {"boot", "idle", "decrypt"}]
          /\ ix' \in [Node -> Nat \ {0}]
          /\ LoopInPool'
        BY <2>1, <2>3, LoopStep
    <2>5. TypeOK'
        BY <1>1, <1>4, <1>5, <1>6, <2>4, HandleDecreeType DEF Inv, TypeOK, net
    <2> QED
        BY <2>1, <2>4, <2>5 DEF Inv
<1>7. CASE UNCHANGED <<fold, ceremony>>
    <2>1. UNCHANGED <<pool, opened, committed, locks>>
        BY <1>7 DEF ceremony
    <2>2. /\ pc' \in [Node -> {"boot", "idle", "decrypt"}]
          /\ ix' \in [Node -> Nat \ {0}]
          /\ LoopInPool'
        <3>1. \A m \in Node : committed'[m] => pool'[m] # <<>>
            BY <2>1 DEF Inv, LoopInPool
        <3>2. pool' = pool /\ committed' = committed
            BY <2>1
        <3> QED
            BY <1>2, <1>3, <3>1, <3>2, LoopStep
    <2>3. TypeOK'
        BY <1>1, <1>7, <2>2 DEF Inv, TypeOK, net, fold, ceremony
    <2>4. KnowledgeAfterCommit' /\ PoolOfThisEpoch' /\ LockCounts'
        BY <1>1, <1>7, <2>1
           DEF Inv, KnowledgeAfterCommit, PoolOfThisEpoch, LockCounts, fold
    <2>5. InFlightSigned' /\ LockIntegrity'
        BY <1>1, <2>1 DEF Inv, InFlightSigned, LockIntegrity, net
    <2> QED
        BY <2>2, <2>3, <2>4, <2>5 DEF Inv
<1> QED
    BY <1>1, <1>6, <1>7

\* Appending to a pool of the current epoch.
LEMMA PoolEnvelopeEffect ==
    ASSUME Inv, NEW n \in Node, NEW e \in Envelope, PoolEnvelope(n, e),
           epoch[n] <= MaxEpoch
    PROVE  /\ pool' \in [Node -> Seq(Envelope)]
           /\ poolEpoch' \in [Node -> Epochs]
           /\ pool'[n] # <<>>
           /\ Len(pool'[n]) = Len(pool[n]) + 1
           /\ poolEpoch'[n] = epoch[n]
           /\ \A m \in Node \ {n} :
                pool'[m] = pool[m] /\ poolEpoch'[m] = poolEpoch[m]
<1>1. /\ pool \in [Node -> Seq(Envelope)]
      /\ pool' = [pool EXCEPT ![n] = Append(@, e)]
    BY DEF Inv, TypeOK, PoolEnvelope
<1>2. /\ poolEpoch \in [Node -> Epochs]
      /\ poolEpoch' = [poolEpoch EXCEPT
                         ![n] = IF pool[n] = <<>> THEN epoch[n] ELSE @]
    BY DEF Inv, TypeOK, PoolEnvelope
<1>3. pool[n] # <<>> => poolEpoch[n] = epoch[n]
    BY DEF Inv, PoolOfThisEpoch
<1>4. epoch[n] \in Epochs
    BY CeremonyAssumption DEF Inv, TypeOK, Epochs
<1>5. pool[n] \in Seq(Envelope) /\ pool'[n] = Append(pool[n], e)
    BY <1>1
<1>6. /\ pool'[n] \in Seq(Envelope)
      /\ pool'[n] # <<>>
      /\ Len(pool'[n]) = Len(pool[n]) + 1
    BY <1>5
<1>7. pool' \in [Node -> Seq(Envelope)]
    BY <1>1, <1>5, <1>6
<1>8. poolEpoch'[n] = epoch[n] /\ poolEpoch' \in [Node -> Epochs]
    BY <1>2, <1>3, <1>4
<1> QED
    BY <1>1, <1>2, <1>6, <1>7, <1>8

LEMMA StoreEnvelopeInv ==
    ASSUME Inv, NEW n \in Node, NEW e \in Envelope, StoreEnvelope(n, e)
    PROVE  Inv'
<1>1. /\ pc[n] = "idle" /\ epoch[n] <= MaxEpoch
      /\ PoolEnvelope(n, e)
      /\ UNCHANGED <<pc, ix, epoch, decrees, seen, opened, thr, committed,
                     root, beacon, locks, known, dialed, accepted, chan,
                     faults, signed>>
    BY DEF StoreEnvelope, fold, net
<1>2. /\ pool' \in [Node -> Seq(Envelope)]
      /\ poolEpoch' \in [Node -> Epochs]
      /\ pool'[n] # <<>>
      /\ poolEpoch'[n] = epoch[n]
      /\ \A m \in Node \ {n} :
            pool'[m] = pool[m] /\ poolEpoch'[m] = poolEpoch[m]
    BY <1>1, PoolEnvelopeEffect
<1>3. TypeOK'
    BY <1>1, <1>2 DEF Inv, TypeOK
<1>4. LoopInPool'
    BY <1>1, <1>2 DEF Inv, LoopInPool
<1>5. KnowledgeAfterCommit' /\ PoolOfThisEpoch'
    BY <1>1, <1>2 DEF Inv, KnowledgeAfterCommit, PoolOfThisEpoch
<1>6. LockCounts' /\ LockIntegrity' /\ InFlightSigned'
    BY <1>1 DEF Inv, LockCounts, LockIntegrity, InFlightSigned
<1> QED
    BY <1>3, <1>4, <1>5, <1>6 DEF Inv

\* order_lock_ingest of a statement that was signed.
LEMMA IngestInv ==
    ASSUME Inv, NEW n \in Node, NEW e \in Epochs, NEW r \in Orders,
           NEW p \in Node,
           locks' = [locks EXCEPT ![n][e] = Ingest(locks[n][e], r, p)],
           signed \subseteq signed',
           [node |-> p, epoch |-> e, root |-> r] \in signed'
    PROVE  /\ locks' \in [Node -> [Epochs -> Lock]]
           /\ LockCounts'
           /\ LockIntegrity'
<1>1. locks \in [Node -> [Epochs -> Lock]]
    BY DEF Inv, TypeOK
<1> DEFINE L == locks[n][e]
           I == Ingest(L, r, p)
<1>2. L \in Lock /\ I \in Lock
    BY <1>1, IngestType
<1>3. I = L \/ /\ I.root = r /\ I.count = L.count + 1
               /\ I.signers = L.signers \cup {p}
               /\ L.count = 0 \/ L.root = r
    BY DEF Ingest, Accepts
<1>4. L.count \in Nat
    BY <1>2 DEF Lock
<1>5. L.count = 0 => L.signers = {} /\ ~L.attested
    BY DEF Inv, LockCounts
<1>6. \A s \in L.signers : [node |-> s, epoch |-> e, root |-> L.root] \in signed
    BY DEF Inv, LockIntegrity
<1>7. I.count = 0 => I.signers = {} /\ ~I.attested
    BY <1>3, <1>4, <1>5
<1>8. \A s \in I.signers : [node |-> s, epoch |-> e, root |-> I.root] \in signed'
    <2> TAKE s \in I.signers
    <2>1. CASE I = L
        BY <1>6, <2>1
    <2>2. CASE /\ I.root = r /\ I.signers = L.signers \cup {p}
               /\ L.count = 0 \/ L.root = r
        BY <1>5, <1>6, <2>2
    <2> QED
        BY <1>3, <2>1, <2>2
<1> HIDE DEF I
<1>9. \A k \in Node, f \in Epochs :
        locks'[k][f] = IF k = n /\ f = e THEN I ELSE locks[k][f]
    BY <1>1 DEF I
<1>10. locks' \in [Node -> [Epochs -> Lock]]
    BY <1>1, <1>2 DEF I
<1>11. LockCounts'
    BY <1>7, <1>9 DEF Inv, LockCounts
<1>12. LockIntegrity'
    <2> SUFFICES ASSUME NEW k \in Node, NEW f \in Epochs,
                        NEW s \in locks'[k][f].signers
                 PROVE  [node |-> s, epoch |-> f, root |-> locks'[k][f].root]
                            \in signed'
        BY DEF LockIntegrity
    <2>1. CASE k = n /\ f = e
        BY <1>8, <1>9, <2>1
    <2>2. CASE ~(k = n /\ f = e)
        BY <1>9, <2>2 DEF Inv, LockIntegrity
    <2> QED
        BY <2>1, <2>2
<1> QED
    BY <1>10, <1>11, <1>12

LEMMA CommitOrderInv ==
    ASSUME Inv, NEW n \in Node, NEW e \in Envelope, CommitOrder(n, e)
    PROVE  Inv'
<1> DEFINE pe == poolEpoch'[n]
           b  == Append(beacon[n], pe)
           r  == OrderRoot(b, pool'[n])
           ms == IF Publishes(locks[n][pe], r, TRUE)
                 THEN <<OrderMsg(n, pe, r), SyncMsg(n, pool'[n])>>
                 ELSE <<OrderMsg(n, pe, r)>>
           st == [node |-> n, epoch |-> pe, root |-> r]
<1>1. /\ pc[n] = "idle" /\ epoch[n] <= MaxEpoch
      /\ PoolEnvelope(n, e)
      /\ beacon' = [beacon EXCEPT ![n] = b]
      /\ root' = [root EXCEPT ![n] = r]
      /\ locks' = [locks EXCEPT ![n][pe] =
                     Ingest(locks[n][pe], r, n)]
      /\ chan' = Broadcast(n, ms, chan)
      /\ signed' = signed \cup {st}
      /\ committed' = [committed EXCEPT ![n] = TRUE]
      /\ pc' = [pc EXCEPT ![n] = "decrypt"]
      /\ ix' = [ix EXCEPT ![n] = 1]
      /\ UNCHANGED <<epoch, decrees, seen, opened, thr, known, dialed,
                     accepted, faults>>
    BY DEF CommitOrder, fold
<1>2. /\ pool' \in [Node -> Seq(Envelope)]
      /\ poolEpoch' \in [Node -> Epochs]
      /\ pool'[n] # <<>>
      /\ poolEpoch'[n] = epoch[n]
      /\ \A m \in Node \ {n} :
            pool'[m] = pool[m] /\ poolEpoch'[m] = poolEpoch[m]
    BY <1>1, PoolEnvelopeEffect
<1>3. pool'[n] \in Seq(Envelope) /\ pe \in Epochs
    BY <1>2
<1>4. r \in Orders
    BY <1>3, OrderRootType
<1> HIDE DEF pe, r, b
<1>5. b \in Seq(Epochs)
    <2>1. beacon[n] \in Seq(Epochs)
        BY DEF Inv, TypeOK
    <2> QED
        BY <1>3, <2>1 DEF b
<1>6. /\ OrderMsg(n, pe, r) \in Message
      /\ SyncMsg(n, pool'[n]) \in Message
    BY <1>3, <1>4, MessageType
<1>7. ms \in Seq(Message)
    <2>1. <<OrderMsg(n, pe, r)>> \in Seq(Message)
        BY <1>6
    <2>2. <<OrderMsg(n, pe, r), SyncMsg(n, pool'[n])>> \in Seq(Message)
        BY <1>6
    <2> QED
        BY <2>1, <2>2
<1>8. AllSigned(ms, signed')
    <2>1. st \in signed'
        BY <1>1
    <2>2. AllSigned(<<OrderMsg(n, pe, r)>>, signed')
        BY <2>1 DEF AllSigned, OrderMsg
    <2>3. AllSigned(<<OrderMsg(n, pe, r), SyncMsg(n, pool'[n])>>, signed')
        BY <2>1 DEF AllSigned, OrderMsg, SyncMsg
    <2> QED
        BY <2>2, <2>3
<1> HIDE DEF ms
<1>9. chan' \in [Links -> Seq(Message)]
    BY <1>1, <1>7, SentType DEF Inv, TypeOK, Broadcast
<1>10. InFlightSigned'
    <2>1. \A l \in Links : AllSigned(chan[l], signed')
        BY <1>1, AllSignedMono DEF Inv, InFlightSigned
    <2>2. \A l \in Links : AllSigned(Broadcast(n, ms, chan)[l], signed')
        BY <1>7, <1>8, <2>1, AllSignedSent DEF Inv, TypeOK, Broadcast
    <2> QED
        BY <1>1, <2>2 DEF InFlightSigned
<1>11. /\ locks' \in [Node -> [Epochs -> Lock]]
       /\ LockCounts'
       /\ LockIntegrity'
    BY <1>1, <1>3, <1>4, IngestInv
<1>12. TypeOK'
    <2>1. beacon' \in [Node -> Seq(Epochs)] /\ root' \in [Node -> Orders]
        BY <1>1, <1>4, <1>5 DEF Inv, TypeOK
    <2>2. signed' \subseteq [node : Node, epoch : Epochs, root : Orders]
        BY <1>1, <1>3, <1>4 DEF Inv, TypeOK
    <2>3. /\ committed' \in [Node -> BOOLEAN]
          /\ pc' \in [Node -> {"boot", "idle", "decrypt"}]
          /\ ix' \in [Node -> Nat \ {0}]
        BY <1>1 DEF Inv, TypeOK
    <2> QED
        BY <1>1, <1>2, <1>9, <1>11, <2>1, <2>2, <2>3 DEF Inv, TypeOK
<1>13. LoopInPool'
    <2>1. Len(pool'[n]) >= 1
        BY <1>2, <1>3
    <2>2. ix'[n] = 1 /\ committed'[n] /\ pc'[n] = "decrypt"
        BY <1>1 DEF Inv, TypeOK
    <2>3. \A m \in Node \ {n} :
            ix'[m] = ix[m] /\ committed'[m] = committed[m] /\ pc'[m] = pc[m]
        BY <1>1 DEF Inv, TypeOK
    <2>4. 1 \in 1 .. Len(pool'[n])
        BY <1>3, <2>1
    <2> QED
        <3>1. ASSUME NEW m \in Node \ {n}
              PROVE  /\ pc'[m] = "boot" => pool'[m] = <<>>
                     /\ committed'[m] => pool'[m] # <<>>
                     /\ pc'[m] = "decrypt" =>
                            committed'[m] /\ ix'[m] \in 1 .. Len(pool'[m])
            BY <1>2, <2>3 DEF Inv, LoopInPool
        <3>2. /\ pc'[n] # "boot"
              /\ pool'[n] # <<>>
              /\ committed'[n] /\ ix'[n] \in 1 .. Len(pool'[n])
            BY <1>2, <2>2, <2>4
        <3> QED
            BY <3>1, <3>2 DEF LoopInPool
<1>14. KnowledgeAfterCommit'
    BY <1>1 DEF Inv, TypeOK, KnowledgeAfterCommit
<1>15. PoolOfThisEpoch'
    BY <1>1, <1>2 DEF Inv, PoolOfThisEpoch
<1> QED
    BY <1>10, <1>11, <1>12, <1>13, <1>14, <1>15 DEF Inv

\* What the kinds of message are made of.
LEMMA MessageFields ==
    ASSUME NEW m \in Message
    PROVE  /\ m.type = "ORDER" =>
                m.epoch \in Epochs /\ m.root \in Orders /\ m.from \in Node
           /\ m.type = "SYNC" =>
                m.member \in Member /\ m.shares \in Seq(Envelope)
           /\ m.type = "ANNOUNCE" => m.node \in Public
    BY DEF Message

LEMMA ReceiveOrderInv ==
    ASSUME Inv, NEW n \in Node, NEW l \in Links, NEW m, ReceiveOrder(n, l, m)
    PROVE  Inv'
<1> DEFINE rd == Read(l)
           ms == <<SyncMsg(n, pool[n])>>
<1>1. /\ Arrives(n, l, m) /\ m.type = "ORDER"
      /\ locks' = [locks EXCEPT ![n][m.epoch] =
                     Ingest(locks[n][m.epoch], m.root, m.from)]
      /\ chan' \in {Broadcast(n, ms, rd), rd}
      /\ UNCHANGED <<pc, ix, epoch, decrees, seen, pool, opened, thr,
                     committed, poolEpoch, root, beacon, known, dialed, accepted,
                     signed, faults>>
    BY DEF ReceiveOrder, fold
<1>2. rd \in [Links -> Seq(Message)] /\ m \in Message
    BY <1>1, ReadType DEF Inv
<1>3. m.epoch \in Epochs /\ m.root \in Orders /\ m.from \in Node
    BY <1>1, <1>2, MessageFields
<1>4. /\ \A k \in Links : AllSigned(rd[k], signed)
      /\ [node |-> m.from, epoch |-> m.epoch, root |-> m.root] \in signed
    BY <1>1, AllSignedRead DEF Inv
<1>5. pool[n] \in Seq(Envelope)
    BY DEF Inv, TypeOK
<1>6. ms \in Seq(Message) /\ AllSigned(ms, signed)
    BY <1>5, QuietType, AllSignedQuiet
<1> HIDE DEF rd, ms
<1>7. chan' \in [Links -> Seq(Message)]
    <2>1. Broadcast(n, ms, rd) \in [Links -> Seq(Message)]
        BY <1>2, <1>6, SentType DEF Broadcast
    <2> QED
        BY <1>1, <1>2, <2>1
<1>8. \A k \in Links : AllSigned(chan'[k], signed)
    BY <1>1, <1>2, <1>4, <1>6, AllSignedSent DEF Broadcast
<1>9. /\ locks' \in [Node -> [Epochs -> Lock]]
      /\ LockCounts'
      /\ LockIntegrity'
    BY <1>1, <1>3, <1>4, IngestInv
<1>10. TypeOK'
    BY <1>1, <1>7, <1>9 DEF Inv, TypeOK
<1>11. LoopInPool' /\ KnowledgeAfterCommit' /\ PoolOfThisEpoch'
    BY <1>1 DEF Inv, LoopInPool, KnowledgeAfterCommit, PoolOfThisEpoch
<1>12. InFlightSigned'
    BY <1>1, <1>8 DEF InFlightSigned
<1> QED
    BY <1>9, <1>10, <1>11, <1>12 DEF Inv

LEMMA ReceiveSyncInv ==
    ASSUME Inv, NEW n \in Node, NEW l \in Links, NEW m, ReceiveSync(n, l, m)
    PROVE  Inv'
<1>1. /\ Arrives(n, l, m) /\ m.type = "SYNC" /\ pc[n] = "idle"
      /\ thr' = [thr EXCEPT ![n] = @ \cup Taken(n, m)]
      /\ chan' = Read(l)
      /\ UNCHANGED <<epoch, decrees, seen, pool, opened, committed, locks,
                     poolEpoch, root, beacon, known, dialed, accepted, signed, faults>>
    BY DEF ReceiveSync, fold, Arrives
<1>2. \/ /\ committed[n]
         /\ pc' = [pc EXCEPT ![n] = "decrypt"]
         /\ ix' = [ix EXCEPT ![n] = 1]
      \/ UNCHANGED <<pc, ix>>
    BY DEF ReceiveSync
<1>3. chan' \in [Links -> Seq(Message)] /\ m \in Message
    BY <1>1, ReadType DEF Inv
<1>4. m.member \in Member /\ m.shares \in Seq(Envelope)
    BY <1>1, <1>3, MessageFields
<1>5. Taken(n, m) \subseteq [ix : Nat \ {0}, member : Member, env : Envelope]
    BY <1>4 DEF Taken
<1>6. thr' \in [Node -> SUBSET [ix : Nat \ {0}, member : Member,
                                 env : Envelope]]
    BY <1>1, <1>5 DEF Inv, TypeOK
<1>7. /\ pc' \in [Node -> {"boot", "idle", "decrypt"}]
      /\ ix' \in [Node -> Nat \ {0}]
    <2>1. /\ pc \in [Node -> {"boot", "idle", "decrypt"}]
          /\ ix \in [Node -> Nat \ {0}]
        BY DEF Inv, TypeOK
    <2>2. pc' = [pc EXCEPT ![n] = "decrypt"] \/ pc' = pc
        BY <1>2
    <2>3. ix' = [ix EXCEPT ![n] = 1] \/ ix' = ix
        BY <1>2
    <2> QED
        BY <2>1, <2>2, <2>3
<1>8. TypeOK'
    BY <1>1, <1>3, <1>6, <1>7 DEF Inv, TypeOK
<1>9. LoopInPool'
    <2>1. CASE UNCHANGED <<pc, ix>>
        BY <1>1, <2>1 DEF Inv, LoopInPool
    <2>2. CASE /\ committed[n]
               /\ pc' = [pc EXCEPT ![n] = "decrypt"]
               /\ ix' = [ix EXCEPT ![n] = 1]
        <3>1. pool[n] \in Seq(Envelope) /\ pool[n] # <<>>
            BY <2>2 DEF Inv, TypeOK, LoopInPool
        <3>2. 1 \in 1 .. Len(pool[n])
            BY <3>1
        <3>3. /\ pc'[n] = "decrypt" /\ ix'[n] = 1
              /\ \A k \in Node \ {n} : pc'[k] = pc[k] /\ ix'[k] = ix[k]
            BY <2>2 DEF Inv, TypeOK
        <3> QED
            BY <1>1, <2>2, <3>1, <3>2, <3>3 DEF Inv, LoopInPool
    <2> QED
        BY <1>2, <2>1, <2>2
<1>10. KnowledgeAfterCommit' /\ PoolOfThisEpoch' /\ LockCounts' /\ LockIntegrity'
    BY <1>1 DEF Inv, KnowledgeAfterCommit, PoolOfThisEpoch, LockCounts,
                LockIntegrity
<1>11. InFlightSigned'
    BY <1>1, AllSignedRead DEF Inv, InFlightSigned
<1> QED
    BY <1>8, <1>9, <1>10, <1>11 DEF Inv

LEMMA ReceiveSyncReqInv ==
    ASSUME Inv, NEW n \in Node, NEW l \in Links, NEW m, ReceiveSyncReq(n, l, m)
    PROVE  Inv'
<1> DEFINE ms == <<SyncMsg(n, pool[n])>>
<1>1. /\ Arrives(n, l, m)
      /\ chan' = Sent({l}, ms, Read(l))
      /\ UNCHANGED <<pc, ix, fold, ceremony, poolEpoch, root, beacon, known,
                     dialed, accepted, signed, faults>>
    BY DEF ReceiveSyncReq
<1>2. Read(l) \in [Links -> Seq(Message)]
    BY <1>1, ReadType DEF Inv
<1>3. \A k \in Links : AllSigned(Read(l)[k], signed)
    BY <1>1, AllSignedRead DEF Inv
<1>4. ms \in Seq(Message) /\ AllSigned(ms, signed)
    BY QuietType, AllSignedQuiet DEF Inv, TypeOK
<1> HIDE DEF ms
<1>5. chan' \in [Links -> Seq(Message)]
    BY <1>1, <1>2, <1>4, SentType
<1>6. \A k \in Links : AllSigned(chan'[k], signed)
    BY <1>1, <1>2, <1>3, <1>4, AllSignedSent
<1> QED
    BY <1>1, <1>5, <1>6, ConnectionStepInv DEF Inv, TypeOK

\* An announcement adds connections and announcements, and nothing else.
LEMMA ReceiveAnnounceInv ==
    ASSUME Inv, NEW n \in Node, NEW l \in Links, NEW m, ReceiveAnnounce(n, l, m)
    PROVE  Inv'
<1> DEFINE ms == <<AnnounceMsg(m.node)>>
<1>1. /\ Arrives(n, l, m) /\ m.type = "ANNOUNCE"
      /\ UNCHANGED <<pc, ix, fold, ceremony, poolEpoch, root, beacon,
                     accepted, signed, faults>>
    BY DEF ReceiveAnnounce
<1>2. Read(l) \in [Links -> Seq(Message)] /\ m \in Message
    BY <1>1, ReadType DEF Inv
<1>3. m.node \in Public
    BY <1>1, <1>2, MessageFields
<1>4. \A k \in Links : AllSigned(Read(l)[k], signed)
    BY <1>1, AllSignedRead DEF Inv
<1>5. ms \in Seq(Message) /\ AllSigned(ms, signed)
    <2>1. <<>> \in Seq(Envelope)
        OBVIOUS
    <2> QED
        BY <1>3, <2>1, QuietType, AllSignedQuiet
<1> HIDE DEF ms
<1>6. CASE chan' = Read(l) /\ UNCHANGED <<known, dialed>>
    BY <1>1, <1>2, <1>4, <1>6, ConnectionStepInv DEF Inv, TypeOK
<1>7. ASSUME NEW cs \in DirectDials(n, m.node), NEW E,
             known' = [known EXCEPT ![n] = @ \cup {m.node}],
             dialed' = dialed \cup cs,
             chan' = Sent(E, ms, Read(l))
      PROVE  Inv'
    <2>1. cs \subseteq Conn
        BY <1>7 DEF DirectDials
    <2>2. dialed' \subseteq Conn /\ accepted' \subseteq dialed'
        BY <1>1, <1>7, <2>1 DEF Inv, TypeOK
    <2>3. known' \in [Node -> SUBSET Public]
        BY <1>3, <1>7 DEF Inv, TypeOK
    <2>4. chan' \in [Links -> Seq(Message)]
        BY <1>2, <1>5, <1>7, SentType
    <2>5. \A k \in Links : AllSigned(chan'[k], signed)
        BY <1>2, <1>4, <1>5, <1>7, AllSignedSent
    <2>6. faults' \in 0 .. MaxFaults
        BY <1>1 DEF Inv, TypeOK
    <2> QED
        BY <1>1, <2>2, <2>3, <2>4, <2>5, <2>6, ConnectionStepInv
<1>8. \/ chan' = Read(l) /\ UNCHANGED <<known, dialed>>
      \/ \E cs \in DirectDials(n, m.node), first \in Ends(n) :
            /\ known' = [known EXCEPT ![n] = @ \cup {m.node}]
            /\ dialed' = dialed \cup cs
            /\ chan' = Sent((Ends(n) \cup cs \X {1}) \ {first}, ms, Read(l))
    BY DEF ReceiveAnnounce, ms
<1> QED
    BY <1>6, <1>7, <1>8

LEMMA NextInv == Inv /\ [Next]_vars => Inv'
<1> SUFFICES ASSUME Inv, [Next]_vars PROVE Inv'
    OBVIOUS
<1>1. CASE \E n \in Node : NodeStep(n)
    <2> PICK n \in Node : NodeStep(n)
        BY <1>1
    <2>1. CASE EnterLoop(n)
        BY <2>1, EnterLoopInv
    <2>2. CASE DecryptStep(n)
        BY <2>2, DecryptStepInv
    <2>3. CASE \E d \in Decree : ReceiveDecree(n, d)
        BY <2>3, ReceiveDecreeInv
    <2>4. CASE \E e \in Envelope : StoreEnvelope(n, e) \/ CommitOrder(n, e)
        BY <2>4, StoreEnvelopeInv, CommitOrderInv
    <2>5. CASE \E l \in Links : Receive(n, l)
        BY <2>5, ReceiveOrderInv, ReceiveSyncInv, ReceiveSyncReqInv,
           ReceiveAnnounceInv DEF Receive
    <2> QED
        BY <2>1, <2>2, <2>3, <2>4, <2>5 DEF NodeStep
<1>2. CASE \E c \in Conn : \/ DialSeed(c) \/ Reconnect(c)
                           \/ Accept(c) \/ Disconnect(c)
    BY <1>2, DialInv, AcceptInv, DisconnectInv
<1>3. CASE UNCHANGED vars
    <2>1. UNCHANGED <<known, dialed, accepted, chan, faults>>
        BY <1>3 DEF vars, net
    <2> QED
        BY <1>3, <2>1, ConnectionStepInv DEF vars, Inv, TypeOK, InFlightSigned
<1> QED
    BY <1>1, <1>2, <1>3 DEF Next

LEMMA CrashNextInv == Inv /\ [CrashNext]_vars => Inv'
    BY NextInv, RestartInv DEF CrashNext

-----------------------------------------------------------------------------
(* The theorems.                                                           *)

\* The inductive invariant holds under connection losses and restarts.
THEOREM Invariance == CrashSpec => []Inv
    BY InitInv, CrashNextInv, PTL DEF CrashSpec

\* The state of every node stays well formed under every interleaving of the
\* handlers, connection losses and restarts (the globals of epoch_node.cpp).
THEOREM TypeCorrect == CrashSpec => []TypeOK
<1>1. Inv => TypeOK
    BY DEF Inv
<1> QED
    BY <1>1, Invariance, PTL

\* Order before knowledge, at every node and under restarts: nothing is
\* decrypted while the node's own order is not committed.
THEOREM KnowledgeAfterCommitThm == CrashSpec => []KnowledgeAfterCommit
<1>1. Inv => KnowledgeAfterCommit
    BY DEF Inv
<1> QED
    BY <1>1, Invariance, PTL

\* The pool never mixes epochs (g_pool_epoch).
THEOREM PoolOfThisEpochThm == CrashSpec => []PoolOfThisEpoch
<1>1. Inv => PoolOfThisEpoch
    BY DEF Inv
<1> QED
    BY <1>1, Invariance, PTL

\* Every partial a lock counts is a signature on the lock's own root and epoch
\* (order_lock_ingest), whatever the topology, also across restarts.
THEOREM LockIntegrityThm == CrashSpec => []LockIntegrity
<1>1. Inv => LockIntegrity
    BY DEF Inv
<1> QED
    BY <1>1, Invariance, PTL

-----------------------------------------------------------------------------
(* Without restarts: one order per process and epoch, and stable locks.    *)

\* A node stays in its epoch and keeps its order, or enters the next epoch.
Advances(n) ==
    \/ epoch'[n] = epoch[n] /\ committed'[n] = committed[n]
    \/ epoch'[n] = epoch[n] + 1

\* A step that signs nothing.
SignsNothing ==
    /\ UNCHANGED <<signed, root>>
    /\ \A n \in Node : Advances(n)
    /\ \A n \in Node : pc'[n] = "boot" => pc[n] = "boot" /\ epoch'[n] = epoch[n]

LEMMA HandleDecreeAdvances ==
    ASSUME TypeOK, NEW n \in Node, NEW d, NEW op, HandleDecree(n, d, op)
    PROVE  \A m \in Node : Advances(m)
<1>1. /\ \A m \in Node \ {n} : Keeps(m, opened[m])
      /\ Keeps(n, op) \/ Closes(n)
    BY HandleDecreeEffect
<1> QED
    BY <1>1 DEF Keeps, Closes, Advances

\* Every step but a commit signs nothing.
LEMMA OnlyCommitSigns ==
    ASSUME TypeOK, BootEpoch, [Next]_vars,
           ~ \E n \in Node, e \in Envelope : CommitOrder(n, e)
    PROVE  SignsNothing
<1>1. ASSUME NEW n \in Node, EnterLoop(n) PROVE SignsNothing
    BY <1>1 DEF EnterLoop, BootEpoch, TypeOK, ceremony, SignsNothing, Advances
<1>2. ASSUME NEW n \in Node, DecryptStep(n) PROVE SignsNothing
    <2>1. /\ pc[n] = "decrypt"
          /\ UNCHANGED <<root, signed>>
          /\ pc' = pc \/ pc' = [pc EXCEPT ![n] = "idle"]
          /\ \/ HandleDecree(n, pool[n][ix[n]], opened[n] \cup {ix[n]})
             \/ UNCHANGED <<fold, ceremony>>
        BY <1>2 DEF DecryptStep
    <2>2. \A m \in Node : Advances(m)
        BY <2>1, HandleDecreeAdvances DEF fold, ceremony, Advances
    <2>3. \A m \in Node : pc'[m] = "boot" => pc[m] = "boot" /\ m # n
        BY <2>1 DEF TypeOK
    <2>4. \A m \in Node \ {n} : epoch'[m] = epoch[m]
        BY <2>1, HandleDecreeEffect DEF Keeps, fold
    <2> QED
        BY <2>1, <2>2, <2>3, <2>4 DEF SignsNothing
<1>3. ASSUME NEW n \in Node, NEW d, ReceiveDecree(n, d) PROVE SignsNothing
    <2>1. /\ pc[n] = "idle"
          /\ HandleDecree(n, d, opened[n])
          /\ UNCHANGED <<pc, root, signed>>
        BY <1>3 DEF ReceiveDecree
    <2>2. \A m \in Node \ {n} : epoch'[m] = epoch[m]
        BY <2>1, HandleDecreeEffect DEF Keeps
    <2> QED
        BY <2>1, <2>2, HandleDecreeAdvances DEF SignsNothing
<1>4. ASSUME NEW n \in Node, NEW e, StoreEnvelope(n, e) PROVE SignsNothing
    BY <1>4 DEF StoreEnvelope, fold, SignsNothing, Advances
<1>5. ASSUME NEW n \in Node, NEW l, Receive(n, l) PROVE SignsNothing
    <2>1. /\ UNCHANGED <<epoch, committed, root, signed>>
          /\ \/ pc' = pc
             \/ pc' = [pc EXCEPT ![n] = "decrypt"]
        BY <1>5 DEF Receive, ReceiveOrder, ReceiveSync, ReceiveSyncReq,
                    ReceiveAnnounce, fold, ceremony
    <2>2. \A m \in Node : pc'[m] = "boot" => pc[m] = "boot"
        BY <2>1 DEF TypeOK
    <2> QED
        BY <2>1, <2>2 DEF SignsNothing, Advances
<1>6. ASSUME NEW c, \/ DialSeed(c) \/ Reconnect(c)
                    \/ Accept(c) \/ Disconnect(c)
      PROVE  SignsNothing
    BY <1>6 DEF DialSeed, Reconnect, Dial, Accept, Disconnect, fold, ceremony,
                SignsNothing, Advances
<1>7. ASSUME UNCHANGED vars PROVE SignsNothing
    BY <1>7 DEF vars, fold, ceremony, SignsNothing, Advances
<1> QED
    BY <1>1, <1>2, <1>3, <1>4, <1>5, <1>6, <1>7 DEF Next, NodeStep

LEMMA SignsNothingOrderInv ==
    ASSUME TypeOK, OrderInv, SignsNothing
    PROVE  OrderInv'
<1>1. NoTwoOrders'
    BY DEF OrderInv, NoTwoOrders, SignsNothing
<1>2. BootEpoch'
    BY DEF OrderInv, BootEpoch, SignsNothing
<1>3. SignedPast'
    <2> SUFFICES ASSUME NEW n \in Node, NEW s \in signed,
                        s.node = n
                 PROVE  \/ s.epoch < epoch'[n]
                        \/ /\ s.epoch = epoch'[n] /\ committed'[n]
                           /\ s.root = root'[n]
        BY DEF SignedPast, SignsNothing
    <2>1. s.epoch \in Nat /\ epoch[n] \in Nat
        BY DEF TypeOK, Epochs
    <2>2. \/ s.epoch < epoch[n]
          \/ s.epoch = epoch[n] /\ committed[n] /\ s.root = root[n]
        BY DEF OrderInv, SignedPast
    <2>3. Advances(n) /\ root' = root
        BY DEF SignsNothing
    <2> QED
        BY <2>1, <2>2, <2>3 DEF Advances
<1> QED
    BY <1>1, <1>2, <1>3 DEF OrderInv

LEMMA CommitOrderOrderInv ==
    ASSUME Inv, OrderInv, NEW n \in Node, NEW e \in Envelope, CommitOrder(n, e)
    PROVE  OrderInv'
<1> DEFINE pe == poolEpoch'[n]
           r  == OrderRoot(Append(beacon[n], pe), pool'[n])
           st == [node |-> n, epoch |-> pe, root |-> r]
<1>1. /\ ~committed[n] /\ epoch[n] <= MaxEpoch
      /\ PoolEnvelope(n, e)
      /\ root' = [root EXCEPT ![n] = r]
      /\ signed' = signed \cup {st}
      /\ committed' = [committed EXCEPT ![n] = TRUE]
      /\ pc' = [pc EXCEPT ![n] = "decrypt"]
      /\ epoch' = epoch
    BY DEF CommitOrder, CompletesPool, fold
<1>2. pe = epoch[n]
    BY <1>1, PoolEnvelopeEffect
<1> HIDE DEF pe, r
<1>3. TypeOK
    BY DEF Inv
<1>4. /\ committed'[n] /\ root'[n] = r
      /\ \A m \in Node \ {n} : committed'[m] = committed[m] /\ root'[m] = root[m]
      /\ \A m \in Node : pc'[m] = "boot" => pc[m] = "boot"
    BY <1>1, <1>3 DEF TypeOK
<1>5. \A s \in signed : s.node = n => s.epoch < epoch[n]
    BY <1>1 DEF OrderInv, SignedPast
<1>6. \A s \in signed : s.epoch \in Nat
    BY <1>3 DEF TypeOK, Epochs
<1>7. epoch[n] \in Nat
    BY <1>3 DEF TypeOK
<1>8. NoTwoOrders'
    <2> SUFFICES ASSUME NEW a \in signed', NEW b \in signed',
                        a.node = b.node, a.epoch = b.epoch
                 PROVE  a.root = b.root
        BY DEF NoTwoOrders
    <2>1. CASE a \in signed /\ b \in signed
        BY <2>1 DEF OrderInv, NoTwoOrders
    <2>2. CASE a = st /\ b \in signed
        BY <1>2, <1>5, <1>6, <1>7, <2>2
    <2>3. CASE a \in signed /\ b = st
        BY <1>2, <1>5, <1>6, <1>7, <2>3
    <2>4. CASE a = st /\ b = st
        BY <2>4
    <2> QED
        BY <1>1, <2>1, <2>2, <2>3, <2>4
<1>9. BootEpoch'
    BY <1>1, <1>4 DEF OrderInv, BootEpoch
<1>10. SignedPast'
    <2> SUFFICES ASSUME NEW m \in Node, NEW s \in signed',
                        s.node = m
                 PROVE  \/ s.epoch < epoch[m]
                        \/ /\ s.epoch = epoch[m] /\ committed'[m]
                           /\ s.root = root'[m]
        BY <1>1 DEF SignedPast
    <2>1. CASE s = st
        <3>1. m = n
            BY <2>1
        <3> QED
            BY <1>2, <1>4, <2>1, <3>1
    <2>2. CASE s \in signed /\ m = n
        BY <1>5, <2>2
    <2>3. CASE s \in signed /\ m # n
        BY <1>4, <2>3 DEF OrderInv, SignedPast
    <2> QED
        BY <1>1, <2>1, <2>2, <2>3
<1> QED
    BY <1>8, <1>9, <1>10 DEF OrderInv

LEMMA OrderInvInit == Init => OrderInv
    BY DEF Init, OrderInv, SignedPast, BootEpoch, NoTwoOrders

\* A process signs at most one order in an epoch, in every fleet and under
\* every numbering of its members, whatever is pooled, lost, redelivered or
\* reconnected; restarts excluded, since a node persists nothing of what it
\* signed.
THEOREM NoTwoOrdersThm == Spec => []NoTwoOrders
<1>1. Init => Inv /\ OrderInv
    BY InitInv, OrderInvInit
<1>2. Inv /\ OrderInv /\ [Next]_vars => Inv' /\ OrderInv'
    <2> SUFFICES ASSUME Inv, OrderInv, [Next]_vars PROVE Inv' /\ OrderInv'
        OBVIOUS
    <2>1. Inv'
        BY NextInv
    <2>2. CASE \E n \in Node, e \in Envelope : CommitOrder(n, e)
        BY <2>1, <2>2, CommitOrderOrderInv
    <2>3. CASE ~ \E n \in Node, e \in Envelope : CommitOrder(n, e)
        BY <2>1, <2>3, OnlyCommitSigns, SignsNothingOrderInv DEF Inv, OrderInv
    <2> QED
        BY <2>2, <2>3
<1>3. OrderInv => NoTwoOrders
    BY DEF OrderInv
<1> QED
    BY <1>1, <1>2, <1>3, PTL DEF Spec

\* What LockStable says of one step.
LocksStay ==
    \A n \in Node, e \in Epochs :
        locks[n][e].attested /\ epoch'[n] = epoch[n]
            => locks'[n][e].attested /\ locks'[n][e].root = locks[n][e].root

LEMMA IngestStays ==
    ASSUME Inv, NEW n \in Node, NEW e \in Epochs, NEW r, NEW m,
           locks' = [locks EXCEPT ![n][e] = Ingest(locks[n][e], r, m)]
    PROVE  LocksStay
<1> DEFINE L == locks[n][e]
           I == Ingest(L, r, m)
<1>1. locks \in [Node -> [Epochs -> Lock]]
    BY DEF Inv, TypeOK
<1>2. L.attested => L.count # 0
    BY DEF Inv, LockCounts
<1>3. L.attested => I.attested /\ I.root = L.root
    BY <1>2 DEF Ingest, Accepts
<1> HIDE DEF I
<1>4. \A k \in Node, f \in Epochs :
        locks'[k][f] = IF k = n /\ f = e THEN I ELSE locks[k][f]
    BY <1>1 DEF I
<1> QED
    BY <1>3, <1>4 DEF LocksStay

LEMMA HandleDecreeStays ==
    ASSUME TypeOK, NEW n \in Node, NEW d, NEW op, HandleDecree(n, d, op)
    PROVE  LocksStay
<1>1. /\ \A m \in Node \ {n} : Keeps(m, opened[m])
      /\ Keeps(n, op) \/ Closes(n)
    BY HandleDecreeEffect
<1>2. epoch[n] \in Nat
    BY DEF TypeOK
<1> QED
    BY <1>1, <1>2 DEF Keeps, Closes, LocksStay

LEMMA NextStays ==
    ASSUME Inv, [Next]_vars
    PROVE  LocksStay
<1>1. ASSUME locks' = locks PROVE LocksStay
    BY <1>1 DEF LocksStay
<1>2. ASSUME NEW n \in Node, DecryptStep(n) PROVE LocksStay
    <2>1. \/ HandleDecree(n, pool[n][ix[n]], opened[n] \cup {ix[n]})
          \/ locks' = locks
        BY <1>2 DEF DecryptStep, ceremony
    <2> QED
        BY <1>1, <2>1, HandleDecreeStays DEF Inv
<1>3. ASSUME NEW n \in Node, NEW d, ReceiveDecree(n, d) PROVE LocksStay
    BY <1>3, HandleDecreeStays DEF ReceiveDecree, Inv
<1>4. ASSUME NEW n \in Node, NEW e \in Envelope, CommitOrder(n, e)
      PROVE  LocksStay
    <2>1. poolEpoch'[n] \in Epochs
        BY <1>4, PoolEnvelopeEffect DEF CommitOrder
    <2>2. \E r : locks' = [locks EXCEPT ![n][poolEpoch'[n]] =
                      Ingest(locks[n][poolEpoch'[n]], r, n)]
        BY <1>4 DEF CommitOrder
    <2> QED
        BY <2>1, <2>2, IngestStays
<1>5. ASSUME NEW n \in Node, NEW l \in Links, Receive(n, l) PROVE LocksStay
    <2> PICK m : \/ ReceiveOrder(n, l, m)
                 \/ ReceiveSync(n, l, m)
                 \/ ReceiveSyncReq(n, l, m)
                 \/ ReceiveAnnounce(n, l, m)
        BY <1>5 DEF Receive
    <2>1. CASE ReceiveOrder(n, l, m)
        <3>1. m.epoch \in Epochs
            BY <2>1, ReadType, MessageFields DEF ReceiveOrder, Inv
        <3>2. locks' = [locks EXCEPT ![n][m.epoch] =
                          Ingest(locks[n][m.epoch], m.root, m.from)]
            BY <2>1 DEF ReceiveOrder
        <3> QED
            BY <3>1, <3>2, IngestStays
    <2>2. CASE \/ ReceiveSync(n, l, m)
               \/ ReceiveSyncReq(n, l, m)
               \/ ReceiveAnnounce(n, l, m)
        BY <1>1, <2>2 DEF ReceiveSync, ReceiveSyncReq, ReceiveAnnounce, ceremony
    <2> QED
        BY <2>1, <2>2
<1>6. ASSUME NEW n \in Node, NEW e, EnterLoop(n) \/ StoreEnvelope(n, e)
      PROVE  LocksStay
    BY <1>1, <1>6 DEF EnterLoop, StoreEnvelope, ceremony
<1>7. ASSUME NEW c, \/ DialSeed(c) \/ Reconnect(c)
                    \/ Accept(c) \/ Disconnect(c)
      PROVE  LocksStay
    BY <1>1, <1>7 DEF DialSeed, Reconnect, Dial, Accept, Disconnect, ceremony
<1>8. ASSUME UNCHANGED vars PROVE LocksStay
    BY <1>1, <1>8 DEF vars, ceremony
<1> QED
    BY <1>2, <1>3, <1>4, <1>5, <1>6, <1>7, <1>8 DEF Next, NodeStep

\* Within an epoch an attested lock keeps its root and stays attested, against
\* late partials, foreign roots, reconnections and decrees.
THEOREM LockStableThm == Spec => LockStable
<1>1. Inv /\ [Next]_vars => LocksStay
    BY NextStays
<1> QED
    BY <1>1, InitInv, NextInv, PTL DEF Spec, LockStable, LocksStay
=============================================================================
