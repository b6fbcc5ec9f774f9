------------------------ MODULE CeremonyLockProofs -------------------------
(***************************************************************************)
(* What an attested order lock is worth, for every number of nodes, every  *)
(* threshold and every numbering of the members: it stands on T processes' *)
(* signatures, and two attested locks of an epoch agree.                   *)
(* order_lock_ingest does not look at who signed the partial it counts, so *)
(* all of it rests on the network: a partial is broadcast once per         *)
(* connection, and a pair of nodes has one connection.                     *)
(***************************************************************************)
EXTENDS CeremonyProofs

\* The fleets order_lock_ingest is right for: no node is its own seed, no two
\* nodes name each other as seeds, and no announced address leads the dialing
\* node to one of the fleet, which Conn would hold as a second connection.
SimpleFleet ==
    /\ \A c \in Conn : c[1] # c[2]
    /\ \A c, d \in Conn : {c[1], c[2]} = {d[1], d[2]} => c = d

\* Two quorums of T processes have a process in common.
QuorumsMeet == 2 * T > Cardinality(Node)

-----------------------------------------------------------------------------
(* The invariant.                                                          *)

IsOrder(m) == m.type = "ORDER"

\* The partials among the messages s under way on link l: they are the
\* sender's own, no two are of one epoch, and the receiver, whose locks are
\* lk, has counted none of them.
Fresh(s, l, lk) ==
    /\ \A i \in DOMAIN s : IsOrder(s[i]) =>
          /\ s[i].from = Owner(l)
          /\ s[i].from \notin lk[Owner(Other(l))][s[i].epoch].signers
    /\ \A i, j \in DOMAIN s :
          IsOrder(s[i]) /\ IsOrder(s[j]) /\ s[i].epoch = s[j].epoch => i = j

PartialsFresh == \A l \in Links : Fresh(chan[l], l, locks)

\* A lock has counted each of its signers once.
Tallied(L) ==
    /\ IsFiniteSet(L.signers)
    /\ L.count = Cardinality(L.signers)
    /\ L.attested => L.count >= T

SignersCounted == \A n \in Node, e \in Epochs : Tallied(locks[n][e])

LockInv == PartialsFresh /\ SignersCounted

-----------------------------------------------------------------------------
(* Sequences of messages.                                                  *)

NoOrders(t) == \A i \in DOMAIN t : ~IsOrder(t[i])

LEMMA FreshQuiet ==
    ASSUME NEW t, NoOrders(t), NEW l, NEW lk
    PROVE  Fresh(t, l, lk)
    BY DEF Fresh, NoOrders

\* What NoOrders needs of the sequences that carry shares and requests.
LEMMA QuietMessages ==
    ASSUME NEW n \in Node, NEW p
    PROVE  /\ NoOrders(<<>>)
           /\ NoOrders(<<SyncMsg(n, p)>>)
           /\ NoOrders(<<[type |-> "SYNC_REQ"]>>)
           /\ \A a : NoOrders(<<AnnounceMsg(a)>>)
    BY DEF NoOrders, IsOrder, SyncMsg, AnnounceMsg

LEMMA NoOrdersConcat ==
    ASSUME NEW s \in Seq(Message), NEW t \in Seq(Message),
           NoOrders(s), NoOrders(t)
    PROVE  NoOrders(s \o t)
<1> SUFFICES ASSUME NEW i \in DOMAIN (s \o t) PROVE ~IsOrder((s \o t)[i])
    BY DEF NoOrders
<1>1. CASE i <= Len(s)
    <2>1. i \in DOMAIN s /\ (s \o t)[i] = s[i]
        BY <1>1
    <2> QED
        BY <2>1 DEF NoOrders
<1>2. CASE i > Len(s)
    <2>1. i - Len(s) \in DOMAIN t /\ (s \o t)[i] = t[i - Len(s)]
        BY <1>2
    <2> QED
        BY <2>1 DEF NoOrders
<1> QED
    BY <1>1, <1>2

LEMMA WelcomeNoOrders ==
    ASSUME TypeOK, NEW n \in Node
    PROVE  Welcome(n) \in Seq(Message) /\ NoOrders(Welcome(n))
<1> DEFINE a == IF pool[n] = <<>> THEN <<>> ELSE <<SyncMsg(n, pool[n])>>
           b == IF n \in Public THEN <<AnnounceMsg(n)>> ELSE <<>>
<1>1. pool[n] \in Seq(Envelope)
    BY DEF TypeOK
<1>2. a \in Seq(Message) /\ NoOrders(a)
    BY <1>1, QuietType, QuietMessages
<1>3. b \in Seq(Message) /\ NoOrders(b)
    BY <1>1, QuietType, QuietMessages
<1>4. Welcome(n) = a \o b
    BY DEF Welcome
<1> HIDE DEF a, b
<1> QED
    BY <1>2, <1>3, <1>4, NoOrdersConcat

LEMMA FreshConcat ==
    ASSUME NEW s \in Seq(Message), NEW t \in Seq(Message), NoOrders(t),
           NEW l, NEW lk, Fresh(s, l, lk)
    PROVE  Fresh(s \o t, l, lk)
<1>1. \A i \in DOMAIN (s \o t) : IsOrder((s \o t)[i]) =>
            i \in DOMAIN s /\ (s \o t)[i] = s[i]
    <2> SUFFICES ASSUME NEW i \in DOMAIN (s \o t), IsOrder((s \o t)[i])
                 PROVE  i \in DOMAIN s /\ (s \o t)[i] = s[i]
        OBVIOUS
    <2>1. CASE i <= Len(s)
        BY <2>1
    <2>2. CASE i > Len(s)
        <3>1. i - Len(s) \in DOMAIN t /\ (s \o t)[i] = t[i - Len(s)]
            BY <2>2
        <3> QED
            BY <3>1 DEF NoOrders
    <2> QED
        BY <2>1, <2>2
<1> QED
    BY <1>1 DEF Fresh

\* Reading takes the head; the rest holds no other partial of its epoch.
LEMMA FreshTail ==
    ASSUME NEW s \in Seq(Message), s # <<>>, NEW l, NEW lk, Fresh(s, l, lk)
    PROVE  /\ Fresh(Tail(s), l, lk)
           /\ \A i \in DOMAIN Tail(s) :
                IsOrder(Tail(s)[i]) /\ IsOrder(Head(s))
                    => Tail(s)[i].epoch # Head(s).epoch
<1>1. \A i \in DOMAIN Tail(s) : i + 1 \in DOMAIN s /\ Tail(s)[i] = s[i + 1]
    OBVIOUS
<1>2. 1 \in DOMAIN s /\ Head(s) = s[1]
    OBVIOUS
<1>3. DOMAIN Tail(s) \subseteq Nat \ {0}
    OBVIOUS
<1>4. \A i \in DOMAIN Tail(s), j \in DOMAIN Tail(s) : i + 1 = j + 1 => i = j
    BY <1>3
<1>5. \A i \in DOMAIN Tail(s) : i + 1 # 1
    BY <1>3
<1> QED
    BY <1>1, <1>2, <1>4, <1>5 DEF Fresh

\* A batch that begins with a partial of an epoch not yet under way.
LEMMA FreshOrder ==
    ASSUME NEW s \in Seq(Message), NEW t \in Seq(Message), t # <<>>,
           NEW l, NEW lk, Fresh(s, l, lk),
           \A i \in DOMAIN t : IsOrder(t[i]) => i = 1,
           t[1].from = Owner(l),
           t[1].from \notin lk[Owner(Other(l))][t[1].epoch].signers,
           \A i \in DOMAIN s : IsOrder(s[i]) => s[i].epoch # t[1].epoch
    PROVE  Fresh(s \o t, l, lk)
<1> DEFINE u == s \o t
<1>1. \A i \in DOMAIN u : IsOrder(u[i]) =>
            \/ i \in DOMAIN s /\ u[i] = s[i]
            \/ i = Len(s) + 1 /\ u[i] = t[1]
    <2> SUFFICES ASSUME NEW i \in DOMAIN u, IsOrder(u[i])
                 PROVE  \/ i \in DOMAIN s /\ u[i] = s[i]
                        \/ i = Len(s) + 1 /\ u[i] = t[1]
        OBVIOUS
    <2>1. CASE i <= Len(s)
        BY <2>1
    <2>2. CASE i > Len(s)
        <3>1. i - Len(s) \in DOMAIN t /\ u[i] = t[i - Len(s)]
            BY <2>2
        <3>2. i - Len(s) = 1
            BY <3>1
        <3>3. i \in Int /\ Len(s) \in Int
            OBVIOUS
        <3> QED
            BY <3>1, <3>2, <3>3
    <2> QED
        BY <2>1, <2>2
<1> HIDE DEF u
<1>2. Fresh(u, l, lk)
    BY <1>1 DEF Fresh
<1> QED
    BY <1>2 DEF u

LEMMA FreshFewer ==
    ASSUME NEW s \in Seq(Message), NEW l \in Links, NEW lk, NEW kl, Fresh(s, l, lk),
           \A n \in Node, e \in Epochs : kl[n][e].signers \subseteq lk[n][e].signers
    PROVE  Fresh(s, l, kl)
<1>1. Owner(Other(l)) \in Node
    BY LinkEnds
<1>2. \A i \in DOMAIN s : IsOrder(s[i]) => s[i].epoch \in Epochs
    BY MessageFields DEF IsOrder
<1> QED
    BY <1>1, <1>2 DEF Fresh

-----------------------------------------------------------------------------
(* Steps that put no partial on a link and count none.                     *)

\* Locks are kept or emptied.
LocksFewer == \A n \in Node : locks'[n] = locks[n] \/ locks'[n] = [e \in Epochs |-> NoLock]

LEMMA FewerLocks ==
    ASSUME LockInv, LocksFewer
    PROVE  /\ SignersCounted'
           /\ \A n \in Node, e \in Epochs :
                locks'[n][e].signers \subseteq locks[n][e].signers
<1>1. Tallied(NoLock) /\ NoLock.signers = {}
    BY FS_EmptySet DEF Tallied, NoLock
<1>2. \A n \in Node, e \in Epochs : locks'[n][e] = locks[n][e] \/ locks'[n][e] = NoLock
    BY DEF LocksFewer
<1> QED
    BY <1>1, <1>2 DEF LockInv, SignersCounted

\* What is under way on a link after such a step: nothing new but silence,
\* shares and requests.
Quieter(l) ==
    \E t \in Seq(Message) :
        /\ NoOrders(t)
        /\ \/ chan'[l] \in {t, chan[l] \o t}
           \/ chan[l] # <<>> /\ chan'[l] = Tail(chan[l]) \o t

LEMMA QuietStep ==
    ASSUME TypeOK, LockInv, LocksFewer, \A l \in Links : Quieter(l)
    PROVE  LockInv'
<1>1. /\ SignersCounted'
      /\ \A n \in Node, e \in Epochs : locks'[n][e].signers \subseteq locks[n][e].signers
    BY FewerLocks
<1>2. ASSUME NEW l \in Links PROVE Fresh(chan'[l], l, locks')
    <2>1. chan[l] \in Seq(Message) /\ Fresh(chan[l], l, locks)
        BY DEF TypeOK, LockInv, PartialsFresh
    <2>2. Fresh(chan[l], l, locks')
        BY <1>1, <2>1, FreshFewer
    <2>3. PICK t \in Seq(Message) :
            /\ NoOrders(t)
            /\ \/ chan'[l] \in {t, chan[l] \o t}
               \/ chan[l] # <<>> /\ chan'[l] = Tail(chan[l]) \o t
        BY DEF Quieter
    <2>4. CASE chan'[l] = t
        BY <2>3, <2>4, FreshQuiet
    <2>5. CASE chan'[l] = chan[l] \o t
        BY <2>1, <2>2, <2>3, <2>5, FreshConcat
    <2>6. CASE chan[l] # <<>> /\ chan'[l] = Tail(chan[l]) \o t
        <3>1. Tail(chan[l]) \in Seq(Message) /\ Fresh(Tail(chan[l]), l, locks')
            BY <2>1, <2>2, <2>6, FreshTail
        <3> QED
            BY <2>3, <2>6, <3>1, FreshConcat
    <2> QED
        BY <2>3, <2>4, <2>5, <2>6
<1> QED
    BY <1>1, <1>2 DEF LockInv, PartialsFresh

LEMMA StillLinks ==
    ASSUME TypeOK, chan' = chan
    PROVE  \A l \in Links : Quieter(l)
<1> TAKE l \in Links
<1>1. chan[l] \in Seq(Message) /\ <<>> \in Seq(Message) /\ NoOrders(<<>>)
    BY DEF TypeOK, NoOrders
<1>2. chan'[l] = chan[l] \o <<>>
    BY <1>1
<1> QED
    BY <1>1, <1>2 DEF Quieter

\* One link is given a new content, the others are kept.
LEMMA OneLink ==
    ASSUME TypeOK, NEW k \in Links, NEW t \in Seq(Message), NoOrders(t),
           chan' = [chan EXCEPT ![k] = t]
    PROVE  \A l \in Links : Quieter(l)
<1> TAKE l \in Links
<1>1. chan[l] \in Seq(Message) /\ <<>> \in Seq(Message) /\ NoOrders(<<>>)
    BY DEF TypeOK, NoOrders
<1>2. chan'[l] = IF l = k THEN t ELSE chan[l] \o <<>>
    BY <1>1 DEF TypeOK
<1> QED
    BY <1>1, <1>2 DEF Quieter

LEMMA HandleDecreeLock ==
    ASSUME Inv, LockInv, NEW n \in Node, NEW d, NEW op, HandleDecree(n, d, op),
           chan' = chan
    PROVE  LockInv'
<1>1. LocksFewer
    BY HandleDecreeEffect DEF Inv, Keeps, Closes, LocksFewer
<1> QED
    BY <1>1, StillLinks, QuietStep DEF Inv

\* Losing, dialing and accepting connections.
LEMMA ConnectionLock ==
    ASSUME Inv, LockInv, NEW c \in Conn,
           DialSeed(c) \/ Reconnect(c) \/ Accept(c) \/ Disconnect(c)
    PROVE  LockInv'
<1>1. c[1] \in Node /\ c[2] \in Node /\ <<c, 1>> \in Links /\ <<c, 2>> \in Links
    BY DEF Conn, Links
<1>2. TypeOK /\ <<>> \in Seq(Envelope)
    BY DEF Inv
<1>3. LocksFewer
    BY DEF DialSeed, Reconnect, Dial, Accept, Disconnect, ceremony, LocksFewer
<1>4. /\ <<>> \in Seq(Message) /\ NoOrders(<<>>)
      /\ Welcome(c[2]) \in Seq(Message) /\ NoOrders(Welcome(c[2]))
      /\ <<[type |-> "SYNC_REQ"]>> \in Seq(Message)
      /\ NoOrders(<<[type |-> "SYNC_REQ"]>>)
    BY <1>1, <1>2, QuietType, QuietMessages, WelcomeNoOrders
<1>5. CASE DialSeed(c) \/ Reconnect(c) \/ Accept(c)
    <2>1. \E k \in Links, t \in Seq(Message) :
            NoOrders(t) /\ chan' = [chan EXCEPT ![k] = t]
        <3>1. CASE DialSeed(c)
            BY <1>1, <1>4, <3>1 DEF DialSeed, Dial
        <3>2. CASE Reconnect(c)
            BY <1>1, <1>4, <3>2 DEF Reconnect, Dial
        <3>3. CASE Accept(c)
            BY <1>1, <1>4, <3>3 DEF Accept
        <3> QED
            BY <1>5, <3>1, <3>2, <3>3
    <2>2. \A l \in Links : Quieter(l)
        BY <1>2, <2>1, OneLink
    <2> QED
        BY <1>2, <1>3, <2>2, QuietStep
<1>6. CASE Disconnect(c)
    <2>1. ASSUME NEW l \in Links PROVE Quieter(l)
        <3>1. chan'[l] = <<>> \/ chan'[l] = chan[l]
            BY <1>6 DEF Disconnect, Lose
        <3>2. chan[l] \in Seq(Message)
            BY <1>2 DEF TypeOK
        <3>3. chan'[l] \in {<<>>, chan[l] \o <<>>}
            BY <3>1, <3>2
        <3> QED
            BY <1>4, <3>3 DEF Quieter
    <2> QED
        BY <1>2, <1>3, <2>1, QuietStep
<1> QED
    BY <1>5, <1>6

-----------------------------------------------------------------------------
(* Counting a partial.                                                     *)

\* A partial of a process the lock has not counted keeps the tally.
LEMMA IngestTally ==
    ASSUME NEW L \in Lock, Tallied(L), NEW r, NEW m, m \notin L.signers
    PROVE  /\ Tallied(Ingest(L, r, m))
           /\ Ingest(L, r, m).signers \subseteq L.signers \cup {m}
<1>1. CASE ~Accepts(L, r)
    BY <1>1 DEF Ingest
<1>2. CASE Accepts(L, r)
    <2> DEFINE I == Ingest(L, r, m)
    <2>1. /\ I.count = L.count + 1 /\ I.signers = L.signers \cup {m}
          /\ I.attested = (L.attested \/ L.count + 1 >= T)
        BY <1>2 DEF Ingest
    <2> DEFINE S == L.signers
    <2>8. IsFiniteSet(S)
        BY DEF Tallied
    <2> HIDE DEF S
    <2>9. IsFiniteSet(S \cup {m}) /\ (m \notin S => Cardinality(S \cup {m}) = Cardinality(S) + 1)
        BY <2>8, FS_AddElement
    <2> HIDE DEF I
    <2>2. IsFiniteSet(I.signers) /\ Cardinality(I.signers) = Cardinality(L.signers) + 1
        BY <2>1, <2>9 DEF S
    <2>3. L.count \in Nat /\ T \in Nat
        BY CeremonyAssumption DEF Lock
    <2>4. L.attested => L.count >= T
        BY DEF Tallied
    <2>5. L.attested => L.count + 1 >= T
        BY <2>3, <2>4
    <2>6. I.attested => L.count + 1 >= T
        BY <2>1, <2>5
    <2>7. Tallied(I)
        BY <2>1, <2>2, <2>6 DEF Tallied
    <2> QED
        BY <2>1, <2>7 DEF I
<1> QED
    BY <1>1, <1>2

\* A step adds at most process m to the signers of n's lock for epoch e.
CountsOnly(n, e, m) ==
    \A k \in Node, f \in Epochs : \A x \in locks'[k][f].signers :
        x \in locks[k][f].signers \/ (k = n /\ f = e /\ x = m)

LEMMA IngestCounted ==
    ASSUME Inv, LockInv, NEW n \in Node, NEW e \in Epochs, NEW r, NEW m,
           locks' = [locks EXCEPT ![n][e] = Ingest(locks[n][e], r, m)],
           m \notin locks[n][e].signers
    PROVE  /\ SignersCounted'
           /\ CountsOnly(n, e, m)
<1> DEFINE I == Ingest(locks[n][e], r, m)
<1>1. locks \in [Node -> [Epochs -> Lock]]
    BY DEF Inv, TypeOK
<1>2. Tallied(I) /\ I.signers \subseteq locks[n][e].signers \cup {m}
    BY <1>1, IngestTally DEF LockInv, SignersCounted
<1> HIDE DEF I
<1>3. \A k \in Node, f \in Epochs :
        locks'[k][f] = IF k = n /\ f = e THEN I ELSE locks[k][f]
    BY <1>1 DEF I
<1> QED
    BY <1>2, <1>3 DEF LockInv, SignersCounted, CountsOnly

\* Sender and receiver determine the end of the connection; they differ.
LEMMA LinkUnique ==
    ASSUME SimpleFleet, NEW k \in Links, NEW l \in Links, Owner(k) = Owner(l)
    PROVE  /\ Owner(Other(k)) # Owner(k)
           /\ Owner(Other(k)) = Owner(Other(l)) => k = l
<1>1. /\ k[1] \in Conn /\ l[1] \in Conn /\ k[2] \in {1, 2} /\ l[2] \in {1, 2}
      /\ k = <<k[1], k[2]>> /\ l = <<l[1], l[2]>>
    BY DEF Links
<1>2. k[1][1] # k[1][2] /\ l[1][1] # l[1][2]
    BY <1>1 DEF SimpleFleet
<1>3. /\ {k[1][1], k[1][2]} = {Owner(k), Owner(Other(k))}
      /\ {l[1][1], l[1][2]} = {Owner(l), Owner(Other(l))}
      /\ Owner(Other(k)) # Owner(k)
    BY <1>1, <1>2 DEF Owner, Other
<1>4. ASSUME Owner(Other(k)) = Owner(Other(l)) PROVE k = l
    <2>1. k[1] = l[1]
        BY <1>1, <1>3, <1>4 DEF SimpleFleet
    <2>2. k[2] = l[2]
        BY <1>1, <1>2, <2>1 DEF Owner
    <2> QED
        BY <1>1, <2>1, <2>2
<1> QED
    BY <1>3, <1>4

\* Reading a message.
LEMMA ReadLinks ==
    ASSUME TypeOK, NEW n \in Node, NEW e \in Links, NEW m, Arrives(n, e, m)
    PROVE  \A l \in Links :
             /\ Read(e)[l] \in Seq(Message)
             /\ \/ Read(e)[l] = chan[l] /\ l # Other(e)
                \/ /\ l = Other(e) /\ chan[l] # <<>> /\ m = Head(chan[l])
                   /\ Read(e)[l] = Tail(chan[l])
<1>1. Other(e) \in Links /\ Read(e) \in [Links -> Seq(Message)]
    BY ReadType, LinkEnds
<1> QED
    BY <1>1 DEF TypeOK, Read, Arrives

\* Reading one message and sending others that are no partials.
LEMMA ReadAndSend ==
    ASSUME TypeOK, NEW n \in Node, NEW e \in Links, NEW m, Arrives(n, e, m),
           NEW ms \in Seq(Message), NoOrders(ms), NEW E,
           chan' = Read(e) \/ chan' = Sent(E, ms, Read(e))
    PROVE  \A l \in Links : Quieter(l)
<1> SUFFICES ASSUME NEW l \in Links PROVE Quieter(l)
    OBVIOUS
<1>1. Read(e)[l] \in Seq(Message) /\ chan[l] \in Seq(Message)
    BY ReadLinks DEF TypeOK
<1>2. \/ Read(e)[l] = chan[l]
      \/ chan[l] # <<>> /\ Read(e)[l] = Tail(chan[l])
    BY ReadLinks
<1>3. chan'[l] = Read(e)[l] \/ chan'[l] = Read(e)[l] \o ms
    BY DEF Sent
<1> HIDE DEF Read
<1>4. Read(e)[l] = Read(e)[l] \o <<>> /\ <<>> \in Seq(Message)
    BY <1>1
<1>5. NoOrders(<<>>)
    BY DEF NoOrders
<1> QED
    BY <1>2, <1>3, <1>4, <1>5 DEF Quieter

LEMMA ReceiveQuietLock ==
    ASSUME Inv, LockInv, NEW n \in Node, NEW e \in Links, NEW m,
           \/ ReceiveSync(n, e, m)
           \/ ReceiveSyncReq(n, e, m)
           \/ ReceiveAnnounce(n, e, m)
    PROVE  LockInv'
<1>1. TypeOK /\ Arrives(n, e, m) /\ LocksFewer
    BY DEF Inv, ReceiveSync, ReceiveSyncReq, ReceiveAnnounce, ceremony, LocksFewer
<1>2. pool[n] \in Seq(Envelope) /\ <<>> \in Seq(Envelope)
    BY <1>1 DEF TypeOK
<1>3. <<SyncMsg(n, pool[n])>> \in Seq(Message) /\ NoOrders(<<SyncMsg(n, pool[n])>>)
    BY <1>2, QuietType, QuietMessages
<1>4. \A l \in Links : Quieter(l)
    <2>1. CASE ReceiveSync(n, e, m)
        BY <1>1, <1>3, <2>1, ReadAndSend DEF ReceiveSync
    <2>2. CASE ReceiveSyncReq(n, e, m)
        BY <1>1, <1>3, <2>2, ReadAndSend DEF ReceiveSyncReq
    <2>3. CASE ReceiveAnnounce(n, e, m)
        <3>1. m.node \in Public
            BY <1>1, <2>3, ReadType, MessageFields DEF ReceiveAnnounce
        <3>2. /\ <<AnnounceMsg(m.node)>> \in Seq(Message)
              /\ NoOrders(<<AnnounceMsg(m.node)>>)
            BY <1>2, <3>1, QuietType, QuietMessages
        <3>3. \/ chan' = Read(e)
              \/ \E E : chan' = Sent(E, <<AnnounceMsg(m.node)>>, Read(e))
            BY <2>3 DEF ReceiveAnnounce
        <3> QED
            BY <1>1, <3>2, <3>3, ReadAndSend
    <2> QED
        BY <2>1, <2>2, <2>3
<1> QED
    BY <1>1, <1>4, QuietStep

LEMMA FreshBroadcast ==
    ASSUME NEW n \in Node, NEW ms \in Seq(Message), NoOrders(ms), NEW lk,
           NEW ch \in [Links -> Seq(Message)],
           \A l \in Links : Fresh(ch[l], l, lk)
    PROVE  \A l \in Links : Fresh(Broadcast(n, ms, ch)[l], l, lk)
<1> TAKE l \in Links
<1>1. ch[l] \in Seq(Message) /\ Broadcast(n, ms, ch)[l] \in {ch[l] \o ms, ch[l]}
    BY DEF Broadcast, Sent
<1> QED
    BY <1>1, FreshConcat

\* A partial read from a connection is the first its receiver counts of that
\* sender.
LEMMA ReceiveOrderLock ==
    ASSUME SimpleFleet, Inv, LockInv, NEW n \in Node, NEW e \in Links, NEW m,
           ReceiveOrder(n, e, m)
    PROVE  LockInv'
<1> DEFINE rd == Read(e)
           ms == <<SyncMsg(n, pool[n])>>
           k  == Other(e)
<1>1. /\ Arrives(n, e, m) /\ IsOrder(m)
      /\ locks' = [locks EXCEPT ![n][m.epoch] =
                     Ingest(locks[n][m.epoch], m.root, m.from)]
      /\ chan' \in {Broadcast(n, ms, rd), rd}
    BY DEF ReceiveOrder, IsOrder
<1>2. rd \in [Links -> Seq(Message)] /\ m \in Message /\ k \in Links
    BY <1>1, ReadType, LinkEnds DEF Inv
<1>3. m.epoch \in Epochs
    BY <1>1, <1>2, MessageFields DEF IsOrder
<1>4. /\ chan[k] \in Seq(Message) /\ chan[k] # <<>> /\ m = Head(chan[k])
      /\ Fresh(chan[k], k, locks)
    BY <1>1, <1>2 DEF Arrives, Inv, TypeOK, LockInv, PartialsFresh
<1>5. Owner(k) \in Node /\ Owner(Other(k)) = n
    BY <1>1, <1>2, LinkEnds DEF Arrives, Ends
<1>6. m.from = Owner(k) /\ m.from \notin locks[n][m.epoch].signers
    <2>1. 1 \in DOMAIN chan[k] /\ m = chan[k][1]
        BY <1>4
    <2> QED
        BY <1>1, <1>4, <1>5, <2>1 DEF Fresh
<1>7. /\ SignersCounted'
      /\ CountsOnly(n, m.epoch, m.from)
    <2>1. locks' = [locks EXCEPT ![n][m.epoch] =
                     Ingest(locks[n][m.epoch], m.root, m.from)]
        BY <1>1
    <2>2. m.from \notin locks[n][m.epoch].signers
        BY <1>6
    <2> QED
        BY <1>3, <2>1, <2>2, IngestCounted
<1>8. ms \in Seq(Message) /\ NoOrders(ms)
    BY QuietType, QuietMessages DEF Inv, TypeOK
<1>9. \A l \in Links :
        /\ rd[l] \in Seq(Message)
        /\ \/ rd[l] = chan[l] /\ l # k
           \/ l = k /\ rd[l] = Tail(chan[l])
    BY <1>1, ReadLinks DEF Inv
<1> HIDE DEF rd, ms, k
<1>10. ASSUME NEW l \in Links PROVE Fresh(rd[l], l, locks')
    <2>1. Fresh(rd[l], l, locks)
        BY <1>4, <1>9, FreshTail DEF LockInv, PartialsFresh
    <2>2. Owner(Other(l)) \in Node
        BY LinkEnds
    <2>3. \A i \in DOMAIN rd[l] : IsOrder(rd[l][i]) => rd[l][i].epoch \in Epochs
        BY <1>9, MessageFields DEF IsOrder
    <2>4. CASE l = k
        <3>1. \A i \in DOMAIN rd[l] : IsOrder(rd[l][i]) => rd[l][i].epoch # m.epoch
            BY <1>1, <1>4, <1>9, <2>4, FreshTail
        <3> QED
            BY <1>7, <2>1, <2>2, <2>3, <3>1 DEF Fresh, CountsOnly
    <2>5. CASE l # k
        <3>1. Owner(Other(l)) = n => Owner(l) # m.from
            BY <1>2, <1>5, <1>6, <2>5, LinkUnique
        <3> QED
            BY <1>7, <2>1, <2>2, <2>3, <3>1 DEF Fresh, CountsOnly
    <2> QED
        BY <2>4, <2>5
<1>11. \A l \in Links : Fresh(chan'[l], l, locks')
    BY <1>1, <1>2, <1>8, <1>10, FreshBroadcast
<1> QED
    BY <1>7, <1>11 DEF LockInv, PartialsFresh

\* A node commits an order in an epoch for which it has signed nothing.
LEMMA CommitOrderLock ==
    ASSUME SimpleFleet, Inv, OrderInv, LockInv, NEW n \in Node, NEW e \in Envelope,
           CommitOrder(n, e)
    PROVE  LockInv'
<1> DEFINE pe == poolEpoch'[n]
           r  == OrderRoot(Append(beacon[n], pe), pool'[n])
           ms == IF Publishes(locks[n][pe], r, TRUE)
                 THEN <<OrderMsg(n, pe, r), SyncMsg(n, pool'[n])>>
                 ELSE <<OrderMsg(n, pe, r)>>
<1>1. /\ ~committed[n] /\ epoch[n] <= MaxEpoch
      /\ PoolEnvelope(n, e)
      /\ locks' = [locks EXCEPT ![n][pe] = Ingest(locks[n][pe], r, n)]
      /\ chan' = Broadcast(n, ms, chan)
    BY DEF CommitOrder, CompletesPool
<1>2. pe = epoch[n] /\ pe \in Epochs /\ pool'[n] \in Seq(Envelope)
    BY <1>1, PoolEnvelopeEffect
<1>3. r \in Orders
    BY <1>2, OrderRootType
<1>4. /\ ms \in Seq(Message) /\ ms # <<>> /\ ms[1] = OrderMsg(n, pe, r)
      /\ \A i \in DOMAIN ms : IsOrder(ms[i]) => i = 1
    <2>1. OrderMsg(n, pe, r) \in Message /\ SyncMsg(n, pool'[n]) \in Message
        BY <1>2, <1>3, MessageType
    <2>2. ~IsOrder(SyncMsg(n, pool'[n]))
        BY DEF IsOrder, SyncMsg
    <2> HIDE DEF pe, r
    <2>3. CASE Publishes(locks[n][pe], r, TRUE)
        <3>1. ms = <<OrderMsg(n, pe, r), SyncMsg(n, pool'[n])>>
            BY <2>3
        <3> HIDE DEF ms
        <3>2. /\ ms \in Seq(Message) /\ ms # <<>> /\ ms[1] = OrderMsg(n, pe, r)
              /\ DOMAIN ms = {1, 2} /\ ms[2] = SyncMsg(n, pool'[n])
            BY <2>1, <3>1
        <3> QED
            BY <2>2, <3>2
    <2>4. CASE ~Publishes(locks[n][pe], r, TRUE)
        <3>1. ms = <<OrderMsg(n, pe, r)>>
            BY <2>4
        <3> HIDE DEF ms
        <3> QED
            BY <2>1, <3>1
    <2> QED
        BY <2>3, <2>4
<1>5. ms[1].from = n /\ ms[1].epoch = pe
    BY <1>4 DEF OrderMsg
<1>6. \A s \in signed : s.node = n => s.epoch # pe
    <2>1. \A s \in signed : s.node = n => s.epoch < epoch[n]
        BY <1>1 DEF OrderInv, SignedPast
    <2>2. epoch[n] \in Nat
        BY DEF Inv, TypeOK
    <2> HIDE DEF pe
    <2> QED
        BY <1>2, <2>1, <2>2
<1>7. \A a \in Node : n \notin locks[a][pe].signers
    <2> SUFFICES ASSUME NEW a \in Node, n \in locks[a][pe].signers PROVE FALSE
        OBVIOUS
    <2>1. [node |-> n, epoch |-> pe, root |-> locks[a][pe].root] \in signed
        BY <1>2 DEF Inv, LockIntegrity
    <2> QED
        BY <1>6, <2>1
<1>8. ASSUME NEW l \in Links, Owner(l) = n, NEW i \in DOMAIN chan[l], IsOrder(chan[l][i])
      PROVE  chan[l][i].epoch # pe
    <2>1. [node |-> chan[l][i].from, epoch |-> chan[l][i].epoch,
           root |-> chan[l][i].root] \in signed
        BY <1>8 DEF Inv, InFlightSigned, AllSigned, IsOrder
    <2>2. chan[l][i].from = n
        BY <1>8 DEF LockInv, PartialsFresh, Fresh
    <2> QED
        BY <1>6, <2>1, <2>2
<1> HIDE DEF pe, r, ms
<1>9. /\ SignersCounted'
      /\ CountsOnly(n, pe, n)
    <2>1. locks' = [locks EXCEPT ![n][pe] = Ingest(locks[n][pe], r, n)]
        BY <1>1
    <2>2. pe \in Epochs /\ n \notin locks[n][pe].signers
        BY <1>2, <1>7
    <2> QED
        BY <2>1, <2>2, IngestCounted
<1>10. ASSUME NEW l \in Links PROVE Fresh(chan[l], l, locks')
    <2>1. Fresh(chan[l], l, locks) /\ chan[l] \in Seq(Message)
        BY DEF Inv, TypeOK, LockInv, PartialsFresh
    <2>2. Owner(Other(l)) \in Node /\ Owner(Other(l)) # Owner(l)
        BY LinkEnds, LinkUnique
    <2>3. \A i \in DOMAIN chan[l] : IsOrder(chan[l][i]) => chan[l][i].epoch \in Epochs
        BY <2>1, MessageFields DEF IsOrder
    <2> QED
        BY <1>9, <2>1, <2>2, <2>3 DEF Fresh, CountsOnly
<1>11. ASSUME NEW l \in Links PROVE Fresh(chan'[l], l, locks')
    <2>1. chan[l] \in Seq(Message)
        BY DEF Inv, TypeOK
    <2>2. CASE chan'[l] = chan[l]
        BY <1>10, <2>2
    <2>3. CASE Owner(l) = n /\ chan'[l] = chan[l] \o ms
        <3>1. Owner(Other(l)) \in Node /\ Owner(Other(l)) # n
            BY <2>3, LinkEnds, LinkUnique
        <3>2. n \notin locks'[Owner(Other(l))][pe].signers
            BY <1>2, <1>7, <1>9, <3>1 DEF CountsOnly
        <3>3. ms[1].from = Owner(l)
            BY <1>5, <2>3
        <3>4. \A i \in DOMAIN chan[l] : IsOrder(chan[l][i]) => chan[l][i].epoch # ms[1].epoch
            BY <1>5, <1>8, <2>3
        <3> QED
            BY <1>4, <1>5, <1>10, <2>1, <2>3, <3>2, <3>3, <3>4, FreshOrder
    <2> QED
        BY <1>1, <2>2, <2>3 DEF Broadcast, Sent, Ends
<1> QED
    BY <1>9, <1>11 DEF LockInv, PartialsFresh

-----------------------------------------------------------------------------
LEMMA InitLock == Init => LockInv
<1> SUFFICES ASSUME Init PROVE LockInv
    OBVIOUS
<1>1. Tallied(NoLock)
    BY FS_EmptySet DEF Tallied, NoLock
<1>2. SignersCounted
    BY <1>1 DEF Init, SignersCounted
<1>3. PartialsFresh
    BY DEF Init, PartialsFresh, Fresh
<1> QED
    BY <1>2, <1>3 DEF LockInv

LEMMA NextLock ==
    ASSUME SimpleFleet, Inv, OrderInv, LockInv, [Next]_vars
    PROVE  LockInv'
<1>1. ASSUME chan' = chan, locks' = locks PROVE LockInv'
    BY <1>1 DEF LockInv, PartialsFresh, SignersCounted
<1>2. ASSUME NEW n \in Node, NEW e,
             EnterLoop(n) \/ StoreEnvelope(n, e)
      PROVE  LockInv'
    BY <1>1, <1>2 DEF EnterLoop, StoreEnvelope, ceremony, net
<1>3. ASSUME NEW n \in Node, DecryptStep(n) PROVE LockInv'
    <2>1. /\ chan' = chan
          /\ \/ HandleDecree(n, pool[n][ix[n]], opened[n] \cup {ix[n]})
             \/ locks' = locks
        BY <1>3 DEF DecryptStep, ceremony, net
    <2> QED
        BY <1>1, <2>1, HandleDecreeLock
<1>4. ASSUME NEW n \in Node, NEW d, ReceiveDecree(n, d) PROVE LockInv'
    BY <1>4, HandleDecreeLock DEF ReceiveDecree, net
<1>5. ASSUME NEW n \in Node, NEW l \in Links, Receive(n, l) PROVE LockInv'
    BY <1>5, ReceiveOrderLock, ReceiveQuietLock DEF Receive
<1>6. ASSUME UNCHANGED vars PROVE LockInv'
    BY <1>1, <1>6 DEF vars, ceremony, net
<1> QED
    BY <1>2, <1>3, <1>4, <1>5, <1>6, CommitOrderLock, ConnectionLock
       DEF Next, NodeStep

\* The three invariants hold together in a simple fleet.
THEOREM LockInvariance ==
    ASSUME SimpleFleet
    PROVE  Spec => [](Inv /\ OrderInv /\ LockInv)
<1>1. Init => Inv /\ OrderInv /\ LockInv
    BY InitInv, OrderInvInit, InitLock
<1>2. Inv /\ OrderInv /\ LockInv /\ [Next]_vars => Inv' /\ OrderInv' /\ LockInv'
    <2> SUFFICES ASSUME Inv, OrderInv, LockInv, [Next]_vars
                 PROVE  Inv' /\ OrderInv' /\ LockInv'
        OBVIOUS
    <2>1. Inv'
        BY NextInv
    <2>2. OrderInv'
        <3>1. CASE \E n \in Node, e \in Envelope : CommitOrder(n, e)
            BY <3>1, CommitOrderOrderInv
        <3>2. CASE ~ \E n \in Node, e \in Envelope : CommitOrder(n, e)
            BY <3>2, OnlyCommitSigns, SignsNothingOrderInv DEF Inv, OrderInv
        <3> QED
            BY <3>1, <3>2
    <2> QED
        BY <2>1, <2>2, NextLock
<1> QED
    BY <1>1, <1>2, PTL DEF Spec

\* In a simple fleet an attested lock stands on the signatures of T different
\* processes, although order_lock_ingest counts partials and not signers: no
\* loss, reconnection or change of epoch makes a partial arrive twice.
THEOREM LockOfProcessesThm ==
    ASSUME SimpleFleet
    PROVE  Spec => []LockOfProcesses
<1>1. LockInv => LockOfProcesses
    BY DEF LockInv, SignersCounted, Tallied, LockOfProcesses
<1> QED
    BY <1>1, LockInvariance, PTL

\* Two quorums of one epoch share a process.
LEMMA QuorumsShare ==
    ASSUME QuorumsMeet, NEW A \in SUBSET Node, NEW B \in SUBSET Node,
           Cardinality(A) >= T, Cardinality(B) >= T
    PROVE  A \cap B # {}
<1> SUFFICES ASSUME A \cap B = {} PROVE FALSE
    OBVIOUS
<1>1. IsFiniteSet(Node)
    BY CeremonyAssumption
<1>2. /\ IsFiniteSet(A) /\ IsFiniteSet(B)
      /\ IsFiniteSet(A \cup B) /\ Cardinality(A \cup B) <= Cardinality(Node)
    BY <1>1, FS_Subset
<1>3. Cardinality(A \cup B) = Cardinality(A) + Cardinality(B) - Cardinality(A \cap B)
    BY <1>2, FS_Union
<1>4. Cardinality(A \cap B) = 0
    BY FS_EmptySet
<1>5. /\ Cardinality(A) \in Nat /\ Cardinality(B) \in Nat
      /\ Cardinality(Node) \in Nat /\ T \in Nat /\ Cardinality(A \cup B) \in Nat
    BY <1>1, <1>2, FS_CardinalityType, CeremonyAssumption
<1> QED
    BY <1>2, <1>3, <1>4, <1>5 DEF QuorumsMeet

\* When moreover T is more than half of the processes, no two nodes hold
\* attested locks on different orders of one epoch: the quorums share a
\* process, which signed one order.  The hypothesis is the "t > n/2" of
\* dkg_vss.hpp; config_ok also admits 2t = n, where the conclusion fails.
THEOREM LockAgreementThm ==
    ASSUME SimpleFleet, QuorumsMeet
    PROVE  Spec => []LockAgreement
<1>1. Inv /\ OrderInv /\ LockInv => LockAgreement
    <2> SUFFICES ASSUME Inv, OrderInv, LockInv, NEW n \in Node, NEW m \in Node,
                        NEW e \in Epochs,
                        locks[n][e].attested, locks[m][e].attested
                 PROVE  locks[n][e].root = locks[m][e].root
        BY DEF LockAgreement
    <2> DEFINE A == locks[n][e].signers
               B == locks[m][e].signers
    <2>1. Cardinality(A) >= T /\ Cardinality(B) >= T
        BY DEF LockInv, SignersCounted, Tallied
    <2>2. A \in SUBSET Node /\ B \in SUBSET Node
        <3>1. locks[n][e] \in Lock /\ locks[m][e] \in Lock
            BY DEF Inv, TypeOK
        <3> QED
            BY <3>1 DEF Lock
    <2>3. PICK s \in A : s \in B
        BY <2>1, <2>2, QuorumsShare
    <2>4. /\ [node |-> s, epoch |-> e, root |-> locks[n][e].root] \in signed
          /\ [node |-> s, epoch |-> e, root |-> locks[m][e].root] \in signed
        BY <2>3 DEF Inv, LockIntegrity
    <2> QED
        BY <2>4 DEF OrderInv, NoTwoOrders
<1> QED
    BY <1>1, LockInvariance, PTL
=============================================================================
