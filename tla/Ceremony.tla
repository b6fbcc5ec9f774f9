------------------------------ MODULE Ceremony ------------------------------
(***************************************************************************)
(* The encrypted-mempool ordering ceremony of the epoch node               *)
(* (tools/epoch_node.cpp): envelopes are pooled, the order is committed    *)
(* when the pool reaches K, every node signs the order (wire type 0x0D),   *)
(* a lock is attested at T partials, decryption shares are published       *)
(* (0x0C), and decrypted envelopes are folded as decrees.  K decrees close *)
(* the epoch and wipe the ceremony.                                        *)
(*                                                                         *)
(* Each node is one thread: a handler runs to its end before the next one. *)
(* A loop over try_decrypt_envelope is unrolled into DecryptStep actions,  *)
(* during which the node handles nothing else, because a decryption may    *)
(* close the epoch and empty the pool the loop runs over.                  *)
(*                                                                         *)
(* Cryptography is ideal: a signature is a member of `signed', a share is  *)
(* the pair of its member and the envelope it was computed over, SHA-256   *)
(* is injective.  An order statement is identified by the process that     *)
(* signed it; the member number it carries is SelfMember of that process,  *)
(* which main derives from the port and several processes may share.       *)
(***************************************************************************)
EXTENDS Integers, Sequences, FiniteSets

CONSTANTS
    Node,           \* running processes
    SelfMember,     \* g_self_member of each node
    Envelope,       \* ciphertexts a client may submit (their cth)
    Decree,         \* plain decrees: gossip, pulses, claims
    Seed,           \* <<dialer, acceptor>>: the --seed arguments
    Public,         \* nodes started with --public-ip
    Mirror,         \* who listens on a public address read back to front
    MaxPeers,       \* p2p::MAX_PEERS
    K,              \* g_k_entries
    T,              \* g_cfg_t_eff
    SortKey(_, _),  \* m2::sort_key(beacon, cth)
    SeenCap,        \* capacity of seen_fps
    MaxEpoch,       \* bound: nodes take no input in a later epoch
    MaxFaults       \* bound: connection losses and restarts

ASSUME CeremonyAssumption ==
    /\ K \in Nat \ {0}
    /\ T \in Nat \ {0}
    /\ SeenCap \in Nat \ {0}
    /\ MaxEpoch \in Nat \ {0}
    /\ MaxFaults \in Nat
    /\ IsFiniteSet(Envelope)
    /\ IsFiniteSet(Node)
    /\ Seed \subseteq Node \X Node
    /\ Public \subseteq Node
    /\ DOMAIN Mirror \subseteq Public
    /\ \A a \in DOMAIN Mirror : Mirror[a] \in Node
    /\ MaxPeers \in Nat
    /\ Envelope \cap Decree = {}

VARIABLES
    pc,         \* "boot", "idle" (in select) or "decrypt" (in the loop)
    ix,         \* the loop index of "decrypt"
    epoch,      \* current_epoch
    decrees,    \* decree_count
    seen,       \* seen_fps
    pool,       \* g_mempool, and with it g_dec_shares: both grow together
    opened,     \* indices of g_mempool whose entry is decrypted
    thr,        \* g_thr_shares: [ix, member, env]
    poolEpoch,  \* g_pool_epoch
    committed,  \* g_order_committed
    root,       \* g_order_root
    beacon,     \* g_prev_beacon: the pool epochs hashed into the chain
    locks,      \* g_order_locks
    known,      \* g_discovered: the addresses announced to the node
    dialed,     \* connections the dialer holds in peer_fds
    accepted,   \* those of them the acceptor holds in peer_fds
    chan,       \* chan[l]: what was sent at end l of a connection, unread
    signed,     \* history: the order statements signed so far
    faults      \* connection losses and restarts so far

ceremony == <<pool, opened, thr, committed, locks>>
fold     == <<epoch, decrees, seen>>
net      == <<known, dialed, accepted, chan, faults>>
vars     == <<pc, ix, fold, ceremony, poolEpoch, root, beacon, net, signed>>

Member == {SelfMember[n] : n \in Node}
Epochs == 0 .. MaxEpoch
Orders == UNION {[S -> 0 .. Cardinality(Envelope)] : S \in SUBSET Envelope}
NoRoot == [e \in {} |-> 0]
Lock   == [root : Orders, count : Nat, signers : SUBSET Node,
           attested : BOOLEAN]
NoLock == [root |-> NoRoot, count |-> 0, signers |-> {}, attested |-> FALSE]

Message ==
    [type : {"ORDER"}, epoch : Epochs, root : Orders, from : Node]
    \cup [type : {"SYNC"}, member : Member, shares : Seq(Envelope)]
    \cup [type : {"SYNC_REQ"}]
    \cup [type : {"ANNOUNCE"}, node : Public]

Contents(s) == {s[i] : i \in DOMAIN s}

\* The connections the fleet can build, <<dialer, acceptor, how>>: those of
\* the --seed arguments, and those dialed on an announcement.
Conn ==
    {c \in Node \X Node \X {"seed", "direct"} :
        \/ c[3] = "seed" /\ <<c[1], c[2]>> \in Seed
        \/ c[3] = "direct" /\ c[2] \in {Mirror[a] : a \in DOMAIN Mirror}}

\* The ends of the connections: 1 is the dialer's, 2 the acceptor's.
Links    == Conn \X {1, 2}
Owner(l) == IF l[2] = 1 THEN l[1][1] ELSE l[1][2]
Other(l) == IF l[2] = 1 THEN <<l[1], 2>> ELSE <<l[1], 1>>

-----------------------------------------------------------------------------
(* What the handlers compute.                                              *)

\* order_root over the envelopes sorted by their beacon-keyed sort key: the
\* position of every envelope of the pool.
OrderRoot(b, p) ==
    [e \in Contents(p) |->
        Cardinality({f \in Contents(p) : SortKey(b, f) < SortKey(b, e)})]

\* seen_or_add: the FIFO of fingerprints, oldest entry evicted.
AddSeen(s, d) ==
    IF Len(s) < SeenCap THEN Append(s, d) ELSE Append(Tail(s), d)

\* Mutant: a partial for another root enters the accumulator.
Accepts_AnyRoot(L, r) == TRUE

\* order_lock_ingest accepts a partial for the root the lock was opened with.
Accepts(L, r) == L.count = 0 \/ L.root = r

\* Mutants: the lock attests one partial early; it forgets that it attested.
Ingest_Early(L, r, p) ==
    IF Accepts(L, r)
    THEN [root |-> r, count |-> L.count + 1, signers |-> L.signers \cup {p},
          attested |-> L.count + 2 >= T]
    ELSE L
Ingest_Forgets(L, r, p) ==
    IF Accepts(L, r)
    THEN [root |-> r, count |-> L.count + 1, signers |-> L.signers \cup {p},
          attested |-> L.count + 1 = T]
    ELSE L

Ingest(L, r, p) ==
    IF Accepts(L, r)
    THEN [root     |-> r,
          count    |-> L.count + 1,
          signers  |-> L.signers \cup {p},
          attested |-> L.attested \/ L.count + 1 >= T]
    ELSE L

\* Mutant: the T-th partial does not publish, only a later one.
Publishes_Late(L, r, forOwnOrder) ==
    Accepts(L, r) /\ L.count >= T /\ forOwnOrder

\* ... and publishes the shares whenever the partial reaches the threshold and
\* the lock is the one of the node's own committed order.
Publishes(L, r, forOwnOrder) ==
    Accepts(L, r) /\ L.count + 1 >= T /\ forOwnOrder

\* The shares try_decrypt_envelope collects besides the node's own.
PeerShares(n, i) == {s \in thr[n] : s.ix = i}

\* Two distinct members suffice to try; the DEM tag verifies when T correct
\* shares of this very envelope are interpolated, and no wrong one.
Opens(n, i) ==
    /\ \A s \in PeerShares(n, i) : s.member # SelfMember[n]
    /\ Cardinality(PeerShares(n, i)) + 1 >= 2
    /\ Cardinality(PeerShares(n, i)) + 1 >= T
    /\ \A s \in PeerShares(n, i) : s.env = pool[n][i]

\* What one 0x0C batch adds: no second share of a member at an index.
Taken(n, m) ==
    {s \in {[ix |-> i, member |-> m.member, env |-> m.shares[i]] :
                i \in DOMAIN m.shares} :
        \A t \in thr[n] : ~(t.ix = s.ix /\ t.member = s.member)}

-----------------------------------------------------------------------------
(* Sending.                                                                *)

OrderMsg(n, e, r) == [type |-> "ORDER", epoch |-> e, root |-> r, from |-> n]
SyncMsg(n, p) == [type |-> "SYNC", member |-> SelfMember[n], shares |-> p]

AnnounceMsg(a) == [type |-> "ANNOUNCE", node |-> a]

\* peer_fds: the ends of the connections a node holds.
Ends(n) ==
    {l \in Links : /\ Owner(l) = n
                   /\ l[2] = 1 => l[1] \in dialed
                   /\ l[2] = 2 => l[1] \in accepted}

\* Every end in S carries the messages ms, in this order.
Sent(S, ms, ch) == [l \in Links |-> IF l \in S THEN ch[l] \o ms ELSE ch[l]]

Broadcast(n, ms, ch) == Sent(Ends(n), ms, ch)

-----------------------------------------------------------------------------
Init ==
    /\ pc = [n \in Node |-> "boot"]
    /\ ix = [n \in Node |-> 1]
    /\ epoch = [n \in Node |-> 0]
    /\ decrees = [n \in Node |-> 0]
    /\ seen = [n \in Node |-> <<>>]
    /\ pool = [n \in Node |-> <<>>]
    /\ opened = [n \in Node |-> {}]
    /\ thr = [n \in Node |-> {}]
    /\ poolEpoch = [n \in Node |-> 0]
    /\ committed = [n \in Node |-> FALSE]
    /\ root = [n \in Node |-> NoRoot]
    /\ beacon = [n \in Node |-> <<>>]
    /\ locks = [n \in Node |-> [e \in Epochs |-> NoLock]]
    /\ known = [n \in Node |-> {}]
    /\ dialed = {}
    /\ accepted = {}
    /\ chan = [l \in Links |-> <<>>]
    /\ signed = {}
    /\ faults = 0

\* The boot path: epoch 0 is folded locally and closed, the ceremony reset.
EnterLoop(n) ==
    /\ pc[n] = "boot"
    /\ pc' = [pc EXCEPT ![n] = "idle"]
    /\ epoch' = [epoch EXCEPT ![n] = 1]
    /\ UNCHANGED <<ix, decrees, seen, ceremony, poolEpoch, root, beacon, net,
                   signed>>

\* connect_peer: the kernel completes the connection once the acceptor
\* listens; accept() follows when the acceptor is in its loop.
Dial(c, hello) ==
    /\ c \notin dialed
    /\ dialed' = dialed \cup {c}
    /\ chan' = [chan EXCEPT ![<<c, 1>>] = hello]
    /\ UNCHANGED <<pc, ix, fold, ceremony, poolEpoch, root, beacon, known,
                   accepted, signed, faults>>

\* A booting node dials its seeds and asks for their shares (0x0B).
DialSeed(c) ==
    c[3] = "seed" /\ pc[c[1]] = "boot" /\ Dial(c, <<[type |-> "SYNC_REQ"]>>)

\* A node without any peer redials a seed; it asks for nothing.
Reconnect(c) ==
    c[3] = "seed" /\ pc[c[1]] = "idle" /\ Ends(c[1]) = {} /\ Dial(c, <<>>)

\* What accept() sends at once: the stored shares, lock or no lock, and the
\* node's own public address (0x09).
Welcome(n) ==
    (IF pool[n] = <<>> THEN <<>> ELSE <<SyncMsg(n, pool[n])>>)
    \o (IF n \in Public THEN <<AnnounceMsg(n)>> ELSE <<>>)

Accept(c) ==
    /\ c \in dialed \ accepted
    /\ pc[c[2]] = "idle"
    /\ accepted' = accepted \cup {c}
    /\ chan' = [chan EXCEPT ![<<c, 2>>] = Welcome(c[2])]
    /\ UNCHANGED <<pc, ix, fold, ceremony, poolEpoch, root, beacon, known,
                   dialed, signed, faults>>

\* Mutant: the reset forgets the pool.
ResetCeremony_KeepsPool(n) ==
    /\ committed' = [committed EXCEPT ![n] = FALSE]
    /\ opened' = [opened EXCEPT ![n] = {}]
    /\ thr' = [thr EXCEPT ![n] = {}]
    /\ locks' = [locks EXCEPT ![n] = [e \in Epochs |-> NoLock]]
    /\ UNCHANGED pool

\* reset_epoch_ceremony: nothing of the old epoch's ceremony survives.
ResetCeremony(n) ==
    /\ committed' = [committed EXCEPT ![n] = FALSE]
    /\ pool' = [pool EXCEPT ![n] = <<>>]
    /\ opened' = [opened EXCEPT ![n] = {}]
    /\ thr' = [thr EXCEPT ![n] = {}]
    /\ locks' = [locks EXCEPT ![n] = [e \in Epochs |-> NoLock]]

\* Mutant: one decree too many.
EpochComplete_Late(n) == decrees[n] + 1 > K

\* The epoch closes at g_k_entries decrees.
EpochComplete(n) == decrees[n] + 1 >= K

\* handle_decree(d), called with the decrypted entries op.
HandleDecree(n, d, op) ==
    IF d \in Contents(seen[n])
    THEN /\ opened' = [opened EXCEPT ![n] = op]
         /\ UNCHANGED <<fold, pool, thr, committed, locks>>
    ELSE /\ seen' = [seen EXCEPT ![n] = AddSeen(seen[n], d)]
         /\ IF EpochComplete(n)
            THEN /\ decrees' = [decrees EXCEPT ![n] = 0]
                 /\ epoch' = [epoch EXCEPT ![n] = @ + 1]
                 /\ ResetCeremony(n)
            ELSE /\ decrees' = [decrees EXCEPT ![n] = @ + 1]
                 /\ opened' = [opened EXCEPT ![n] = op]
                 /\ UNCHANGED <<epoch, pool, thr, committed, locks>>

\* A decree from gossip, the epoch pulse or a claim.
ReceiveDecree(n, d) ==
    /\ pc[n] = "idle"
    /\ epoch[n] <= MaxEpoch
    /\ HandleDecree(n, d, opened[n])
    /\ UNCHANGED <<pc, ix, poolEpoch, root, beacon, net, signed>>

\* One iteration of the loop over the pool: try_decrypt_envelope(ix).
DecryptStep(n) ==
    /\ pc[n] = "decrypt"
    /\ IF ix[n] \notin opened[n] /\ Opens(n, ix[n])
       THEN HandleDecree(n, pool[n][ix[n]], opened[n] \cup {ix[n]})
       ELSE UNCHANGED <<fold, ceremony>>
    /\ IF ix[n] + 1 <= Len(pool'[n])
       THEN ix' = [ix EXCEPT ![n] = @ + 1] /\ UNCHANGED pc
       ELSE ix' = [ix EXCEPT ![n] = 1] /\ pc' = [pc EXCEPT ![n] = "idle"]
    /\ UNCHANGED <<poolEpoch, root, beacon, net, signed>>

\* 0x07 while the pool is filling, or after the order was committed.
PoolEnvelope(n, e) ==
    /\ pool' = [pool EXCEPT ![n] = Append(@, e)]
    /\ poolEpoch' = [poolEpoch EXCEPT
                       ![n] = IF pool[n] = <<>> THEN epoch[n] ELSE @]

\* Mutant: the committed flag is not consulted.
CompletesPool_Again(n) == Len(pool[n]) + 1 >= K

\* The envelope that fills the pool commits the order, once per epoch.
CompletesPool(n) == Len(pool[n]) + 1 >= K /\ ~committed[n]

StoreEnvelope(n, e) ==
    /\ pc[n] = "idle"
    /\ epoch[n] <= MaxEpoch
    /\ e \notin Contents(pool[n])
    /\ ~CompletesPool(n)
    /\ PoolEnvelope(n, e)
    /\ UNCHANGED <<pc, ix, fold, opened, thr, committed, root, beacon, locks,
                   net, signed>>

\* 0x07 that completes the pool: the beacon chain advances, the order is
\* committed, signed, broadcast and ingested, and the decrypt loop runs.
CommitOrder(n, e) ==
    /\ pc[n] = "idle"
    /\ epoch[n] <= MaxEpoch
    /\ e \notin Contents(pool[n])
    /\ CompletesPool(n)
    /\ PoolEnvelope(n, e)
    /\ LET pe == poolEpoch'[n]
           b  == Append(beacon[n], pe)
           r  == OrderRoot(b, pool'[n])
           L  == locks[n][pe]
           ms == IF Publishes(L, r, TRUE)
                 THEN <<OrderMsg(n, pe, r), SyncMsg(n, pool'[n])>>
                 ELSE <<OrderMsg(n, pe, r)>>
       IN /\ beacon' = [beacon EXCEPT ![n] = b]
          /\ root' = [root EXCEPT ![n] = r]
          /\ locks' = [locks EXCEPT ![n][pe] = Ingest(L, r, n)]
          /\ chan' = Broadcast(n, ms, chan)
          /\ signed' = signed \cup
                {[node |-> n, epoch |-> pe, root |-> r]}
    /\ committed' = [committed EXCEPT ![n] = TRUE]
    /\ pc' = [pc EXCEPT ![n] = "decrypt"]
    /\ ix' = [ix EXCEPT ![n] = 1]
    /\ UNCHANGED <<fold, opened, thr, known, dialed, accepted, faults>>

-----------------------------------------------------------------------------
(* What arrives on a connection.                                           *)

Arrives(n, l, m) ==
    /\ pc[n] = "idle"
    /\ l \in Ends(n)
    /\ chan[Other(l)] # <<>>
    /\ m = Head(chan[Other(l)])

Read(l) == [chan EXCEPT ![Other(l)] = Tail(@)]

\* 0x0D: order_lock_ingest.
ReceiveOrder(n, l, m) ==
    /\ Arrives(n, l, m)
    /\ m.type = "ORDER"
    /\ LET L   == locks[n][m.epoch]
           own == m.epoch = poolEpoch[n] /\ committed[n] /\ m.root = root[n]
       IN /\ locks' = [locks EXCEPT ![n][m.epoch] = Ingest(L, m.root, m.from)]
          /\ chan' = IF Publishes(L, m.root, own)
                     THEN Broadcast(n, <<SyncMsg(n, pool[n])>>, Read(l))
                     ELSE Read(l)
    /\ UNCHANGED <<pc, ix, fold, pool, opened, thr, committed, poolEpoch, root,
                   beacon, known, dialed, accepted, signed, faults>>

\* Mutant: the loop over the pool does not wait for the committed order.
ReceiveSync_Ungated(n, l, m) ==
    /\ Arrives(n, l, m)
    /\ m.type = "SYNC"
    /\ thr' = [thr EXCEPT ![n] = @ \cup Taken(n, m)]
    /\ chan' = Read(l)
    /\ IF pool[n] # <<>>
       THEN pc' = [pc EXCEPT ![n] = "decrypt"] /\ ix' = [ix EXCEPT ![n] = 1]
       ELSE UNCHANGED <<pc, ix>>
    /\ UNCHANGED <<fold, pool, opened, committed, locks, poolEpoch, root,
                   beacon, known, dialed, accepted, signed, faults>>

\* 0x0C: the shares are kept whatever the lock says; the loop runs only under
\* a committed order.
ReceiveSync(n, l, m) ==
    /\ Arrives(n, l, m)
    /\ m.type = "SYNC"
    /\ thr' = [thr EXCEPT ![n] = @ \cup Taken(n, m)]
    /\ chan' = Read(l)
    /\ IF committed[n]
       THEN pc' = [pc EXCEPT ![n] = "decrypt"] /\ ix' = [ix EXCEPT ![n] = 1]
       ELSE UNCHANGED <<pc, ix>>
    /\ UNCHANGED <<fold, pool, opened, committed, locks, poolEpoch, root,
                   beacon, known, dialed, accepted, signed, faults>>

\* 0x0B: answered with the stored shares, lock or no lock.
ReceiveSyncReq(n, l, m) ==
    /\ Arrives(n, l, m)
    /\ m.type = "SYNC_REQ"
    /\ chan' = Sent({l}, <<SyncMsg(n, pool[n])>>, Read(l))
    /\ UNCHANGED <<pc, ix, fold, ceremony, poolEpoch, root, beacon, known,
                   dialed, accepted, signed, faults>>

\* The connections an announcement of a may make n dial: connect_peer can
\* fail, and takes the address with its four bytes in the opposite order, so
\* it reaches a node of the fleet only if one listens there.
DirectDials(n, a) ==
    {{}} \cup {{c} : c \in {d \in Conn \ dialed :
                              /\ d[1] = n /\ d[3] = "direct"
                              /\ a \in DOMAIN Mirror /\ d[2] = Mirror[a]
                              /\ Cardinality(Ends(n)) < MaxPeers}}

\* 0x09: an address heard for the first time is dialed and relayed to every
\* peer but peer_fds[0], which need not be the sender.
ReceiveAnnounce(n, l, m) ==
    /\ Arrives(n, l, m)
    /\ m.type = "ANNOUNCE"
    /\ IF m.node \in known[n]
       THEN chan' = Read(l) /\ UNCHANGED <<known, dialed>>
       ELSE \E cs \in DirectDials(n, m.node), first \in Ends(n) :
              /\ known' = [known EXCEPT ![n] = @ \cup {m.node}]
              /\ dialed' = dialed \cup cs
              /\ chan' = Sent((Ends(n) \cup cs \X {1}) \ {first},
                              <<AnnounceMsg(m.node)>>, Read(l))
    /\ UNCHANGED <<pc, ix, fold, ceremony, poolEpoch, root, beacon, accepted,
                   signed, faults>>

Receive(n, l) ==
    \E m \in Contents(chan[Other(l)]) :
        \/ ReceiveOrder(n, l, m)
        \/ ReceiveSync(n, l, m)
        \/ ReceiveSyncReq(n, l, m)
        \/ ReceiveAnnounce(n, l, m)

-----------------------------------------------------------------------------
(* Faults.                                                                 *)

\* A connection dies with everything unread on it.
Lose(cs) ==
    /\ faults < MaxFaults
    /\ faults' = faults + 1
    /\ dialed' = dialed \ cs
    /\ accepted' = accepted \ cs
    /\ chan' = [l \in Links |-> IF l[1] \in cs THEN <<>> ELSE chan[l]]

Disconnect(c) ==
    /\ c \in dialed
    /\ Lose({c})
    /\ UNCHANGED <<pc, ix, fold, ceremony, poolEpoch, root, beacon, known,
                   signed>>

\* _Exit(1) and a supervisor restart: the node persists nothing.
Restart(n) ==
    /\ pc[n] # "boot"
    /\ pc' = [pc EXCEPT ![n] = "boot"]
    /\ ix' = [ix EXCEPT ![n] = 1]
    /\ epoch' = [epoch EXCEPT ![n] = 0]
    /\ decrees' = [decrees EXCEPT ![n] = 0]
    /\ seen' = [seen EXCEPT ![n] = <<>>]
    /\ pool' = [pool EXCEPT ![n] = <<>>]
    /\ opened' = [opened EXCEPT ![n] = {}]
    /\ thr' = [thr EXCEPT ![n] = {}]
    /\ poolEpoch' = [poolEpoch EXCEPT ![n] = 0]
    /\ committed' = [committed EXCEPT ![n] = FALSE]
    /\ root' = [root EXCEPT ![n] = NoRoot]
    /\ beacon' = [beacon EXCEPT ![n] = <<>>]
    /\ locks' = [locks EXCEPT ![n] = [e \in Epochs |-> NoLock]]
    /\ known' = [known EXCEPT ![n] = {}]
    /\ Lose({c \in dialed : n \in {c[1], c[2]}})
    /\ UNCHANGED signed

-----------------------------------------------------------------------------
NodeStep(n) ==
    \/ EnterLoop(n)
    \/ DecryptStep(n)
    \/ \E d \in Decree : ReceiveDecree(n, d)
    \/ \E e \in Envelope : StoreEnvelope(n, e) \/ CommitOrder(n, e)
    \/ \E l \in Links : Receive(n, l)

Next ==
    \/ \E n \in Node : NodeStep(n)
    \/ \E c \in Conn : DialSeed(c) \/ Reconnect(c) \/ Accept(c) \/ Disconnect(c)

CrashNext == Next \/ \E n \in Node : Restart(n)

Spec      == Init /\ [][Next]_vars
CrashSpec == Init /\ [][CrashNext]_vars

\* The kernel delivers, the reconnect timer fires, and the client submits every
\* envelope to every node.  The loop is taken not to block for good: its sends
\* to accepted sockets, which have no timeout, end because the peers read, its
\* dials are answered or refused, and no explorer client holds up the mutex
\* (EpochFold has the last as a step).
Fairness ==
    /\ \A n \in Node :
        /\ WF_vars(EnterLoop(n))
        /\ WF_vars(DecryptStep(n))
        /\ \A e \in Envelope : WF_vars(StoreEnvelope(n, e) \/ CommitOrder(n, e))
    /\ \A c \in Conn : WF_vars(Reconnect(c)) /\ WF_vars(Accept(c))
    /\ \A l \in Links : WF_vars(Receive(Owner(l), l))

LiveSpec == Spec /\ Fairness

-----------------------------------------------------------------------------
(* Properties.                                                             *)

TypeOK ==
    /\ pc \in [Node -> {"boot", "idle", "decrypt"}]
    /\ ix \in [Node -> Nat \ {0}]
    /\ epoch \in [Node -> Nat]
    /\ decrees \in [Node -> 0 .. K - 1]
    /\ seen \in [Node -> Seq(Envelope \cup Decree)]
    /\ pool \in [Node -> Seq(Envelope)]
    /\ opened \in [Node -> SUBSET (Nat \ {0})]
    /\ thr \in [Node -> SUBSET [ix : Nat \ {0}, member : Member, env : Envelope]]
    /\ poolEpoch \in [Node -> Epochs]
    /\ committed \in [Node -> BOOLEAN]
    /\ root \in [Node -> Orders]
    /\ beacon \in [Node -> Seq(Epochs)]
    /\ locks \in [Node -> [Epochs -> Lock]]
    /\ known \in [Node -> SUBSET Public]
    /\ dialed \subseteq Conn
    /\ accepted \subseteq dialed
    /\ chan \in [Links -> Seq(Message)]
    /\ signed \subseteq [node : Node, epoch : Epochs, root : Orders]
    /\ faults \in 0 .. MaxFaults

\* Order before knowledge, at one node: no envelope is decrypted while the
\* node's own order is not committed, whatever arrives early, late or from
\* another epoch (g_order_committed gates every call of try_decrypt_envelope,
\* and reset_epoch_ceremony drops the flag and the entries together).
KnowledgeAfterCommit ==
    \A n \in Node : opened[n] # {} => committed[n]

\* A pool never mixes epochs: while entries are pooled, g_pool_epoch, which
\* the lock signature carries, is the node's current epoch.
PoolOfThisEpoch ==
    \A n \in Node : pool[n] # <<>> => poolEpoch[n] = epoch[n]

\* A process signs at most one order per epoch (0x0D), although its pool keeps
\* growing after the commit and the ceremony restarts in every epoch.
NoTwoOrders ==
    \A a, b \in signed :
        a.node = b.node /\ a.epoch = b.epoch => a.root = b.root

\* Every partial counted into a lock is a signature on the very root and epoch
\* the lock stands for: "a foreign root never mixes into this epoch's
\* accumulator" (order_lock_ingest).
LockIntegrity ==
    \A n \in Node, e \in Epochs : \A p \in locks[n][e].signers :
        [node |-> p, epoch |-> e, root |-> locks[n][e].root] \in signed

\* An attested lock stands on the signatures of T different processes, although
\* order_lock_ingest counts partials and not who signed them: no reconnection,
\* duplicate or epoch change makes one process count twice, as long as no two
\* nodes are joined by more than one connection.
LockOfProcesses ==
    \A n \in Node, e \in Epochs :
        locks[n][e].attested => Cardinality(locks[n][e].signers) >= T

\* An attested lock carries the signatures of T different committee members:
\* "attest at the threshold" (order_lock_ingest).  The code does not keep this
\* when a partial arrives twice or processes share a member number.
LockHasThreshold ==
    \A n \in Node, e \in Epochs :
        locks[n][e].attested =>
            Cardinality({SelfMember[p] : p \in locks[n][e].signers}) >= T

\* Two nodes never hold attested locks on different orders of one epoch, as
\* long as no two are joined twice and 2T exceeds the number of processes.
LockAgreement ==
    \A n, m \in Node, e \in Epochs :
        locks[n][e].attested /\ locks[m][e].attested
            => locks[n][e].root = locks[m][e].root

\* Within an epoch an attested lock stays, with its root: later partials,
\* foreign roots and reconnections do not disturb it.
LockStable ==
    [][\A n \in Node, e \in Epochs :
          locks[n][e].attested /\ epoch'[n] = epoch[n]
              => locks'[n][e].attested /\ locks'[n][e].root = locks[n][e].root
      ]_vars

\* Shares leave a node only under an attested lock: no step appends a
\* non-empty 0x0C batch to a connection unless the sender's lock for its pool
\* epoch is attested.
Sends(l, m) ==
    \E i \in Len(chan[l]) + 1 .. Len(chan'[l]) : chan'[l][i] = m
SharesUnderLock ==
    [][\A l \in Links, m \in UNION {Contents(chan'[k]) : k \in Links} :
          Sends(l, m) /\ m.type = "SYNC" /\ m.shares # <<>>
              => locks'[Owner(l)][poolEpoch'[Owner(l)]].attested]_vars

\* When every connection was accepted before the first order was signed, and
\* no fault occurs, the ceremony completes: every node attests, receives its
\* peers' shares, decrypts and leaves the epoch.  (A 0x0D partial is broadcast
\* once and never repeated: a node that connects later may wait for ever.)
CeremonyCompletes ==
    [](signed # {} => accepted = {c \in Conn : c[3] = "seed"}) =>
        \A n \in Node : <>(epoch[n] > 1)
=============================================================================
