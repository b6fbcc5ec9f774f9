----------------------------- MODULE EpochFold -----------------------------
(***************************************************************************)
(* The epoch machine of one node (tools/epoch_node.cpp) with the work      *)
(* queue it shares with its HTTP explorer thread (explorer.hpp) and the    *)
(* claim audit (verifier.hpp).                                             *)
(*                                                                         *)
(* The main thread alternates between messages from peers and a one-second *)
(* tick; a tick runs, in this order, the epoch pulse, the quorum audit and *)
(* one item of the work queue.  The explorer thread reserves a work id and *)
(* then queues the item, under g_work_mutex, at any point between those    *)
(* stages; it answers /claim_inputs with a blocking send while it holds    *)
(* that mutex, and the main thread sends to accepted peers on sockets that *)
(* have no send timeout either.  Everything that is folded goes through handle_decree: dedup,   *)
(* fold, and at K entries the close of the epoch.                          *)
(*                                                                         *)
(* Cryptography is ideal: digests are injective, honest witnesses satisfy  *)
(* the circuit and the node's own proofs verify.  Messages the node sends  *)
(* are left out, except the header that seals an epoch and the sends that  *)
(* do not return.                                                          *)
(***************************************************************************)
EXTENDS Integers, Sequences, FiniteSets

CONSTANTS
    K,           \* g_k_entries
    SeenCap,     \* capacity of seen_fps (256)
    ByteMod,     \* values of one payload byte (256)
    PulseEvery,  \* ticks between two pulses (60)
    WireDecree,  \* DECREE_ENTRY payloads peers may send
    Runt,        \* those of them below 32 bytes
    HighDecree,  \* those whose first 32 bytes are not below the field modulus
    HighClaim,   \* work ids whose claim's SHA-256 is not below it
    WireHeader,  \* EPOCH_HEADER payloads peers may send
    MaxWork,     \* bound: submissions to the explorer
    MaxEpoch     \* bound: no pulse, decree or header in a later epoch

ASSUME EpochFoldAssumption ==
    /\ K \in Nat \ {0}
    /\ SeenCap \in Nat \ {0}
    /\ ByteMod \in Nat \ {0}
    /\ PulseEvery \in Nat \ {0}
    /\ MaxWork \in Nat
    /\ MaxEpoch \in Nat \ {0}
    /\ WireDecree \subseteq Nat
    /\ WireHeader \subseteq Nat
    /\ Runt \subseteq WireDecree
    /\ HighDecree \subseteq WireDecree
    /\ HighClaim \subseteq 1 .. MaxWork

VARIABLES
    pc,        \* main thread: "select", "audit" or "work"
    timer,     \* epoch_pulse_timer
    epoch,     \* current_epoch
    decrees,   \* decree_count
    seq,       \* g_entry_seq
    tip,       \* digest_chain.back()
    seen,      \* seen_fps
    acc,       \* g_acc: the (epoch, idx) terms absorbed since fold_head
    sealed,    \* the headers gossiped: epoch and accumulator
    dkg,       \* g_dkg: the epoch and the chain tip it was dealt from
    claims,    \* g_epoch_claims
    audited,   \* g_quorum_audited_this_pool
    receipt,   \* g_verifier_receipt, the fields of the aggregate
    nextId,    \* g_next_work_id
    submit,    \* explorer thread: the items between reserve and push
    queue,     \* g_work_queue
    done,      \* g_work_done
    unread,    \* the remotes a thread is blocked on in send()
    log,       \* history: the payloads seen_or_add let through
    covered,   \* history: claims an aggregate receipt has covered
    folded     \* history: claims folded into the accumulator

chain  == <<epoch, decrees, seq, tip, seen, acc, sealed, dkg, log>>
pool   == <<claims, audited>>
work   == <<nextId, submit, queue, done>>
audits == <<receipt, covered>>
vars   == <<pc, timer, chain, pool, work, audits, folded, unread>>

Ids    == 1 .. MaxWork
Item   == [id : Ids, large : BOOLEAN]
Record == [id : Ids, large : BOOLEAN, result : BOOLEAN]

\* The 32 bytes a payload starts with.  A claim's are the hash of its work
\* record; result says whether they cover the first bytes of the result.
Digest == [src : {"genesis", "zero", "wire", "claim"}, val : Nat,
           result : BOOLEAN]
Genesis == [src |-> "genesis", val |-> 0, result |-> FALSE]
Zero    == [src |-> "zero", val |-> 0, result |-> FALSE]

\* A payload: the digest and the bytes after it.
Payload == [kind : {"pulse", "wire", "claim", "header"}, digest : Digest,
            tag : Nat]

Term    == [epoch : Nat, idx : Nat]
Header  == [epoch : Nat, acc : Seq(Term)]
Receipt == [has : BOOLEAN, epoch : Nat, pass : BOOLEAN]

Contents(s) == {s[i] : i \in DOMAIN s}

-----------------------------------------------------------------------------
(* Payloads.                                                               *)

\* The pulse repeats the chain tip; byte 32 numbers it.
PulsePayload ==
    [kind |-> "pulse", digest |-> tip, tag |-> (decrees + epoch * K) % ByteMod]

WirePayload(d) ==
    [kind |-> "wire", digest |-> [src |-> "wire", val |-> d, result |-> FALSE],
     tag |-> 0]
HeaderPayload(h) == [WirePayload(h) EXCEPT !.kind = "header"]

\* rederive_identity: SHA256(work_id || n || ic || result_first32).
Identity(r) == [src |-> "claim", val |-> r.id, result |-> r.result]

\* Mutant: the identity is taken before the result is serialised.
ClaimPayload_Early(r) ==
    [kind |-> "claim", digest |-> Identity([r EXCEPT !.result = FALSE]),
     tag |-> r.id]

\* The claim-decree: the identity, the work id, n, the marker 0xC1.
ClaimPayload(r) == [kind |-> "claim", digest |-> Identity(r), tag |-> r.id]

-----------------------------------------------------------------------------
(* handle_decree.                                                          *)

\* is_canonical: 32 bytes below the modulus.
Canonical(d) ==
    /\ ~(d.src = "wire" /\ d.val \in HighDecree)
    /\ ~(d.src = "claim" /\ d.val \in HighClaim)

\* fe_from_payload: the verdict of fe_from_le_bytes is not looked at, and the
\* value of a refused encoding is zero.
FeFromPayload(p) == IF Canonical(p.digest) THEN p.digest ELSE Zero

\* Mutant: the oldest fingerprint is evicted before the window is full.
Remember_Small(p) ==
    IF Len(seen) + 1 < SeenCap THEN Append(seen, p)
    ELSE Append(Tail(seen), p)

\* seen_or_add of a new payload: FIFO, the oldest entry beyond SeenCap goes.
Remember(p) ==
    IF Len(seen) < SeenCap THEN Append(seen, p) ELSE Append(Tail(seen), p)

\* Mutant: the entry sequence runs on into the next epoch.
OpenEpoch_KeepsSeq(d) ==
    /\ seq' = seq + 1
    /\ acc' = <<>>
    /\ epoch' = epoch + 1
    /\ decrees' = 0
    /\ dkg' = [epoch |-> epoch + 1, prev |-> d]

\* Mutant: the committee is dealt before the epoch counter moves.
OpenEpoch_EarlyDeal(d) ==
    /\ seq' = 0
    /\ acc' = <<>>
    /\ epoch' = epoch + 1
    /\ decrees' = 0
    /\ dkg' = [epoch |-> epoch, prev |-> d]

\* fold_head on the closed digest, the resets, and rotate_dkg from the new tip.
OpenEpoch(d) ==
    /\ seq' = 0
    /\ acc' = <<>>
    /\ epoch' = epoch + 1
    /\ decrees' = 0
    /\ dkg' = [epoch |-> epoch + 1, prev |-> d]

\* Mutant: one entry too many.
Completes_Late == decrees + 1 > K

\* The epoch closes at g_k_entries entries.
Completes == decrees + 1 >= K

\* The fold of a new payload: the chain, the accumulator and the counters
\* advance; the entry that completes the epoch seals it and opens the next.
Fold(p) ==
    LET entries == Append(acc, [epoch |-> epoch, idx |-> seq])
    IN /\ tip' = FeFromPayload(p)
       /\ IF Completes
          THEN /\ sealed' = Append(sealed, [epoch |-> epoch, acc |-> entries])
               /\ OpenEpoch(FeFromPayload(p))
          ELSE /\ acc' = entries
               /\ seq' = seq + 1
               /\ decrees' = decrees + 1
               /\ UNCHANGED <<epoch, sealed, dkg>>

\* The pool after the decree: emptied when the epoch closes.
PoolAfter(p) ==
    IF p \notin Contents(seen) /\ Completes THEN <<>> ELSE claims

\* handle_decree; short payloads are fingerprinted and dropped.  The caller
\* sets claims'.
HandleDecree(p, short) ==
    IF p \in Contents(seen)
    THEN UNCHANGED <<chain, audited>>
    ELSE /\ seen' = Remember(p)
         /\ log' = Append(log, p)
         /\ IF short
            THEN UNCHANGED <<epoch, decrees, seq, tip, acc, sealed, dkg, audited>>
            ELSE /\ Fold(p)
                 /\ audited' = (audited /\ ~Completes)

-----------------------------------------------------------------------------
\* The gossip loop is entered with epoch 0 sealed over its K local entries
\* (idx 1 to K: the genesis entry is the accumulator's start) and epoch 1 open.
Init ==
    /\ pc = "select"
    /\ timer = 0
    /\ epoch = 1
    /\ decrees = 0
    /\ seq = 0
    /\ tip = Genesis
    /\ seen = <<>>
    /\ acc = <<>>
    /\ sealed = <<[epoch |-> 0,
                   acc |-> [i \in 1 .. K |-> [epoch |-> 0, idx |-> i]]]>>
    /\ dkg = [epoch |-> 1, prev |-> Genesis]
    /\ claims = <<>>
    /\ audited = FALSE
    /\ receipt = [has |-> FALSE, epoch |-> 0, pass |-> FALSE]
    /\ nextId = 1
    /\ submit = <<>>
    /\ queue = <<>>
    /\ done = {}
    /\ log = <<>>
    /\ covered = {}
    /\ folded = {}
    /\ unread = {}

\* The main thread is not inside a send, and g_work_mutex is free: its
\* holders otherwise run to the unlock within one step.
MainRuns  == "peer" \notin unread
MutexFree == "client" \notin unread

\* DECREE_ENTRY from a peer.
ReceiveDecree(d) ==
    /\ pc = "select"
    /\ MainRuns
    /\ epoch <= MaxEpoch
    /\ HandleDecree(WirePayload(d), d \in Runt)
    /\ claims' = IF d \in Runt THEN claims ELSE PoolAfter(WirePayload(d))
    /\ UNCHANGED <<pc, timer, work, audits, folded, unread>>

\* EPOCH_HEADER from a peer: its checks only print; the payload takes a place
\* in the window of fingerprints that the decrees use.
ReceiveHeader(h) ==
    /\ pc = "select"
    /\ MainRuns
    /\ epoch <= MaxEpoch
    /\ HeaderPayload(h) \notin Contents(seen)
    /\ seen' = Remember(HeaderPayload(h))
    /\ log' = Append(log, HeaderPayload(h))
    /\ UNCHANGED <<pc, timer, epoch, decrees, seq, tip, acc, sealed, dkg, pool,
                   work, audits, folded, unread>>

\* A tick starts; it is not the one that pulses.
Tick ==
    /\ pc = "select"
    /\ MainRuns
    /\ timer + 1 < PulseEvery
    /\ timer' = timer + 1
    /\ pc' = "audit"
    /\ UNCHANGED <<chain, pool, work, audits, folded, unread>>

\* A tick with the epoch pulse.
Pulse ==
    /\ pc = "select"
    /\ MainRuns
    /\ timer + 1 >= PulseEvery
    /\ timer' = 0
    /\ pc' = "audit"
    /\ IF decrees < K /\ epoch <= MaxEpoch
       THEN HandleDecree(PulsePayload, FALSE) /\ claims' = PoolAfter(PulsePayload)
       ELSE UNCHANGED <<chain, pool>>
    /\ UNCHANGED <<work, audits, folded, unread>>

\* verify_claim: the payload names this work record and carries its identity.
VerifyClaim(p, r) == p.tag = r.id /\ p.digest = Identity(r)

\* verify_pool: every claim's record is known, and the claim verifies.
VerifyPool == \A p \in Contents(claims) : \E r \in done : VerifyClaim(p, r)

\* One audit per pool.
AuditDue == claims # <<>> /\ ~audited

\* The quorum audit, the rotating deep audit of one claim and the aggregate.
Audit ==
    /\ pc = "audit"
    /\ MainRuns
    /\ AuditDue => MutexFree
    /\ pc' = "work"
    /\ IF AuditDue
       THEN /\ audited' = TRUE
            /\ receipt' = [has |-> TRUE, epoch |-> epoch, pass |-> VerifyPool]
            /\ covered' = covered \cup Contents(claims)
       ELSE UNCHANGED <<audited, audits>>
    /\ UNCHANGED <<timer, chain, claims, work, folded, unread>>

\* Mutant: the claim is pooled first; the close of the epoch may wipe it.
ClaimsAfterWork_First(p) ==
    IF p \notin Contents(seen) /\ Completes THEN <<>> ELSE Append(claims, p)

\* The claim joins the pool after handle_decree.
ClaimsAfterWork(p) == Append(PoolAfter(p), p)

\* Mutant: only claims leave a record.
Complete_ClaimsOnly(r) ==
    /\ queue' = Tail(queue)
    /\ done' = IF r.large THEN done \cup {r} ELSE done

\* The finished item moves from the queue to the results.
Complete(r) ==
    /\ queue' = Tail(queue)
    /\ done' = done \cup {r}

\* Mutant: an item waits for an epoch without decrees.
WorkReady_Quiet == queue # <<>> /\ decrees = 0

\* The first queued item is taken in every tick.
WorkReady == queue # <<>>

\* One item of the queue, under the mutex: proved, its result serialised, and
\* for n > 64 folded as a claim-decree and pooled.
ProcessWork ==
    /\ pc = "work"
    /\ MainRuns
    /\ MutexFree
    /\ WorkReady
    /\ pc' = "select"
    /\ LET w == Head(queue)
           r == [id |-> w.id, large |-> w.large, result |-> TRUE]
           p == ClaimPayload(r)
       IN /\ Complete(r)
          /\ IF w.large
             THEN /\ HandleDecree(p, FALSE)
                  /\ claims' = ClaimsAfterWork(p)
                  /\ folded' = folded \cup {p}
             ELSE UNCHANGED <<chain, pool, folded>>
    /\ UNCHANGED <<timer, nextId, submit, audits, unread>>

NoWork ==
    /\ pc = "work"
    /\ MainRuns
    /\ MutexFree
    /\ ~WorkReady
    /\ pc' = "select"
    /\ UNCHANGED <<timer, chain, pool, work, audits, folded, unread>>

\* POST /submit_gemm: the id is taken from the atomic counter ...
Reserve(large) ==
    /\ submit = <<>>
    /\ MutexFree
    /\ nextId <= MaxWork
    /\ submit' = <<[id |-> nextId, large |-> large]>>
    /\ nextId' = nextId + 1
    /\ UNCHANGED <<pc, timer, chain, pool, queue, done, audits, folded, unread>>

\* ... and the item is queued under the mutex; the id is then answered.
Enqueue ==
    /\ submit # <<>>
    /\ queue' = queue \o submit
    /\ submit' = <<>>
    /\ UNCHANGED <<pc, timer, chain, pool, nextId, done, audits, folded, unread>>

\* GET /claim_inputs of a finished item: the answer is sent under the mutex
\* to a client that does not read; the explorer has one thread.
ClientStalls ==
    /\ MutexFree
    /\ submit = <<>>
    /\ done # {}
    /\ unread' = unread \cup {"client"}
    /\ UNCHANGED <<pc, timer, chain, pool, work, audits, folded>>

\* The main thread sends to an accepted peer that does not read.
PeerStalls ==
    /\ MainRuns
    /\ unread' = unread \cup {"peer"}
    /\ UNCHANGED <<pc, timer, chain, pool, work, audits, folded>>

\* The remote reads or goes away, and the send returns.
SendReturns(x) ==
    /\ x \in unread
    /\ unread' = unread \ {x}
    /\ UNCHANGED <<pc, timer, chain, pool, work, audits, folded>>

Sends ==
    \/ ClientStalls
    \/ PeerStalls
    \/ \E x \in unread : SendReturns(x)

MainThread ==
    \/ \E d \in WireDecree : ReceiveDecree(d)
    \/ \E h \in WireHeader : ReceiveHeader(h)
    \/ Tick
    \/ Pulse
    \/ Audit
    \/ ProcessWork
    \/ NoWork

Next ==
    \/ MainThread
    \/ \E large \in BOOLEAN : Reserve(large)
    \/ Enqueue
    \/ Sends

Spec == Init /\ [][Next]_vars

\* select() returns within a second, so a tick comes; outside of a send that
\* does not return, a stage of a tick is straight-line code, and so is the
\* explorer's push.  Nothing makes a remote read.
LiveSpec ==
    Spec /\ WF_vars(Tick \/ Pulse \/ Audit \/ ProcessWork \/ NoWork)
         /\ WF_vars(Enqueue)

-----------------------------------------------------------------------------
(* Properties.                                                             *)

TypeOK ==
    /\ pc \in {"select", "audit", "work"}
    /\ timer \in 0 .. PulseEvery - 1
    /\ epoch \in Nat \ {0}
    /\ decrees \in 0 .. K - 1
    /\ seq \in Nat
    /\ tip \in Digest
    /\ seen \in Seq(Payload)
    /\ Len(seen) <= SeenCap
    /\ acc \in Seq(Term)
    /\ sealed \in Seq(Header)
    /\ dkg \in [epoch : Nat, prev : Digest]
    /\ claims \in Seq(Payload)
    /\ audited \in BOOLEAN
    /\ receipt \in Receipt
    /\ nextId \in 1 .. MaxWork + 1
    /\ submit \in Seq(Item)
    /\ queue \in Seq(Item)
    /\ done \subseteq Record
    /\ log \in Seq(Payload)
    /\ covered \subseteq Payload
    /\ folded \subseteq Payload
    /\ unread \subseteq {"client", "peer"}

\* Every epoch is sealed exactly once, in order, over exactly K entries whose
\* terms are (epoch, 0) to (epoch, K-1): entry_terms is "a pure function of
\* (epoch, idx)" that every node must reproduce, so a skipped or repeated
\* index, or an entry counted into the wrong epoch, would split the fleet.
SealedExact ==
    \A k \in 1 .. Len(sealed) :
        /\ sealed[k].epoch = k - 1
        /\ Len(sealed[k].acc) = K
        /\ k > 1 => \A i \in 1 .. K :
                        sealed[k].acc[i] = [epoch |-> k - 1, idx |-> i - 1]

\* Between two steps the counters agree: the open epoch follows the last
\* sealed one, its entries are numbered without gaps, and the committee in
\* force was dealt for it.
EpochAligned ==
    /\ epoch = Len(sealed)
    /\ seq = decrees
    /\ Len(acc) = decrees
    /\ \A i \in 1 .. Len(acc) : acc[i] = [epoch |-> epoch, idx |-> i - 1]
    /\ dkg.epoch = epoch

\* No double fold: a payload passes seen_or_add a second time only after
\* SeenCap other payloads (DEFECT-170, handle_decree).
NoDoubleFold ==
    \A i, j \in 1 .. Len(log) : i < j /\ log[i] = log[j] => j - i > SeenCap

\* A work id below the counter is always found: with the explorer's own
\* thread, in the queue or among the results, and in one of them only.
WorkNeverLost ==
    \A id \in 1 .. nextId - 1 :
        Cardinality({<<"submit", i>> : i \in {j \in DOMAIN submit : submit[j].id = id}}
            \cup {<<"queue", i>> : i \in {j \in DOMAIN queue : queue[j].id = id}}
            \cup {<<"done", r>> : r \in {s \in done : s.id = id}}) = 1

\* The node's own verifier never rejects the node's own claims: an aggregate
\* receipt passes, because the identity is taken after the result is there
\* and the record is stored before the next audit (DEF-374).
ReceiptsPass == receipt.has => receipt.pass

\* At most one audit per pool: the aggregate is not taken again before the
\* epoch changed.
AuditOncePerEpoch ==
    [][receipt' # receipt \/ covered' # covered => receipt'.epoch > receipt.epoch]_vars

\* A claim that is folded is in the audit pool afterwards, even when the fold
\* closed the epoch and emptied the pool.
FoldedIsPooled == [][folded' \ folded \subseteq Contents(claims')]_vars

\* No send is blocked from some point on: what the remotes owe the node, as
\* neither send has a timeout.
RemotesRead == <>[](unread = {})

\* Every submission is eventually processed, whatever the pulses, the epoch
\* boundaries and the peers' messages do, as long as the remotes read: a
\* client that does not keeps the mutex the main thread needs.
QueueDrains ==
    RemotesRead =>
        \A id \in Ids : (\E i \in DOMAIN submit : submit[i].id = id)
                            ~> (\E r \in done : r.id = id)

\* "the pool audit covers every claim" (docs/AI_POUW_PILLAR.md): a folded claim
\* is in the pool or was covered by an aggregate receipt.
EveryClaimAudited == folded \subseteq Contents(claims) \cup covered

\* The epoch pulse keeps a quiet node moving: "one synthetic decree per 60s so
\* the lifecycle is exercisable on a quiet testnet" (epoch_node.cpp).
PulseAdvances == RemotesRead => <>(epoch > MaxEpoch)

\* "folding it makes the claim part of pi_E's hash history" (epoch_node.cpp):
\* a claim that is folded becomes the tip of the digest chain.  The code does
\* not keep this for a digest that is not below the modulus.
ClaimInChain == [][\A p \in folded' \ folded : tip' = p.digest]_vars
=============================================================================
