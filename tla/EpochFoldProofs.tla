-------------------------- MODULE EpochFoldProofs --------------------------
(***************************************************************************)
(* Proofs about EpochFold: type correctness, and that every epoch is       *)
(* sealed once, in order, over exactly K entries, for every K, every       *)
(* window size and every number of epochs and submissions.                 *)
(***************************************************************************)
EXTENDS EpochFold, TLAPS, SequenceTheorems, FiniteSetTheorems

USE DEF chain, pool, work, audits

\* The part of TypeOK that handle_decree can change.
ChainOK ==
    /\ epoch \in Nat \ {0}
    /\ decrees \in 0 .. K - 1
    /\ seq \in Nat
    /\ tip \in Digest
    /\ seen \in Seq(Payload)
    /\ Len(seen) <= SeenCap
    /\ acc \in Seq(Term)
    /\ sealed \in Seq(Header)
    /\ dkg \in [epoch : Nat, prev : Digest]
    /\ log \in Seq(Payload)
    /\ audited \in BOOLEAN

-----------------------------------------------------------------------------
(* Payloads are well formed.                                               *)

LEMMA PulseType ==
    ASSUME TypeOK PROVE PulsePayload \in Payload
<1>1. tip \in Digest /\ decrees \in Nat /\ epoch \in Nat /\ K \in Nat /\ ByteMod \in Nat \ {0}
  BY EpochFoldAssumption DEF TypeOK
<1>2. decrees + epoch * K \in Nat
  BY <1>1
<1>3. (decrees + epoch * K) % ByteMod \in Nat
  BY <1>1, <1>2
<1> QED BY <1>1, <1>3 DEF PulsePayload, Payload

LEMMA WireType ==
    ASSUME NEW d \in Nat
    PROVE  WirePayload(d) \in Payload /\ HeaderPayload(d) \in Payload
BY DEF WirePayload, HeaderPayload, Payload, Digest

LEMMA ClaimType ==
    ASSUME NEW r \in Record PROVE ClaimPayload(r) \in Payload
<1>1. r.id \in Nat /\ r.result \in BOOLEAN
  BY EpochFoldAssumption DEF Record, Ids
<1> QED BY <1>1 DEF ClaimPayload, Identity, Payload, Digest

\* The FIFO of fingerprints never exceeds its capacity.
LEMMA RememberType ==
    ASSUME TypeOK, NEW p \in Payload
    PROVE  Remember(p) \in Seq(Payload) /\ Len(Remember(p)) <= SeenCap
<1>1. seen \in Seq(Payload) /\ Len(seen) <= SeenCap /\ SeenCap \in Nat \ {0}
  BY EpochFoldAssumption DEF TypeOK
<1>2. CASE Len(seen) < SeenCap
  <2>1. Remember(p) = Append(seen, p)
    BY <1>2 DEF Remember
  <2> QED BY <1>1, <1>2, <2>1
<1>3. CASE ~(Len(seen) < SeenCap)
  <2>1. Remember(p) = Append(Tail(seen), p)
    BY <1>3 DEF Remember
  <2>2. seen # <<>>
    BY <1>1, <1>3
  <2>3. Tail(seen) \in Seq(Payload) /\ Len(Tail(seen)) = Len(seen) - 1
    BY <1>1, <2>2
  <2> QED BY <1>1, <2>1, <2>3
<1> QED BY <1>2, <1>3

-----------------------------------------------------------------------------
(* handle_decree.                                                          *)

LEMMA FoldType ==
    ASSUME TypeOK, NEW p \in Payload, Fold(p)
    PROVE  /\ epoch' \in Nat \ {0}
           /\ decrees' \in 0 .. K - 1
           /\ seq' \in Nat
           /\ tip' \in Digest
           /\ acc' \in Seq(Term)
           /\ sealed' \in Seq(Header)
           /\ dkg' \in [epoch : Nat, prev : Digest]
<1> DEFINE t == [epoch |-> epoch, idx |-> seq]
<1>0. /\ K \in Nat \ {0} /\ epoch \in Nat \ {0} /\ decrees \in 0 .. K - 1
      /\ seq \in Nat /\ acc \in Seq(Term) /\ sealed \in Seq(Header)
      /\ dkg \in [epoch : Nat, prev : Digest]
  BY EpochFoldAssumption DEF TypeOK
<1> DEFINE d == FeFromPayload(p)
<1>6. d \in Digest
  <2>1. p.digest \in Digest
    BY DEF Payload
  <2>2. Zero \in Digest
    BY DEF Zero, Digest
  <2> QED BY <2>1, <2>2 DEF FeFromPayload
<1> HIDE DEF d
<1>1. t \in Term
  BY <1>0 DEF Term
<1>2. Append(acc, t) \in Seq(Term)
  BY <1>0, <1>1
<1>3. tip' = d /\ tip' \in Digest
  BY <1>6 DEF Fold, d
<1>4. CASE Completes
  <2>1. /\ sealed' = Append(sealed, [epoch |-> epoch, acc |-> Append(acc, t)])
        /\ OpenEpoch(d)
    BY <1>4 DEF Fold, d
  <2>2. [epoch |-> epoch, acc |-> Append(acc, t)] \in Header
    BY <1>0, <1>2 DEF Header
  <2>3. sealed' \in Seq(Header)
    BY <1>0, <2>1, <2>2
  <2>4. /\ seq' = 0 /\ acc' = <<>> /\ epoch' = epoch + 1 /\ decrees' = 0
        /\ dkg' = [epoch |-> epoch + 1, prev |-> d]
    BY <2>1 DEF OpenEpoch
  <2>5. acc' \in Seq(Term)
    BY <2>4
  <2> QED BY <1>0, <1>3, <1>6, <2>3, <2>4, <2>5
<1>5. CASE ~Completes
  <2>1. /\ acc' = Append(acc, t) /\ seq' = seq + 1 /\ decrees' = decrees + 1
        /\ epoch' = epoch /\ sealed' = sealed /\ dkg' = dkg
    BY <1>5 DEF Fold
  <2>2. decrees + 1 < K
    BY <1>0, <1>5 DEF Completes
  <2> QED BY <1>0, <1>2, <1>3, <2>1, <2>2
<1> QED BY <1>4, <1>5

LEMMA HandleType ==
    ASSUME TypeOK, NEW p \in Payload, NEW short, HandleDecree(p, short)
    PROVE  ChainOK'
<1>0. ChainOK
  BY DEF TypeOK, ChainOK
<1>1. CASE p \in Contents(seen)
  <2>1. UNCHANGED <<chain, audited>>
    BY <1>1 DEF HandleDecree
  <2> QED BY <1>0, <2>1 DEF ChainOK
<1>2. CASE p \notin Contents(seen)
  <2>1. seen' = Remember(p) /\ log' = Append(log, p)
    BY <1>2 DEF HandleDecree
  <2>2. seen' \in Seq(Payload) /\ Len(seen') <= SeenCap
    BY <2>1, RememberType
  <2>3. log' \in Seq(Payload)
    BY <1>0, <2>1 DEF ChainOK
  <2>4. CASE short
    <3>1. UNCHANGED <<epoch, decrees, seq, tip, acc, sealed, dkg, audited>>
      BY <1>2, <2>4 DEF HandleDecree
    <3> QED BY <1>0, <2>2, <2>3, <3>1 DEF ChainOK
  <2>5. CASE ~short
    <3>1. Fold(p) /\ audited' = (audited /\ ~Completes)
      BY <1>2, <2>5 DEF HandleDecree
    <3>2. audited' \in BOOLEAN
      BY <3>1
    <3> QED BY <2>2, <2>3, <3>1, <3>2, FoldType DEF ChainOK
  <2> QED BY <2>4, <2>5
<1> QED BY <1>1, <1>2

\* The pool handle_decree leaves behind is a sequence of payloads.
LEMMA PoolType ==
    ASSUME TypeOK, NEW p \in Payload
    PROVE  PoolAfter(p) \in Seq(Payload)
<1>1. claims \in Seq(Payload) /\ <<>> \in Seq(Payload)
  BY DEF TypeOK
<1> QED BY <1>1 DEF PoolAfter

-----------------------------------------------------------------------------
(* Type correctness.                                                       *)

LEMMA InitType == Init => TypeOK
<1> SUFFICES ASSUME Init PROVE TypeOK
  OBVIOUS
<1>1. K \in Nat \ {0} /\ SeenCap \in Nat \ {0} /\ PulseEvery \in Nat \ {0} /\ MaxWork \in Nat
  BY EpochFoldAssumption
<1> DEFINE a0 == [i \in 1 .. K |-> [epoch |-> 0, idx |-> i]]
<1>2. \A i \in 1 .. K : [epoch |-> 0, idx |-> i] \in Term
  BY <1>1 DEF Term
<1>3. a0 \in [1 .. K -> Term]
  BY <1>2
<1>4. a0 \in Seq(Term)
  BY <1>1, <1>3
<1>5. [epoch |-> 0, acc |-> a0] \in Header
  BY <1>4 DEF Header
<1>6. sealed \in Seq(Header)
  <2>1. sealed = <<[epoch |-> 0, acc |-> a0]>>
    BY DEF Init
  <2> QED BY <1>5, <2>1
<1>7. Genesis \in Digest
  BY DEF Genesis, Digest
<1>8. tip \in Digest /\ dkg \in [epoch : Nat, prev : Digest]
  BY <1>7 DEF Init
<1>9. /\ seen \in Seq(Payload) /\ Len(seen) <= SeenCap /\ acc \in Seq(Term)
      /\ claims \in Seq(Payload) /\ submit \in Seq(Item) /\ queue \in Seq(Item)
      /\ log \in Seq(Payload)
  BY <1>1 DEF Init
<1>10. receipt \in Receipt
  BY DEF Init, Receipt
<1>11. /\ pc \in {"select", "audit", "work"} /\ timer \in 0 .. PulseEvery - 1
       /\ epoch \in Nat \ {0} /\ decrees \in 0 .. K - 1 /\ seq \in Nat
       /\ nextId \in 1 .. MaxWork + 1
  BY <1>1 DEF Init
<1>12. audited \in BOOLEAN
  BY DEF Init
<1>13. /\ done \subseteq Record /\ covered \subseteq Payload /\ folded \subseteq Payload
       /\ unread \subseteq {"client", "peer"}
  BY DEF Init
<1> QED BY <1>6, <1>8, <1>9, <1>10, <1>11, <1>12, <1>13 DEF TypeOK

\* A send that blocks or returns changes nothing else.
LEMMA SendsOnly ==
    ASSUME TypeOK, Sends
    PROVE  /\ UNCHANGED <<pc, timer, chain, pool, work, audits, folded>>
           /\ unread' \subseteq {"client", "peer"}
<1>1. unread \subseteq {"client", "peer"}
  BY DEF TypeOK
<1> QED BY <1>1 DEF Sends, ClientStalls, PeerStalls, SendReturns

LEMMA NextType == TypeOK /\ [Next]_vars => TypeOK'
<1> SUFFICES ASSUME TypeOK, [Next]_vars PROVE TypeOK'
  OBVIOUS
<1>0. K \in Nat \ {0} /\ SeenCap \in Nat \ {0} /\ PulseEvery \in Nat \ {0} /\ MaxWork \in Nat
  BY EpochFoldAssumption
<1>1. ASSUME NEW d \in WireDecree, ReceiveDecree(d) PROVE TypeOK'
  <2>1. WirePayload(d) \in Payload
    BY EpochFoldAssumption, WireType
  <2>2. /\ HandleDecree(WirePayload(d), d \in Runt)
        /\ claims' = IF d \in Runt THEN claims ELSE PoolAfter(WirePayload(d))
        /\ UNCHANGED <<pc, timer, work, audits, folded, unread>>
    BY <1>1 DEF ReceiveDecree
  <2>3. ChainOK'
    BY <2>1, <2>2, HandleType
  <2>4. claims' \in Seq(Payload)
    BY <2>1, <2>2, PoolType DEF TypeOK
  <2> QED BY <2>2, <2>3, <2>4 DEF TypeOK, ChainOK
<1>2. ASSUME NEW h \in WireHeader, ReceiveHeader(h) PROVE TypeOK'
  <2>1. HeaderPayload(h) \in Payload
    BY EpochFoldAssumption, WireType
  <2>2. /\ seen' = Remember(HeaderPayload(h)) /\ log' = Append(log, HeaderPayload(h))
        /\ UNCHANGED <<pc, timer, epoch, decrees, seq, tip, acc, sealed, dkg,
                       pool, work, audits, folded, unread>>
    BY <1>2 DEF ReceiveHeader
  <2>3. seen' \in Seq(Payload) /\ Len(seen') <= SeenCap
    BY <2>1, <2>2, RememberType
  <2>4. log' \in Seq(Payload)
    BY <2>1, <2>2 DEF TypeOK
  <2> QED BY <2>2, <2>3, <2>4 DEF TypeOK
<1>3. CASE Tick
  <2>1. timer' \in 0 .. PulseEvery - 1
    BY <1>0, <1>3 DEF Tick, TypeOK
  <2> QED BY <1>3, <2>1 DEF Tick, TypeOK
<1>4. CASE Pulse
  <2>1. timer' = 0 /\ pc' = "audit" /\ UNCHANGED <<work, audits, folded, unread>>
    BY <1>4 DEF Pulse
  <2>2. timer' \in 0 .. PulseEvery - 1
    BY <1>0, <2>1
  <2>3. ChainOK' /\ claims' \in Seq(Payload)
    <3>1. CASE decrees < K /\ epoch <= MaxEpoch
      <4>1. HandleDecree(PulsePayload, FALSE) /\ claims' = PoolAfter(PulsePayload)
        BY <1>4, <3>1 DEF Pulse
      <4>2. PulsePayload \in Payload
        BY PulseType
      <4> QED BY <4>1, <4>2, HandleType, PoolType
    <3>2. CASE ~(decrees < K /\ epoch <= MaxEpoch)
      <4>1. UNCHANGED <<chain, pool>>
        BY <1>4, <3>2 DEF Pulse
      <4> QED BY <4>1 DEF TypeOK, ChainOK
    <3> QED BY <3>1, <3>2
  <2> QED BY <2>1, <2>2, <2>3 DEF TypeOK, ChainOK
<1>5. CASE Audit
  <2>1. pc' = "work" /\ UNCHANGED <<timer, chain, claims, work, folded, unread>>
    BY <1>5 DEF Audit
  <2>2. audited' \in BOOLEAN /\ receipt' \in Receipt /\ covered' \subseteq Payload
    <3>1. CASE AuditDue
      <4>1. /\ audited' = TRUE
            /\ receipt' = [has |-> TRUE, epoch |-> epoch, pass |-> VerifyPool]
            /\ covered' = covered \cup Contents(claims)
        BY <1>5, <3>1 DEF Audit
      <4>2. Contents(claims) \subseteq Payload
        <5>1. claims \in Seq(Payload)
          BY DEF TypeOK
        <5> QED BY <5>1 DEF Contents
      <4>3. VerifyPool \in BOOLEAN
        BY DEF VerifyPool
      <4>4. receipt' \in Receipt
        BY <4>1, <4>3 DEF TypeOK, Receipt
      <4> QED BY <4>1, <4>2, <4>4 DEF TypeOK
    <3>2. CASE ~AuditDue
      <4>1. UNCHANGED <<audited, audits>>
        BY <1>5, <3>2 DEF Audit
      <4> QED BY <4>1 DEF TypeOK
    <3> QED BY <3>1, <3>2
  <2> QED BY <2>1, <2>2 DEF TypeOK
<1>6. CASE ProcessWork
  <2> DEFINE w == Head(queue)
             r == [id |-> w.id, large |-> w.large, result |-> TRUE]
             p == ClaimPayload(r)
  <2>1. queue # <<>> /\ queue \in Seq(Item)
    BY <1>6 DEF ProcessWork, WorkReady, TypeOK
  <2>2. w \in Item /\ Tail(queue) \in Seq(Item)
    BY <2>1
  <2>3. r \in Record
    BY <2>2 DEF Item, Record
  <2>4. p \in Payload
    BY <2>3, ClaimType
  <2>5. /\ pc' = "select" /\ queue' = Tail(queue) /\ done' = done \cup {r}
        /\ UNCHANGED <<timer, nextId, submit, audits, unread>>
    BY <1>6 DEF ProcessWork, Complete
  <2>6. ChainOK' /\ claims' \in Seq(Payload) /\ folded' \subseteq Payload
    <3>1. CASE w.large
      <4>1. /\ HandleDecree(p, FALSE) /\ claims' = ClaimsAfterWork(p)
            /\ folded' = folded \cup {p}
        BY <1>6, <3>1 DEF ProcessWork
      <4>2. ChainOK'
        BY <2>4, <4>1, HandleType
      <4>3. PoolAfter(p) \in Seq(Payload)
        BY <2>4, PoolType
      <4>4. claims' \in Seq(Payload)
        BY <2>4, <4>1, <4>3 DEF ClaimsAfterWork
      <4> QED BY <2>4, <4>1, <4>2, <4>4 DEF TypeOK
    <3>2. CASE ~w.large
      <4>1. UNCHANGED <<chain, pool, folded>>
        BY <1>6, <3>2 DEF ProcessWork
      <4> QED BY <4>1 DEF TypeOK, ChainOK
    <3> QED BY <3>1, <3>2
  <2>7. done' \subseteq Record
    BY <2>3, <2>5 DEF TypeOK
  <2> QED BY <2>2, <2>5, <2>6, <2>7 DEF TypeOK, ChainOK
<1>7. CASE NoWork
  BY <1>7 DEF NoWork, TypeOK
<1>8. ASSUME NEW large \in BOOLEAN, Reserve(large) PROVE TypeOK'
  <2>1. /\ nextId <= MaxWork /\ submit' = <<[id |-> nextId, large |-> large]>>
        /\ nextId' = nextId + 1
        /\ UNCHANGED <<pc, timer, chain, pool, queue, done, audits, folded, unread>>
    BY <1>8 DEF Reserve
  <2>2. nextId \in 1 .. MaxWork + 1
    BY DEF TypeOK
  <2>3. nextId \in Ids /\ nextId' \in 1 .. MaxWork + 1
    BY <1>0, <2>1, <2>2 DEF Ids
  <2>4. [id |-> nextId, large |-> large] \in Item
    BY <2>3 DEF Item
  <2>5. submit' \in Seq(Item)
    BY <2>1, <2>4
  <2> QED BY <2>1, <2>3, <2>5 DEF TypeOK
<1>9. CASE Enqueue
  <2>1. /\ queue' = queue \o submit /\ submit' = <<>>
        /\ UNCHANGED <<pc, timer, chain, pool, nextId, done, audits, folded, unread>>
    BY <1>9 DEF Enqueue
  <2>2. queue' \in Seq(Item) /\ submit' \in Seq(Item)
    BY <2>1 DEF TypeOK
  <2> QED BY <2>1, <2>2 DEF TypeOK
<1>10. CASE UNCHANGED vars
  BY <1>10 DEF vars, TypeOK
<1>11. CASE Sends
  BY <1>11, SendsOnly DEF TypeOK
<1> QED BY <1>1, <1>2, <1>3, <1>4, <1>5, <1>6, <1>7, <1>8, <1>9, <1>10, <1>11
        DEF Next, MainThread

\* Type correctness of EpochFold: every counter stays in its range, decree_count
\* below g_k_entries and seen_fps within its capacity included.
THEOREM EpochFoldTypeCorrect == Spec => []TypeOK
<1>1. Init => TypeOK
  BY InitType
<1>2. TypeOK /\ [Next]_vars => TypeOK'
  BY NextType
<1> QED BY <1>1, <1>2, PTL DEF Spec

-----------------------------------------------------------------------------
(* What a step can do to the chain and to the fingerprints.                *)

\* The variables of the open epoch move only by a fold.
OpenEpochStep ==
    \/ UNCHANGED <<epoch, decrees, seq, acc, sealed, dkg>>
    \/ \E p \in Payload : Fold(p)

\* The fingerprints move only by a payload the window does not hold.
SeenStep ==
    \/ UNCHANGED <<seen, log>>
    \/ \E p \in Payload : /\ p \notin Contents(seen)
                          /\ seen' = Remember(p)
                          /\ log' = Append(log, p)

LEMMA HandleSteps ==
    ASSUME NEW p \in Payload, NEW short, HandleDecree(p, short)
    PROVE  OpenEpochStep /\ SeenStep
<1>1. CASE p \in Contents(seen)
  <2>1. UNCHANGED <<epoch, decrees, seq, acc, sealed, dkg, seen, log>>
    BY <1>1 DEF HandleDecree
  <2> QED BY <2>1 DEF OpenEpochStep, SeenStep
<1>2. CASE p \notin Contents(seen)
  <2>1. seen' = Remember(p) /\ log' = Append(log, p)
    BY <1>2 DEF HandleDecree
  <2>2. SeenStep
    BY <1>2, <2>1 DEF SeenStep
  <2>3. CASE short
    BY <1>2, <2>2, <2>3 DEF HandleDecree, OpenEpochStep
  <2>4. CASE ~short
    <3>1. Fold(p)
      BY <1>2, <2>4 DEF HandleDecree
    <3> QED BY <2>2, <3>1 DEF OpenEpochStep
  <2> QED BY <2>3, <2>4
<1> QED BY <1>1, <1>2

LEMMA Steps ==
    ASSUME TypeOK, [Next]_vars
    PROVE  OpenEpochStep /\ SeenStep
<1>1. ASSUME NEW d \in WireDecree, ReceiveDecree(d) PROVE OpenEpochStep /\ SeenStep
  <2>1. WirePayload(d) \in Payload
    BY EpochFoldAssumption, WireType
  <2>2. HandleDecree(WirePayload(d), d \in Runt)
    BY <1>1 DEF ReceiveDecree
  <2> QED BY <2>1, <2>2, HandleSteps
<1>2. ASSUME NEW h \in WireHeader, ReceiveHeader(h) PROVE OpenEpochStep /\ SeenStep
  <2>1. HeaderPayload(h) \in Payload
    BY EpochFoldAssumption, WireType
  <2>2. /\ HeaderPayload(h) \notin Contents(seen)
        /\ seen' = Remember(HeaderPayload(h)) /\ log' = Append(log, HeaderPayload(h))
        /\ UNCHANGED <<epoch, decrees, seq, acc, sealed, dkg>>
    BY <1>2 DEF ReceiveHeader
  <2> QED BY <2>1, <2>2 DEF OpenEpochStep, SeenStep
<1>3. CASE Pulse
  <2>1. CASE decrees < K /\ epoch <= MaxEpoch
    <3>1. HandleDecree(PulsePayload, FALSE)
      BY <1>3, <2>1 DEF Pulse
    <3> QED BY <3>1, PulseType, HandleSteps
  <2>2. CASE ~(decrees < K /\ epoch <= MaxEpoch)
    BY <1>3, <2>2 DEF Pulse, OpenEpochStep, SeenStep
  <2> QED BY <2>1, <2>2
<1>4. CASE ProcessWork
  <2> DEFINE w == Head(queue)
             r == [id |-> w.id, large |-> w.large, result |-> TRUE]
  <2>1. queue # <<>> /\ queue \in Seq(Item)
    BY <1>4 DEF ProcessWork, WorkReady, TypeOK
  <2>2. w \in Item
    BY <2>1
  <2>3. r \in Record
    BY <2>2 DEF Item, Record
  <2>4. ClaimPayload(r) \in Payload
    BY <2>3, ClaimType
  <2>5. CASE w.large
    <3>1. HandleDecree(ClaimPayload(r), FALSE)
      BY <1>4, <2>5 DEF ProcessWork
    <3> QED BY <2>4, <3>1, HandleSteps
  <2>6. CASE ~w.large
    BY <1>4, <2>6 DEF ProcessWork, OpenEpochStep, SeenStep
  <2> QED BY <2>5, <2>6
<1>5. CASE Tick
  BY <1>5 DEF Tick, OpenEpochStep, SeenStep
<1>6. CASE Audit
  BY <1>6 DEF Audit, OpenEpochStep, SeenStep
<1>7. CASE NoWork
  BY <1>7 DEF NoWork, OpenEpochStep, SeenStep
<1>8. ASSUME NEW large \in BOOLEAN, Reserve(large) PROVE OpenEpochStep /\ SeenStep
  BY <1>8 DEF Reserve, OpenEpochStep, SeenStep
<1>9. CASE Enqueue
  BY <1>9 DEF Enqueue, OpenEpochStep, SeenStep
<1>10. CASE UNCHANGED vars
  BY <1>10 DEF vars, OpenEpochStep, SeenStep
<1>11. CASE Sends
  BY <1>11, SendsOnly DEF OpenEpochStep, SeenStep
<1> QED BY <1>1, <1>2, <1>3, <1>4, <1>5, <1>6, <1>7, <1>8, <1>9, <1>10, <1>11
        DEF Next, MainThread

-----------------------------------------------------------------------------
(* Sealed epochs.                                                          *)

LEMMA FoldAligned ==
    ASSUME TypeOK, EpochAligned, SealedExact, NEW p \in Payload, Fold(p)
    PROVE  EpochAligned' /\ SealedExact'
<1> DEFINE t == [epoch |-> epoch, idx |-> seq]
           entries == Append(acc, t)
<1>0. /\ K \in Nat \ {0} /\ epoch \in Nat \ {0} /\ decrees \in 0 .. K - 1
      /\ acc \in Seq(Term) /\ sealed \in Seq(Header) /\ seq \in Nat
  BY EpochFoldAssumption DEF TypeOK
<1>1. /\ epoch = Len(sealed) /\ seq = decrees /\ Len(acc) = decrees
      /\ \A i \in 1 .. Len(acc) : acc[i] = [epoch |-> epoch, idx |-> i - 1]
      /\ dkg.epoch = epoch
  BY DEF EpochAligned
<1>2. t \in Term
  BY <1>0 DEF Term
<1>3. Len(entries) = decrees + 1
  BY <1>0, <1>1, <1>2
<1>4. \A i \in 1 .. decrees + 1 : entries[i] = [epoch |-> epoch, idx |-> i - 1]
  <2> SUFFICES ASSUME NEW i \in 1 .. decrees + 1
               PROVE  entries[i] = [epoch |-> epoch, idx |-> i - 1]
    OBVIOUS
  <2>1. CASE i <= decrees
    <3>1. entries[i] = acc[i]
      BY <1>0, <1>1, <1>2, <2>1
    <3> QED BY <1>0, <1>1, <2>1, <3>1
  <2>2. CASE i = decrees + 1
    <3>1. entries[i] = t
      BY <1>0, <1>1, <1>2, <2>2
    <3>2. seq = i - 1
      BY <1>0, <1>1, <2>2
    <3> QED BY <3>1, <3>2
  <2>3. i <= decrees \/ i = decrees + 1
    BY <1>0
  <2> QED BY <2>1, <2>2, <2>3
<1>5. CASE Completes
  <2> DEFINE h == [epoch |-> epoch, acc |-> entries]
  <2>1. sealed' = Append(sealed, h) /\ OpenEpoch(FeFromPayload(p))
    BY <1>5 DEF Fold
  <2>2. /\ seq' = 0 /\ acc' = <<>> /\ epoch' = epoch + 1 /\ decrees' = 0
        /\ dkg' = [epoch |-> epoch + 1, prev |-> FeFromPayload(p)]
    BY <2>1 DEF OpenEpoch
  <2>3. decrees + 1 = K
    BY <1>0, <1>5 DEF Completes
  <2>4. entries \in Seq(Term)
    BY <1>0, <1>2
  <2>5. h \in Header
    BY <1>0, <2>4 DEF Header
  <2>6. Len(sealed') = Len(sealed) + 1
    BY <1>0, <2>1, <2>5
  <2>7. EpochAligned'
    <3>1. Len(acc') = 0
      BY <2>2
    <3>2. \A i \in 1 .. Len(acc') : acc'[i] = [epoch |-> epoch', idx |-> i - 1]
      BY <3>1
    <3> QED BY <1>0, <1>1, <2>2, <2>6, <3>1, <3>2 DEF EpochAligned
  <2>8. SealedExact'
    <3> SUFFICES ASSUME NEW k \in 1 .. Len(sealed')
                 PROVE  /\ sealed'[k].epoch = k - 1
                        /\ Len(sealed'[k].acc) = K
                        /\ k > 1 => \A i \in 1 .. K :
                             sealed'[k].acc[i] = [epoch |-> k - 1, idx |-> i - 1]
      BY DEF SealedExact
    <3>1. CASE k <= Len(sealed)
      <4>1. k \in 1 .. Len(sealed) /\ sealed'[k] = sealed[k]
        BY <1>0, <2>1, <2>5, <3>1
      <4> QED BY <4>1 DEF SealedExact
    <3>2. CASE k = Len(sealed) + 1
      <4>1. sealed'[k] = h
        BY <1>0, <2>1, <2>5, <3>2
      <4>2. epoch = k - 1
        BY <1>0, <1>1, <3>2
      <4>3. sealed'[k].epoch = epoch /\ sealed'[k].acc = entries
        BY <4>1
      <4> QED BY <1>3, <1>4, <2>3, <4>2, <4>3
    <3> QED BY <1>0, <2>6, <3>1, <3>2
  <2> QED BY <2>7, <2>8
<1>6. CASE ~Completes
  <2>1. /\ acc' = entries /\ seq' = seq + 1 /\ decrees' = decrees + 1
        /\ epoch' = epoch /\ sealed' = sealed /\ dkg' = dkg
    BY <1>6 DEF Fold
  <2>2. SealedExact'
    BY <2>1 DEF SealedExact
  <2>3. EpochAligned'
    BY <1>0, <1>1, <1>3, <1>4, <2>1 DEF EpochAligned
  <2> QED BY <2>2, <2>3
<1> QED BY <1>5, <1>6

LEMMA InitAligned == Init => EpochAligned /\ SealedExact
<1> SUFFICES ASSUME Init PROVE EpochAligned /\ SealedExact
  OBVIOUS
<1> DEFINE a0 == [i \in 1 .. K |-> [epoch |-> 0, idx |-> i]]
<1>1. K \in Nat
  BY EpochFoldAssumption
<1>2. sealed = <<[epoch |-> 0, acc |-> a0]>>
  BY DEF Init
<1>3. Len(sealed) = 1 /\ sealed[1].epoch = 0 /\ sealed[1].acc = a0
  BY <1>2
<1>4. Len(a0) = K
  BY <1>1
<1>5. SealedExact
  <2>1. \A k \in 1 .. Len(sealed) : k = 1
    BY <1>3
  <2>2. sealed[1].epoch = 1 - 1 /\ Len(sealed[1].acc) = K
    <3> HIDE DEF a0
    <3> QED BY <1>3, <1>4
  <2> QED BY <2>1, <2>2 DEF SealedExact
<1>6. epoch = 1 /\ seq = 0 /\ decrees = 0 /\ acc = <<>> /\ dkg.epoch = 1
  BY DEF Init
<1>7. EpochAligned
  BY <1>3, <1>6 DEF EpochAligned
<1> QED BY <1>5, <1>7

\* EpochAligned: in every reachable state current_epoch, g_entry_seq,
\* decree_count, the accumulator and the committee agree.  handle_decree
\* resets them one by one; no interleaving of pulses, peers and claims shows a
\* half-reset epoch.
THEOREM EpochAlignedThm == Spec => [](EpochAligned /\ SealedExact)
<1>1. Init => EpochAligned /\ SealedExact
  BY InitAligned
<1>2. TypeOK /\ EpochAligned /\ SealedExact /\ [Next]_vars
          => (EpochAligned /\ SealedExact)'
  <2> SUFFICES ASSUME TypeOK, EpochAligned, SealedExact, [Next]_vars
               PROVE  EpochAligned' /\ SealedExact'
    OBVIOUS
  <2>1. OpenEpochStep
    BY Steps
  <2>2. CASE UNCHANGED <<epoch, decrees, seq, acc, sealed, dkg>>
    BY <2>2 DEF EpochAligned, SealedExact
  <2>3. CASE \E p \in Payload : Fold(p)
    BY <2>3, FoldAligned
  <2> QED BY <2>1, <2>2, <2>3 DEF OpenEpochStep
<1> QED BY <1>1, <1>2, EpochFoldTypeCorrect, PTL DEF Spec

\* SealedExact: every epoch is sealed once, in order, over exactly K entries
\* with the terms (epoch, 0) to (epoch, K-1) (handle_decree).
THEOREM SealedExactThm == Spec => []SealedExact
BY EpochAlignedThm, PTL

-----------------------------------------------------------------------------
(* The window of fingerprints.                                             *)

\* seen_fps is the last SeenCap payloads of the history.
SeenIsWindow ==
    /\ Len(seen) <= Len(log)
    /\ Len(seen) < SeenCap => Len(seen) = Len(log)
    /\ \A i \in 1 .. Len(seen) : seen[i] = log[Len(log) - Len(seen) + i]

LEMMA WindowStep ==
    ASSUME TypeOK, SeenIsWindow, NoDoubleFold, NEW p \in Payload,
           p \notin Contents(seen), seen' = Remember(p), log' = Append(log, p)
    PROVE  SeenIsWindow' /\ NoDoubleFold'
<1>0. /\ SeenCap \in Nat \ {0} /\ seen \in Seq(Payload) /\ log \in Seq(Payload)
      /\ Len(seen) \in Nat /\ Len(log) \in Nat /\ Len(seen) <= SeenCap
  BY EpochFoldAssumption DEF TypeOK
<1>1. /\ Len(log') = Len(log) + 1 /\ log'[Len(log) + 1] = p
      /\ \A i \in 1 .. Len(log) : log'[i] = log[i]
  BY <1>0
<1>2. NoDoubleFold'
  <2> SUFFICES ASSUME NEW i \in 1 .. Len(log'), NEW j \in 1 .. Len(log'),
                      i < j, log'[i] = log'[j]
               PROVE  j - i > SeenCap
    BY DEF NoDoubleFold
  <2>1. i \in 1 .. Len(log) /\ log'[i] = log[i]
    BY <1>0, <1>1
  <2>2. CASE j <= Len(log)
    <3>1. j \in 1 .. Len(log) /\ log'[j] = log[j]
      BY <1>0, <1>1, <2>2
    <3> QED BY <2>1, <3>1 DEF NoDoubleFold
  <2>3. CASE j = Len(log) + 1
    <3>1. log[i] = p
      BY <1>1, <2>1, <2>3
    <3>2. ~(i > Len(log) - Len(seen))
      <4> SUFFICES ASSUME i > Len(log) - Len(seen) PROVE FALSE
        OBVIOUS
      <4>1. i - (Len(log) - Len(seen)) \in 1 .. Len(seen)
        BY <1>0, <2>1
      <4>2. seen[i - (Len(log) - Len(seen))] = log[i]
        <5>1. Len(log) - Len(seen) + (i - (Len(log) - Len(seen))) = i
          BY <1>0, <2>1
        <5> QED BY <4>1, <5>1 DEF SeenIsWindow
      <4>3. i - (Len(log) - Len(seen)) \in DOMAIN seen
        BY <1>0, <4>1
      <4> QED BY <3>1, <4>2, <4>3 DEF Contents
    <3>3. Len(seen) = SeenCap
      <4>1. CASE Len(seen) < SeenCap
        <5>1. Len(seen) = Len(log)
          BY <4>1 DEF SeenIsWindow
        <5> QED BY <1>0, <2>1, <3>2, <5>1
      <4> QED BY <1>0, <4>1
    <3> QED BY <1>0, <2>1, <2>3, <3>2, <3>3
  <2> QED BY <1>0, <1>1, <2>2, <2>3
<1>3. SeenIsWindow'
  <2>1. CASE Len(seen) < SeenCap
    <3>1. seen' = Append(seen, p)
      BY <2>1 DEF Remember
    <3>2. /\ Len(seen') = Len(seen) + 1 /\ seen'[Len(seen) + 1] = p
          /\ \A i \in 1 .. Len(seen) : seen'[i] = seen[i]
      BY <1>0, <3>1
    <3>3. Len(seen) = Len(log)
      BY <2>1 DEF SeenIsWindow
    <3>4. \A i \in 1 .. Len(seen) : seen[i] = log[i]
      BY <1>0, <3>3 DEF SeenIsWindow
    <3>5. \A i \in 1 .. Len(seen') : seen'[i] = log'[i]
      BY <1>0, <1>1, <3>2, <3>3, <3>4
    <3>6. \A i \in 1 .. Len(seen') : Len(log') - Len(seen') + i = i
      BY <1>0, <1>1, <3>2, <3>3
    <3> QED BY <1>0, <1>1, <3>2, <3>3, <3>5, <3>6 DEF SeenIsWindow
  <2>2. CASE ~(Len(seen) < SeenCap)
    <3>1. seen' = Append(Tail(seen), p) /\ Len(seen) = SeenCap
      BY <1>0, <2>2 DEF Remember
    <3>2. seen # <<>>
      BY <1>0, <3>1
    <3>3. /\ Tail(seen) \in Seq(Payload) /\ Len(Tail(seen)) = Len(seen) - 1
          /\ \A i \in 1 .. Len(seen) - 1 : Tail(seen)[i] = seen[i + 1]
      BY <1>0, <3>2
    <3>4. /\ Len(seen') = Len(seen) /\ seen'[Len(seen)] = p
          /\ \A i \in 1 .. Len(seen) - 1 : seen'[i] = seen[i + 1]
      BY <1>0, <3>1, <3>3
    <3>5. \A i \in 1 .. Len(seen') : seen'[i] = log'[Len(log') - Len(seen') + i]
      <4> SUFFICES ASSUME NEW i \in 1 .. Len(seen')
                   PROVE  seen'[i] = log'[Len(log') - Len(seen') + i]
        OBVIOUS
      <4>1. CASE i = Len(seen)
        <5>1. Len(log') - Len(seen') + i = Len(log) + 1
          BY <1>0, <1>1, <3>4, <4>1
        <5> QED BY <1>1, <3>4, <4>1, <5>1
      <4>2. CASE i < Len(seen)
        <5>1. i + 1 \in 1 .. Len(seen) /\ i \in 1 .. Len(seen) - 1
          BY <1>0, <3>4, <4>2
        <5>2. Len(log') - Len(seen') + i = Len(log) - Len(seen) + (i + 1)
          BY <1>0, <1>1, <3>4, <5>1
        <5>3. seen[i + 1] = log[Len(log) - Len(seen) + (i + 1)]
          BY <5>1 DEF SeenIsWindow
        <5>4. Len(log) - Len(seen) + (i + 1) \in 1 .. Len(log)
          BY <1>0, <5>1 DEF SeenIsWindow
        <5> QED BY <1>1, <3>4, <5>1, <5>2, <5>3, <5>4
      <4>3. i = Len(seen) \/ i < Len(seen)
        BY <1>0, <3>4
      <4> QED BY <4>1, <4>2, <4>3
    <3>6. Len(seen') <= Len(log') /\ ~(Len(seen') < SeenCap)
      BY <1>0, <1>1, <3>1, <3>4 DEF SeenIsWindow
    <3> QED BY <3>5, <3>6 DEF SeenIsWindow
  <2> QED BY <2>1, <2>2
<1> QED BY <1>2, <1>3

\* NoDoubleFold: whatever the window size, seen_or_add lets a payload pass a
\* second time only after SeenCap other payloads.
THEOREM NoDoubleFoldThm == Spec => []NoDoubleFold
<1>1. Init => SeenIsWindow /\ NoDoubleFold
  <2> SUFFICES ASSUME Init PROVE SeenIsWindow /\ NoDoubleFold
    OBVIOUS
  <2>1. Len(seen) = 0 /\ Len(log) = 0
    BY DEF Init
  <2> QED BY <2>1 DEF SeenIsWindow, NoDoubleFold
<1>2. TypeOK /\ SeenIsWindow /\ NoDoubleFold /\ [Next]_vars
          => (SeenIsWindow /\ NoDoubleFold)'
  <2> SUFFICES ASSUME TypeOK, SeenIsWindow, NoDoubleFold, [Next]_vars
               PROVE  SeenIsWindow' /\ NoDoubleFold'
    OBVIOUS
  <2>1. SeenStep
    BY Steps
  <2>2. CASE UNCHANGED <<seen, log>>
    BY <2>2 DEF SeenIsWindow, NoDoubleFold
  <2>3. CASE ~UNCHANGED <<seen, log>>
    BY <2>1, <2>3, WindowStep DEF SeenStep
  <2> QED BY <2>2, <2>3
<1> QED BY <1>1, <1>2, EpochFoldTypeCorrect, PTL DEF Spec

-----------------------------------------------------------------------------
(* The audit of the claims.                                                *)

\* The receipt is not of a later epoch; one of this epoch means that this
\* pool was audited.
ReceiptDated ==
    /\ receipt.epoch <= epoch
    /\ receipt.epoch = epoch => audited

\* With VerifyPool: every pooled claim verifies against a stored work record.
AuditInv == ReceiptDated /\ VerifyPool /\ ReceiptsPass

\* handle_decree stays in the epoch and keeps the audit flag, or opens the
\* next epoch; the pool it leaves is the old one or empty.
LEMMA HandleAudit ==
    ASSUME TypeOK, NEW p, NEW short, HandleDecree(p, short)
    PROVE  (epoch' = epoch /\ audited' = audited) \/ epoch' = epoch + 1
<1>1. CASE p \in Contents(seen) \/ short
  BY <1>1 DEF HandleDecree
<1>2. CASE ~(p \in Contents(seen) \/ short)
  <2>1. Fold(p) /\ audited' = (audited /\ ~Completes)
    BY <1>2 DEF HandleDecree
  <2>2. CASE Completes
    BY <2>1, <2>2 DEF Fold, OpenEpoch
  <2>3. CASE ~Completes
    <3>1. epoch' = epoch
      BY <2>1, <2>3 DEF Fold
    <3>2. audited \in BOOLEAN
      BY DEF TypeOK
    <3> QED BY <2>1, <2>3, <3>1, <3>2
  <2> QED BY <2>2, <2>3
<1> QED BY <1>1, <1>2

LEMMA PoolAfterContents ==
    ASSUME NEW p
    PROVE  Contents(PoolAfter(p)) \subseteq Contents(claims)
BY DEF PoolAfter, Contents

\* What every step but Audit does to the epoch, and every step to the pool.
EpochStep == (epoch' = epoch /\ audited' = audited) \/ epoch' = epoch + 1

LEMMA AuditSteps ==
    ASSUME TypeOK, [Next]_vars, ~Audit
    PROVE  /\ EpochStep /\ UNCHANGED audits /\ done \subseteq done'
           /\ \A p \in Contents(claims') :
                p \in Contents(claims) \/ \E r \in done' : VerifyClaim(p, r)
<1> DEFINE Goal == /\ EpochStep /\ UNCHANGED audits /\ done \subseteq done'
                   /\ \A p \in Contents(claims') :
                        p \in Contents(claims) \/ \E r \in done' : VerifyClaim(p, r)
<1>1. ASSUME NEW d \in WireDecree, ReceiveDecree(d) PROVE Goal
  BY <1>1, HandleAudit, PoolAfterContents DEF ReceiveDecree, EpochStep
<1>2. ASSUME NEW h \in WireHeader, ReceiveHeader(h) PROVE Goal
  BY <1>2 DEF ReceiveHeader, EpochStep
<1>3. CASE Pulse
  <2>1. UNCHANGED audits /\ done' = done
    BY <1>3 DEF Pulse
  <2>2. EpochStep /\ Contents(claims') \subseteq Contents(claims)
    <3>1. CASE decrees < K /\ epoch <= MaxEpoch
      BY <1>3, <3>1, HandleAudit, PoolAfterContents DEF Pulse, EpochStep
    <3>2. CASE ~(decrees < K /\ epoch <= MaxEpoch)
      BY <1>3, <3>2 DEF Pulse, EpochStep
    <3> QED BY <3>1, <3>2
  <2> QED BY <2>1, <2>2
<1>4. CASE ProcessWork
  <2> DEFINE w == Head(queue)
             r == [id |-> w.id, large |-> w.large, result |-> TRUE]
             p == ClaimPayload(r)
  <2>1. UNCHANGED audits /\ done' = done \cup {r}
    BY <1>4 DEF ProcessWork, Complete
  <2>2. CASE w.large
    <3>1. HandleDecree(p, FALSE) /\ claims' = Append(PoolAfter(p), p)
      BY <1>4, <2>2 DEF ProcessWork, ClaimsAfterWork
    <3>2. p \in Payload
      <4>1. queue \in Seq(Item) /\ queue # <<>>
        BY <1>4 DEF ProcessWork, WorkReady, TypeOK
      <4>2. w \in Item
        BY <4>1
      <4>3. r \in Record
        BY <4>2 DEF Item, Record
      <4> QED BY <4>3, ClaimType
    <3>3. PoolAfter(p) \in Seq(Payload)
      BY <3>2, PoolType
    <3>4. VerifyClaim(p, r)
      BY DEF VerifyClaim, ClaimPayload
    <3> HIDE DEF p, r
    <3>5. Contents(claims') \subseteq Contents(PoolAfter(p)) \cup {p}
      BY <3>1, <3>2, <3>3 DEF Contents
    <3>6. EpochStep
      BY <3>1, HandleAudit DEF EpochStep
    <3> QED BY <2>1, <3>4, <3>5, <3>6, PoolAfterContents
  <2>3. CASE ~w.large
    <3>1. UNCHANGED <<chain, pool>>
      BY <1>4, <2>3 DEF ProcessWork
    <3> QED BY <2>1, <3>1 DEF EpochStep
  <2> QED BY <2>2, <2>3
<1>5. CASE Tick \/ NoWork \/ Enqueue \/ UNCHANGED vars \/ \E large \in BOOLEAN : Reserve(large)
  BY <1>5 DEF Tick, NoWork, Enqueue, Reserve, vars, EpochStep
<1>6. CASE Sends
  BY <1>6, SendsOnly DEF EpochStep
<1> QED BY <1>1, <1>2, <1>3, <1>4, <1>5, <1>6 DEF Next, MainThread

LEMMA AuditInvStep ==
    ASSUME TypeOK, AuditInv, [Next]_vars
    PROVE  AuditInv'
<1>0. epoch \in Nat /\ receipt.epoch \in Nat
  BY DEF TypeOK, Receipt
<1>1. CASE Audit
  <2>1. epoch' = epoch /\ claims' = claims /\ done' = done
    BY <1>1 DEF Audit
  <2>2. VerifyPool'
    BY <2>1 DEF AuditInv, VerifyPool
  <2>3. CASE AuditDue
    <3>1. audited' = TRUE /\ receipt' = [has |-> TRUE, epoch |-> epoch, pass |-> VerifyPool]
      BY <1>1, <2>3 DEF Audit
    <3>2. VerifyPool
      BY DEF AuditInv
    <3>3. receipt'.epoch = epoch /\ receipt'.pass = VerifyPool
      BY <3>1
    <3>4. ReceiptsPass'
      BY <3>2, <3>3 DEF ReceiptsPass
    <3>5. ReceiptDated'
      BY <1>0, <2>1, <3>1, <3>3 DEF ReceiptDated
    <3> QED BY <2>2, <3>4, <3>5 DEF AuditInv
  <2>4. CASE ~AuditDue
    BY <1>1, <2>1, <2>2, <2>4 DEF Audit, AuditInv, ReceiptDated, ReceiptsPass
  <2> QED BY <2>3, <2>4
<1>2. CASE ~Audit
  <2>1. /\ EpochStep /\ receipt' = receipt /\ done \subseteq done'
        /\ \A p \in Contents(claims') :
             p \in Contents(claims) \/ \E r \in done' : VerifyClaim(p, r)
    BY <1>2, AuditSteps
  <2>2. ReceiptDated'
    BY <1>0, <2>1 DEF AuditInv, ReceiptDated, EpochStep
  <2>3. VerifyPool'
    BY <2>1 DEF AuditInv, VerifyPool
  <2> QED BY <2>1, <2>2, <2>3 DEF AuditInv, ReceiptsPass
<1> QED BY <1>1, <1>2

\* The audit invariant holds.
THEOREM AuditInvariance == Spec => [](TypeOK /\ AuditInv)
<1>1. Init => TypeOK /\ AuditInv
  <2>1. Init => AuditInv
    BY DEF Init, AuditInv, ReceiptDated, VerifyPool, ReceiptsPass, Contents
  <2> QED BY <2>1, InitType
<1>2. TypeOK /\ AuditInv /\ [Next]_vars => TypeOK' /\ AuditInv'
  BY NextType, AuditInvStep
<1> QED BY <1>1, <1>2, PTL DEF Spec

\* The verifier never rejects the node's own claims, however submissions,
\* pulses and peers interleave with the stages of a tick (DEF-374).
THEOREM ReceiptsPassThm == Spec => []ReceiptsPass
<1>1. AuditInv => ReceiptsPass
  BY DEF AuditInv
<1> QED BY <1>1, AuditInvariance, PTL

\* An aggregate receipt is replaced only in a later epoch
\* (g_quorum_audited_this_pool).
THEOREM AuditOncePerEpochThm == Spec => AuditOncePerEpoch
<1>1. TypeOK /\ AuditInv /\ [Next]_vars
        => [receipt' # receipt \/ covered' # covered => receipt'.epoch > receipt.epoch]_vars
  <2> SUFFICES ASSUME TypeOK, AuditInv, [Next]_vars,
                      receipt' # receipt \/ covered' # covered
               PROVE  receipt'.epoch > receipt.epoch
    OBVIOUS
  <2>1. Audit /\ AuditDue
    BY AuditSteps DEF Audit
  <2>2. receipt'.epoch = epoch /\ ~audited
    BY <2>1 DEF Audit, AuditDue
  <2>3. epoch \in Nat /\ receipt.epoch \in Nat /\ receipt.epoch <= epoch /\ receipt.epoch # epoch
    BY <2>2 DEF TypeOK, Receipt, AuditInv, ReceiptDated
  <2> QED BY <2>2, <2>3
<1> QED BY <1>1, AuditInvariance, PTL DEF Spec, AuditOncePerEpoch

\* A folded claim is in the audit pool, also when its fold closed the epoch
\* and emptied the pool.
THEOREM FoldedIsPooledThm == Spec => FoldedIsPooled
<1>1. TypeOK /\ [Next]_vars => [folded' \ folded \subseteq Contents(claims')]_vars
  <2> SUFFICES ASSUME TypeOK, [Next]_vars PROVE folded' \ folded \subseteq Contents(claims')
    OBVIOUS
  <2>1. CASE ProcessWork
    <3> DEFINE w == Head(queue)
               r == [id |-> w.id, large |-> w.large, result |-> TRUE]
               p == ClaimPayload(r)
    <3>1. CASE w.large
      <4>1. claims' = Append(PoolAfter(p), p) /\ folded' = folded \cup {p}
        BY <2>1, <3>1 DEF ProcessWork, ClaimsAfterWork
      <4>2. queue \in Seq(Item) /\ queue # <<>>
        BY <2>1 DEF ProcessWork, WorkReady, TypeOK
      <4>3. w \in Item
        BY <4>2
      <4>4. r \in Record
        BY <4>3 DEF Item, Record
      <4>5. PoolAfter(p) \in Seq(Payload)
        BY <4>4, ClaimType, PoolType
      <4> HIDE DEF p
      <4>6. Len(PoolAfter(p)) + 1 \in DOMAIN claims' /\ claims'[Len(PoolAfter(p)) + 1] = p
        BY <4>1, <4>5
      <4> QED BY <4>1, <4>6 DEF Contents
    <3>2. CASE ~w.large
      BY <2>1, <3>2 DEF ProcessWork
    <3> QED BY <3>1, <3>2
  <2>2. CASE ~ProcessWork
    <3>1. folded' = folded
      BY <2>2, SendsOnly DEF Next, MainThread, ReceiveDecree, ReceiveHeader, Tick, Pulse, Audit,
                  NoWork, Reserve, Enqueue, vars
    <3> QED BY <3>1
  <2> QED BY <2>1, <2>2
<1> QED BY <1>1, EpochFoldTypeCorrect, PTL DEF Spec, FoldedIsPooled

-----------------------------------------------------------------------------
(* The work queue shared with the explorer thread.                         *)

\* At most one item is between reserve and push.
OneSubmission == Len(submit) <= 1

\* Whoever holds an item, its id was handed out.
IdsReserved ==
    /\ \A i \in DOMAIN submit : submit[i].id < nextId
    /\ \A i \in DOMAIN queue : queue[i].id < nextId
    /\ \A r \in done : r.id < nextId

\* No id is held twice.
IdsUnique ==
    /\ \A i \in DOMAIN submit, j \in DOMAIN queue : submit[i].id # queue[j].id
    /\ \A i \in DOMAIN submit, r \in done : submit[i].id # r.id
    /\ \A i \in DOMAIN queue, r \in done : queue[i].id # r.id
    /\ \A i, j \in DOMAIN queue : queue[i].id = queue[j].id => i = j
    /\ \A r, s \in done : r.id = s.id => r = s

\* Every id handed out is held by someone.
Held(id) ==
    \/ \E i \in DOMAIN submit : submit[i].id = id
    \/ \E i \in DOMAIN queue : queue[i].id = id
    \/ \E r \in done : r.id = id
IdsHeld == \A id \in 1 .. nextId - 1 : Held(id)

WorkInv == OneSubmission /\ IdsReserved /\ IdsUnique /\ IdsHeld

LEMMA WorkInvImplies ==
    ASSUME TypeOK, WorkInv
    PROVE  WorkNeverLost
<1> SUFFICES ASSUME NEW id \in 1 .. nextId - 1
             PROVE  Cardinality(
                   {<<"submit", i>> : i \in {j \in DOMAIN submit : submit[j].id = id}}
              \cup {<<"queue", i>> : i \in {j \in DOMAIN queue : queue[j].id = id}}
              \cup {<<"done", r>> : r \in {s \in done : s.id = id}}) = 1
  BY DEF WorkNeverLost
<1> DEFINE S == {<<"submit", i>> : i \in {j \in DOMAIN submit : submit[j].id = id}}
           Q == {<<"queue", i>> : i \in {j \in DOMAIN queue : queue[j].id = id}}
           D == {<<"done", r>> : r \in {s \in done : s.id = id}}
<1>1. \E x : S \cup Q \cup D = {x}
  <2>1. CASE \E i \in DOMAIN submit : submit[i].id = id
    <3>1. DOMAIN submit \subseteq {1}
      <4>1. submit \in Seq(Item) /\ Len(submit) <= 1
        BY DEF TypeOK, WorkInv, OneSubmission
      <4> QED BY <4>1
    <3>2. S = {<<"submit", 1>>}
      BY <2>1, <3>1
    <3>3. Q = {} /\ D = {}
      BY <2>1 DEF WorkInv, IdsUnique
    <3> QED BY <3>2, <3>3
  <2>2. CASE \E i \in DOMAIN queue : queue[i].id = id
    <3> PICK i \in DOMAIN queue : queue[i].id = id
      BY <2>2
    <3>1. \A j \in DOMAIN queue : queue[j].id = id => j = i
      BY DEF WorkInv, IdsUnique
    <3>2. Q = {<<"queue", i>>}
      BY <3>1
    <3>3. S = {} /\ D = {}
      BY DEF WorkInv, IdsUnique
    <3> QED BY <3>2, <3>3
  <2>3. CASE \E r \in done : r.id = id
    <3> PICK r \in done : r.id = id
      BY <2>3
    <3>1. \A s \in done : s.id = id => s = r
      BY DEF WorkInv, IdsUnique
    <3>2. D = {<<"done", r>>}
      BY <3>1
    <3>3. S = {} /\ Q = {}
      BY DEF WorkInv, IdsUnique
    <3> QED BY <3>2, <3>3
  <2> QED BY <2>1, <2>2, <2>3 DEF WorkInv, IdsHeld, Held
<1> HIDE DEF S, Q, D
<1>2. Cardinality(S \cup Q \cup D) = 1
  BY <1>1, FS_Singleton
<1> QED BY <1>2 DEF S, Q, D

\* reserve_work_id takes an id nobody holds.
LEMMA ReserveWork ==
    ASSUME TypeOK, WorkInv, NEW large \in BOOLEAN, Reserve(large)
    PROVE  WorkInv'
<1> DEFINE w == [id |-> nextId, large |-> large]
<1>1. /\ submit = <<>> /\ submit' = <<w>> /\ nextId' = nextId + 1
      /\ queue' = queue /\ done' = done
  BY DEF Reserve
<1>2. /\ nextId \in Nat /\ w.id = nextId
      /\ \A i \in DOMAIN queue : queue[i].id \in Nat
      /\ \A r \in done : r.id \in Nat
  <2>1. nextId \in 1 .. MaxWork + 1 /\ queue \in Seq(Item) /\ done \subseteq Record
    BY DEF TypeOK
  <2>2. Ids \subseteq Nat /\ nextId \in Nat
    BY <2>1, EpochFoldAssumption DEF Ids
  <2>3. \A i \in DOMAIN queue : queue[i] \in Item
    BY <2>1
  <2> QED BY <2>1, <2>2, <2>3 DEF Item, Record
<1> HIDE DEF w
<1>3. DOMAIN submit' = {1} /\ submit'[1] = w /\ Len(submit') = 1
  BY <1>1
<1>4. DOMAIN submit = {}
  BY <1>1
<1>5. OneSubmission'
  BY <1>3 DEF OneSubmission
<1>6. IdsReserved'
  BY <1>1, <1>2, <1>3 DEF WorkInv, IdsReserved
<1>7. IdsUnique'
  <2>1. \A i \in DOMAIN queue : queue[i].id # nextId
    BY <1>2 DEF WorkInv, IdsReserved
  <2>2. \A r \in done : r.id # nextId
    BY <1>2 DEF WorkInv, IdsReserved
  <2> QED BY <1>1, <1>2, <1>3, <2>1, <2>2 DEF WorkInv, IdsUnique
<1>8. IdsHeld'
  <2> SUFFICES ASSUME NEW id \in 1 .. nextId' - 1 PROVE Held(id)'
    BY DEF IdsHeld
  <2>1. CASE id = nextId
    BY <1>2, <1>3, <2>1 DEF Held
  <2>2. CASE id # nextId
    <3>1. id \in 1 .. nextId - 1
      BY <1>1, <1>2, <2>2
    <3>2. Held(id)
      BY <3>1 DEF WorkInv, IdsHeld
    <3> QED BY <1>1, <1>4, <3>2 DEF Held
  <2> QED BY <2>1, <2>2
<1> QED BY <1>5, <1>6, <1>7, <1>8 DEF WorkInv

\* The push moves the submitted item to the end of the queue.
LEMMA EnqueueWork ==
    ASSUME TypeOK, WorkInv, Enqueue
    PROVE  WorkInv'
<1> DEFINE w == submit[1]
<1>1. /\ submit # <<>> /\ submit' = <<>> /\ queue' = queue \o submit
      /\ nextId' = nextId /\ done' = done
  BY DEF Enqueue
<1>2. queue \in Seq(Item) /\ submit \in Seq(Item) /\ Len(submit) = 1
  <2>1. queue \in Seq(Item) /\ submit \in Seq(Item) /\ Len(submit) <= 1
    BY DEF TypeOK, WorkInv, OneSubmission
  <2>2. Len(submit) \in Nat \ {0}
    BY <1>1, <2>1, EmptySeq
  <2>3. \A k \in Nat \ {0} : k <= 1 => k = 1
    OBVIOUS
  <2> QED BY <2>1, <2>2, <2>3, Zenon
<1>3. DOMAIN submit = {1} /\ DOMAIN submit' = {} /\ Len(submit') = 0
  BY <1>1, <1>2
<1>4. /\ DOMAIN queue' = DOMAIN queue \cup {Len(queue) + 1}
      /\ Len(queue) + 1 \notin DOMAIN queue
      /\ queue'[Len(queue) + 1] = w
      /\ \A i \in DOMAIN queue : queue'[i] = queue[i]
  <2>1. /\ queue' \in Seq(Item) /\ Len(queue') = Len(queue) + 1
        /\ \A i \in 1 .. Len(queue) : queue'[i] = queue[i]
        /\ queue'[Len(queue) + 1] = submit[1]
    <3>1. /\ queue \o submit \in Seq(Item) /\ Len(queue \o submit) = Len(queue) + 1
          /\ \A i \in 1 .. Len(queue) + 1 : (queue \o submit)[i] =
                IF i <= Len(queue) THEN queue[i] ELSE submit[i - Len(queue)]
      BY <1>2, ConcatProperties
    <3>2. Len(queue) \in Nat /\ (Len(queue) + 1) - Len(queue) = 1
      BY <1>2
    <3>3. \A i \in 1 .. Len(queue) : (queue \o submit)[i] = queue[i]
      BY <3>1, <3>2
    <3>4. (queue \o submit)[Len(queue) + 1] = submit[1]
      BY <3>1, <3>2
    <3> QED BY <1>1, <3>1, <3>3, <3>4
  <2>2. DOMAIN queue = 1 .. Len(queue) /\ DOMAIN queue' = 1 .. Len(queue) + 1 /\ Len(queue) \in Nat
    BY <1>2, <2>1
  <2> QED BY <2>1, <2>2
<1>5. OneSubmission'
  BY <1>3 DEF OneSubmission
<1>6. IdsReserved'
  BY <1>1, <1>3, <1>4 DEF WorkInv, IdsReserved
<1>7. IdsUnique'
  BY <1>1, <1>3, <1>4 DEF WorkInv, IdsUnique
<1>8. IdsHeld'
  <2> SUFFICES ASSUME NEW id \in 1 .. nextId - 1 PROVE Held(id)'
    BY <1>1 DEF IdsHeld
  <2>1. Held(id)
    BY DEF WorkInv, IdsHeld
  <2> QED BY <1>1, <1>3, <1>4, <2>1 DEF Held
<1> QED BY <1>5, <1>6, <1>7, <1>8 DEF WorkInv

\* Processing moves the first item of the queue to the results.
LEMMA ProcessWorkWork ==
    ASSUME TypeOK, WorkInv, ProcessWork
    PROVE  WorkInv'
<1> DEFINE w == Head(queue)
           r == [id |-> w.id, large |-> w.large, result |-> TRUE]
<1>1. /\ queue # <<>> /\ queue' = Tail(queue) /\ done' = done \cup {r}
      /\ nextId' = nextId /\ submit' = submit
  BY DEF ProcessWork, WorkReady, Complete
<1>2. queue \in Seq(Item)
  BY DEF TypeOK
<1>3. /\ 1 \in DOMAIN queue /\ queue[1] = w
      /\ DOMAIN queue' \subseteq Nat
      /\ \A i \in DOMAIN queue' : i + 1 \in DOMAIN queue /\ queue'[i] = queue[i + 1]
      /\ \A i \in DOMAIN queue : i # 1 => i - 1 \in DOMAIN queue' /\ queue'[i - 1] = queue[i]
  BY <1>1, <1>2
<1>4. /\ \A i \in DOMAIN queue' : i + 1 # 1
      /\ \A i, j \in DOMAIN queue' : i + 1 = j + 1 => i = j
  <2>1. DOMAIN queue' \subseteq Nat \ {0}
    BY <1>1, <1>2
  <2> QED BY <2>1
<1>5. r.id = queue[1].id
  BY <1>3
<1> HIDE DEF r, w
<1>6. OneSubmission'
  BY <1>1 DEF WorkInv, OneSubmission
<1>7. IdsReserved'
  BY <1>1, <1>3, <1>5 DEF WorkInv, IdsReserved
<1>8. IdsUnique'
  <2>1. \A i \in DOMAIN submit', j \in DOMAIN queue' : submit'[i].id # queue'[j].id
    BY <1>1, <1>3 DEF WorkInv, IdsUnique
  <2>2. \A i \in DOMAIN submit', s \in done' : submit'[i].id # s.id
    BY <1>1, <1>3, <1>5 DEF WorkInv, IdsUnique
  <2>3. \A i \in DOMAIN queue' : queue'[i].id # r.id
    BY <1>3, <1>4, <1>5 DEF WorkInv, IdsUnique
  <2>4. \A i \in DOMAIN queue', s \in done' : queue'[i].id # s.id
    BY <1>1, <1>3, <2>3 DEF WorkInv, IdsUnique
  <2>5. \A i, j \in DOMAIN queue' : queue'[i].id = queue'[j].id => i = j
    BY <1>3, <1>4 DEF WorkInv, IdsUnique
  <2>6. \A s, t \in done' : s.id = t.id => s = t
    BY <1>1, <1>3, <1>5 DEF WorkInv, IdsUnique
  <2> QED BY <2>1, <2>2, <2>4, <2>5, <2>6 DEF IdsUnique
<1>9. IdsHeld'
  <2> SUFFICES ASSUME NEW id \in 1 .. nextId - 1 PROVE Held(id)'
    BY <1>1 DEF IdsHeld
  <2>1. Held(id)
    BY DEF WorkInv, IdsHeld
  <2>2. CASE \E i \in DOMAIN queue : queue[i].id = id
    <3> PICK i \in DOMAIN queue : queue[i].id = id
      BY <2>2
    <3>1. CASE i = 1
      BY <1>1, <1>5, <3>1 DEF Held
    <3>2. CASE i # 1
      BY <1>3, <3>2 DEF Held
    <3> QED BY <3>1, <3>2
  <2> QED BY <1>1, <2>1, <2>2 DEF Held
<1> QED BY <1>6, <1>7, <1>8, <1>9 DEF WorkInv

\* Whatever the explorer and the main thread interleave, an id that was handed
\* out is with the explorer, in the queue or among the results, in one of them
\* only and once (reserve_work_id, g_work_mutex, g_work_done).
THEOREM WorkNeverLostThm == Spec => []WorkNeverLost
<1>1. Init => TypeOK /\ WorkInv
  <2> SUFFICES ASSUME Init PROVE WorkInv
    BY InitType
  <2>1. /\ Len(submit) = 0 /\ DOMAIN submit = {} /\ DOMAIN queue = {} /\ done = {}
        /\ nextId = 1
    BY DEF Init
  <2>2. 1 .. nextId - 1 = {}
    BY <2>1
  <2> QED BY <2>1, <2>2 DEF WorkInv, OneSubmission, IdsReserved, IdsUnique, IdsHeld
<1>2. TypeOK /\ WorkInv /\ [Next]_vars => TypeOK' /\ WorkInv'
  <2> SUFFICES ASSUME TypeOK, WorkInv, [Next]_vars PROVE WorkInv'
    BY NextType
  <2>1. CASE ProcessWork \/ Enqueue \/ \E large \in BOOLEAN : Reserve(large)
    BY <2>1, ReserveWork, EnqueueWork, ProcessWorkWork
  <2>2. CASE ~(ProcessWork \/ Enqueue \/ \E large \in BOOLEAN : Reserve(large))
    <3>1. UNCHANGED <<nextId, submit, queue, done>>
      BY <2>2, SendsOnly DEF Next, MainThread, ReceiveDecree, ReceiveHeader, Tick, Pulse, Audit, NoWork, vars
    <3> QED
      BY <3>1 DEF WorkInv, OneSubmission, IdsReserved, IdsUnique, IdsHeld, Held
  <2> QED BY <2>1, <2>2
<1>3. TypeOK /\ WorkInv => WorkNeverLost
  BY WorkInvImplies
<1> QED BY <1>1, <1>2, <1>3, PTL DEF Spec
=============================================================================
