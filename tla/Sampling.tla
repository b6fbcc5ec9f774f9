------------------------------ MODULE Sampling -----------------------------
(***************************************************************************)
(* Weights and samples: the snowball-family automaton (consensus.hpp), the *)
(* transport's sampler, classes and scores (g1net.hpp) and the bonds that  *)
(* give weight (econ/stake.hpp), as functions of their inputs.  Digests    *)
(* are numbers, ordered as their bytes are.                                *)
(***************************************************************************)
EXTENDS Arrays, FiniteSets, FiniteSetsExt

CONSTANTS
    K_BASE, K_ESCALATED, K_ESC_AT_ROUND,
    PHI_FLOOR_BP, ALPHA_BP, BETA_CONFIRMATIONS, STALL_LIMIT, GRACE_MS,
    BP,                 \* 10000
    DRAW_ATTEMPT_CAP,
    Word(_),            \* the first word of the digest of a statement
    EMA_SCALE, EMA_LAM_N, TH_CORE, TH_GRAY,
    MinBond, Lag, Unbonding, ClusterCap, MaxAdversarial

Total(w, s) == Run(LAMBDA a, i : a + w[i], 0, s)
Cum(w) == Array(Len(w), LAMBDA i : Total(w, UpTo(i)))
\* upper_bound over the cumulative weights: the first above the pick.
Row(w, p) == 1 + Cardinality({i \in DOMAIN w : Cum(w)[i] <= p})

---------------------------------------------------------------------------
\* The automaton.  A snapshot has the weights w, their total, a root and the
\* row of the node itself; a vote its voter, epoch, root, conflict, round and
\* preference.
drbg_word(seed, ctr) == Word(seed \o <<ctr>>)
SampleSize(round) == IF round >= K_ESC_AT_ROUND THEN K_ESCALATED ELSE K_BASE

\* Mutant: the node may sample itself.
Eligible_Self(sn, sel, i) == i \notin Range(sel)

Eligible(sn, sel, i) == i # sn.self /\ i \notin Range(sel)

\* Rejection sampling: at most DRAW_ATTEMPT_CAP draws for k distinct others.
Sample(sn, seed, k) ==
    Run(LAMBDA sel, a : LET i == Row(sn.w, drbg_word(seed, a - 1) % sn.total)
                        IN  IF Len(sel) < k /\ Eligible(sn, sel, i) THEN Append(sel, i) ELSE sel,
        <<>>, UpTo(DRAW_ATTEMPT_CAP))

\* The first vote of each sampled row counts, if it is for this round.
Counted(sn, epoch, revoked, conflict, round, pool, sel) ==
    LET first(i) == CHOOSE q \in DOMAIN pool : pool[q].voter = i /\ \A p \in 1 .. q - 1 : pool[p].voter # i
        votes == [i \in {j \in Range(sel) : \E q \in DOMAIN pool : pool[q].voter = j} |-> pool[first(i)]]
    IN  {votes[i] : i \in {j \in DOMAIN votes :
          /\ votes[j].epoch = epoch /\ votes[j].root = sn.root
          /\ votes[j].conflict = conflict /\ votes[j].round = round
          /\ j \notin revoked}}
WeightOf(sn, vs) == FoldSet(LAMBDA v, a : a + sn.w[v.voter], 0, vs)
For(vs, p) == {v \in vs : v.pref = p}

\* The heaviest preference, the least of them on a tie.
Lead(sn, vs) ==
    CHOOSE p \in {v.pref : v \in vs} :
      \A q \in {v.pref : v \in vs} \ {p} :
        \/ WeightOf(sn, For(vs, p)) > WeightOf(sn, For(vs, q))
        \/ WeightOf(sn, For(vs, p)) = WeightOf(sn, For(vs, q)) /\ p < q

Stalled(cv) == [cv EXCEPT !.confidence = 0, !.stall = @ + 1]
Backed(cv, p) ==
    [cv EXCEPT !.stall = 0, !.pref = p, !.confidence = IF p = cv.pref THEN @ + 1 ELSE 1]
Closing(cv) ==
    [cv EXCEPT !.state = IF cv.confidence >= BETA_CONFIRMATIONS THEN "Finalized"
                         ELSE IF cv.stall >= STALL_LIMIT THEN "Suspended" ELSE @]

\* What the sampled votes say: nothing below the floor or the quorum.
Verdict(sn, k, vs) ==
    LET S == WeightOf(sn, vs)
    IN  IF S * BP * Len(sn.w) < PHI_FLOOR_BP * k * sn.total THEN <<>>
        ELSE IF WeightOf(sn, For(vs, Lead(sn, vs))) * BP < ALPHA_BP * S THEN <<>>
        ELSE <<Lead(sn, vs)>>

\* tick: nothing once decided; without weight the round stalls unsampled.
tick(sn, epoch, revoked, cv, beacon, pool) ==
    LET r    == cv.rounds + 1
        k    == SampleSize(r)
        seed == <<epoch, sn.root, beacon, cv.conflict, r, sn.self>>
        vs   == Counted(sn, epoch, revoked, cv.conflict, r, pool, Sample(sn, seed, k))
        c    == [cv EXCEPT !.rounds = r]
        v    == Verdict(sn, k, vs)
    IN  IF cv.state # "Active" THEN cv
        ELSE Closing(IF sn.total = 0 \/ v = <<>> THEN Stalled(c) ELSE Backed(c, v[1]))

\* resolve_breaker: the greatest digest with the beacon wins, the least
\* candidate on a tie; the grace is drawn from beacon and conflict.
resolve_breaker(frozen, beacon, conflict) ==
    LET h(x) == Word(<<beacon, x>>)
        best == Run(LAMBDA b, x : IF h(x) > h(b) \/ (h(x) = h(b) /\ x < b) THEN x ELSE b, frozen[1], Tail(frozen))
    IN  [winner |-> best, grace |-> h(conflict) % GRACE_MS]

---------------------------------------------------------------------------
\* g1net.hpp.
P3(l, r) == Word(<<l, r>>)
sampler_seed(root, beacon, cid, acct, round) == P3(P3(P3(P3(root, beacon), cid), acct), round)
weighted_draw(seed, w, total, k) ==
    LET sel == P3(seed, k) % total
        hit == {i \in DOMAIN w : sel < Cum(w)[i]}
    IN  IF hit = {} THEN Len(w) ELSE Min(hit)
account_id(pk) == P3(pk, 0)
may_rebind(last, epoch) == epoch >= last + 1
\* Size caps in units of 1024 bytes; the last class is pulled, never pushed.
TAX == <<[cap |-> 4, pull |-> FALSE], [cap |-> 2, pull |-> FALSE], [cap |-> 64, pull |-> FALSE], [cap |-> 128, pull |-> TRUE]>>
admit(c, size, pull) == size <= TAX[c].cap /\ (TAX[c].pull => pull)
ema_tick(s, responded) ==
    LET up == s + ((EMA_SCALE - s) * (EMA_SCALE - EMA_LAM_N)) \div EMA_SCALE
    IN  IF ~responded THEN (s * EMA_LAM_N) \div EMA_SCALE
        ELSE IF up > EMA_SCALE THEN EMA_SCALE ELSE up
classify(s) == IF s >= TH_CORE THEN 2 ELSE IF s >= TH_GRAY THEN 1 ELSE 0

---------------------------------------------------------------------------
\* econ/stake.hpp.  A registry maps members to their bonds.
deposit(reg, m, amount, epoch, cluster) ==
    IF amount < MinBond THEN reg
    ELSE [reg EXCEPT ![m] = Append(@, [amount |-> amount, since |-> epoch, unbond |-> 0,
                                       state |-> "BONDING", cluster |-> cluster])]
Aged(b, epoch) ==
    LET state == IF b.state = "BONDING" /\ epoch >= b.since + Lag THEN "ACTIVE" ELSE b.state
    IN  [b EXCEPT !.state = IF state = "UNBONDING" /\ epoch >= b.unbond + Unbonding THEN "WITHDRAWN" ELSE state]
tick_epoch(reg, epoch) == [m \in DOMAIN reg |-> [i \in DOMAIN reg[m] |-> Aged(reg[m][i], epoch)]]
request_unbond(reg, m, epoch) ==
    [reg EXCEPT ![m] = [i \in DOMAIN @ |-> IF @[i].state = "ACTIVE"
                                           THEN [@[i] EXCEPT !.state = "UNBONDING", !.unbond = epoch] ELSE @[i]]]
AtStake == {"BONDING", "ACTIVE", "UNBONDING"}
Amount(bs, states) == Run(LAMBDA a, b : IF b.state \in states THEN a + b.amount ELSE a, 0, bs)
slash_bonds(reg, m) ==
    [reg EXCEPT ![m] = [i \in DOMAIN @ |-> IF @[i].state \in AtStake
                                           THEN [@[i] EXCEPT !.state = "SLASHED", !.amount = 0] ELSE @[i]]]
active_weight_of(reg, m) == Amount(reg[m], {"ACTIVE"})
total_active(reg) == FoldSet(LAMBDA m, a : a + active_weight_of(reg, m), 0, DOMAIN reg)
cluster_of(reg, m) == IF reg[m] = <<>> THEN 0 ELSE reg[m][1].cluster
\* A cluster whose total was never set counts the member alone.
cluster_capped_weight(reg, totals, m) ==
    LET raw == active_weight_of(reg, m)
        c   == cluster_of(reg, m)
        sum == IF c \in DOMAIN totals THEN totals[c] ELSE raw
    IN  IF sum <= ClusterCap THEN raw ELSE (raw * ClusterCap) \div sum
adversarial_check(total, adverse) ==
    IF total # 0 /\ (adverse * BP) \div total >= MaxAdversarial THEN "HALT" ELSE "SAFE"
primary_state(reg, m) == IF reg[m] = <<>> THEN "BONDING" ELSE reg[m][1].state

---------------------------------------------------------------------------
\* Reference: the longest run of equal verdicts that ends the rounds.
RunOf(vs, v) == IF \A i \in DOMAIN vs : vs[i] = v THEN Len(vs)
                ELSE Len(vs) - Max({i \in DOMAIN vs : vs[i] # v})

\* Rounds of the automaton decide as the run of verdicts that ends them: it
\* finalises what the last BETA rounds all backed, suspends after STALL_LIMIT
\* empty ones, does neither before, and never again; a sample is of distinct
\* others and short only when the draws ran out; and a committee too small
\* for the floor never backs anything.
AutomatonExact(sn, revoked, cv0, pools, beacon) ==
    LET cvs == Run(LAMBDA q, i : Append(q, tick(sn, 1, revoked, Last(q), beacon, pools[i])), <<cv0>>, UpTo(Len(pools)))
        sample(r) == Sample(sn, <<1, sn.root, beacon, cv0.conflict, r, sn.self>>, SampleSize(r))
        vs  == Array(Len(pools), LAMBDA r : IF sn.total = 0 THEN <<>>
                 ELSE Verdict(sn, SampleSize(r), Counted(sn, 1, revoked, cv0.conflict, r, pools[r], sample(r))))
        upto(r) == SubSeq(vs, 1, r)
        final(r) == vs[r] # <<>> /\ RunOf(upto(r), vs[r]) >= BETA_CONFIRMATIONS
        stuck(r) == vs[r] = <<>> /\ RunOf(upto(r), <<>>) >= STALL_LIMIT
        ends == {r \in DOMAIN vs : final(r) \/ stuck(r)}
        end  == IF ends = {} THEN Len(vs) ELSE Min(ends)
        cv   == Last(cvs)
    IN  /\ cv.rounds = end
        /\ cv.state = IF ends = {} THEN "Active" ELSE IF final(end) THEN "Finalized" ELSE "Suspended"
        /\ final(end) => cv.pref = vs[end][1]
        /\ sn.total > 0 => \A r \in 1 .. end :
             /\ sn.self \notin Range(sample(r)) /\ Len(sample(r)) <= SampleSize(r)
             /\ \A i \in Range(sample(r)) : sn.w[i] > 0
        /\ PHI_FLOOR_BP * K_BASE >= BP * Len(sn.w) /\ sn.total > 0 /\ sn.w[sn.self] > 0
             => \A r \in 1 .. end : vs[r] = <<>>

\* The breaker's winner is the same for every order of the candidates.
BreakerOrderless(a, b, c, beacon, conflict) ==
    LET one == resolve_breaker(<<a, b, c>>, beacon, conflict)
    IN  /\ one = resolve_breaker(<<c, a, b>>, beacon, conflict)
        /\ one = resolve_breaker(<<b, c, a>>, beacon, conflict)
        /\ one = resolve_breaker(<<c, b, a>>, beacon, conflict)

\* The transport: draws fall on weight, scores stay on the scale and converge
\* whatever they start from, and bulk is never pushed.
TransportExact(w, k, s) ==
    LET seed == sampler_seed(3, 5, k, 2, 7)
        i    == weighted_draw(seed, w, Last(Cum(w)), k)
        ups  == Run(LAMBDA x, n : ema_tick(x, TRUE), s, UpTo(60))
        down == Run(LAMBDA x, n : ema_tick(x, FALSE), s, UpTo(60))
    IN  /\ w[i] > 0 /\ i = Row(w, P3(seed, k) % Last(Cum(w)))
        /\ ups \in s .. EMA_SCALE /\ classify(ups) = 2
        /\ down \in 0 .. s /\ classify(down) = 0
        /\ \A c \in 1 .. 4, n \in {1, 3, 64, 65, 128, 129}, pull \in BOOLEAN :
             admit(c, n, pull) => n <= 128 /\ (n > 64 => pull)
        /\ ~may_rebind(k, k) /\ may_rebind(k, k + 1)
        /\ account_id(k) = P3(k, 0)

\* After any operations in order of epoch: no stake appears or disappears
\* but what is deposited or burned, a bond weighs only from its activation
\* to its unbonding, a withdrawn one cannot be burned, a slashed member
\* weighs nothing, and a cluster weighs at most its cap.
StakeExact(ops) ==
    LET ms == {1, 2}
        step(q, o) ==
          LET e == q.epoch + 1
              reg == CASE o.op = "deposit" -> deposit(q.reg, o.m, o.n, e, 1)
                       [] o.op = "unbond"  -> request_unbond(q.reg, o.m, e)
                       [] o.op = "slash"   -> slash_bonds(q.reg, o.m)
                       [] OTHER            -> q.reg
          IN  [reg |-> tick_epoch(reg, e), epoch |-> e,
               in  |-> q.in + (IF o.op = "deposit" /\ o.n >= MinBond THEN o.n ELSE 0),
               out |-> q.out + (IF o.op = "slash" THEN Amount(q.reg[o.m], AtStake) ELSE 0)]
        end == Run(step, [reg |-> [m \in ms |-> <<>>], epoch |-> 0, in |-> 0, out |-> 0], ops)
        all == Amount(end.reg[1] \o end.reg[2], AtStake \cup {"SLASHED", "WITHDRAWN"})
        totals == [c \in {1} |-> total_active(end.reg)]
        last == Last(ops)
    IN  /\ end.in = all + end.out
        /\ \A m \in ms, s \in {"ACTIVE", "WITHDRAWN"} : \A i \in DOMAIN end.reg[m] :
             LET b == end.reg[m][i]
             IN  b.state = s => /\ end.epoch >= b.since + Lag
                                /\ s = "WITHDRAWN" => end.epoch >= b.unbond + Unbonding /\ b.unbond >= b.since + Lag
        /\ last.op = "slash" => active_weight_of(end.reg, last.m) = 0
        /\ cluster_capped_weight(end.reg, totals, 1) + cluster_capped_weight(end.reg, totals, 2) <= ClusterCap
        /\ \A m \in ms : adversarial_check(total_active(end.reg), active_weight_of(end.reg, m)) = "HALT"
             <=> total_active(end.reg) > 0 /\ BP * active_weight_of(end.reg, m) >= MaxAdversarial * total_active(end.reg)
        /\ \A m \in ms : primary_state(end.reg, m) = "ACTIVE" => total_active(end.reg) >= MinBond
=============================================================================
