------------------------------- MODULE Ledger -------------------------------
(***************************************************************************)
(* The ledger over the state vault: decree entries folded one by one       *)
(* (fold.hpp, nivc.hpp, epoch.hpp), transactions executed in batches       *)
(* (mempool.hpp), roots committed to the control sector (vault.hpp), and   *)
(* the process crashing at any point and opening the vault again.          *)
(*                                                                         *)
(* The slots are a shared mapping: they survive the process, whereas the   *)
(* slot counter, the working root and the queue are lost unless committed. *)
(***************************************************************************)
EXTENDS Smt, Transfer, FiniteSets, FiniteSetsExt, SequencesExt, Functions

CONSTANTS
    Genesis,    \* the accounts the run starts with: a sequence <<key, magnitude>>
    Entry,      \* decree entries: [tx, status, pt]
    Tx,         \* plain transactions [sender, recipient, amount, fee, nonce]
    TxRank(_),  \* tx_less: the position of a transaction in the total order
    RingSize,   \* roots the control sector keeps (48)
    MaxFolds,   \* bound: entries and transactions handled in a lifetime
    MaxCommits, \* bound: fork_epoch calls and restarts
    MaxQueue    \* bound: queued transactions

Payment == [sender : Key, recipient : Key, amount : 0 .. U128 - 1, fee : 0 .. U128 - 1,
            nonce : 0 .. NonceMod - 1]

\* BalCap is BAL_MAX + 1; the genesis accounts have leaves of their own.
ASSUME LedgerAssumption ==
    /\ IsFiniteSet(Key) /\ Key # {}
    /\ BalCap = BalMax + 1
    /\ Tx \subseteq Payment /\ \A e \in Entry : e.tx \in Payment
    /\ Genesis \in Seq(Key \X (0 .. BalMax))
    /\ \A i, j \in DOMAIN Genesis : i # j =>
         \E l \in 0 .. Depth - 1 : ~(Bit(Genesis[i][1], l) = 1 <=> Bit(Genesis[j][1], l) = 1)
    /\ RingSize \in Nat \ {0} /\ MaxFolds \in Nat /\ MaxCommits \in Nat

VARIABLES
    v,          \* the mapped slots, tail_slot_, segs_.size()
    ctl,        \* ctls_: the control sector in memory
    disk,       \* control.bin
    root,       \* the working root of the fold
    acc,        \* nivc::Accumulator: [digest, count, pc]
    queue,      \* Mempool::queue_
    log,        \* history: [who, nonce, kind, cost] of every write behind `root'
    savedLog,   \* history: the log at the last commit that reached the disk
    budget      \* [folds, commits]: the bounds used up

vars == <<v, ctl, disk, root, acc, queue, log, savedLog, budget>>

Tree(r)     == [k \in Key |-> lookup_account(v, r, k)]
accounts    == Tree(root)

\* Mutant: the oldest root of the ring is opened.
latest_root_First(c) == IF c.roots = << >> THEN NoHandle ELSE c.roots[1]

latest_root(c) == IF c.roots = << >> THEN NoHandle ELSE Last(c.roots)

Closed == [digest |-> << >>, count |-> 0, pc |-> "CLOSE"]

Written(s, g) ==
    LET x == set_account(s.v, s.root, g[1], Account(g[2], 0))
    IN  [v |-> x.v, root |-> x.root]

\* The vault after genesis: one set_account per account.
Born ==
    LET at[n \in 0 .. Len(Genesis)] ==
          IF n = 0 THEN [v |-> [mem |-> [a \in {} |-> 0], tail |-> 0, nseg |-> 1],
                         root |-> NoHandle]
          ELSE Written(at[n - 1], Genesis[n])
    IN  at[Len(Genesis)]

Init ==
    /\ v = Born.v
    /\ root = Born.root
    /\ disk = [nseg |-> Born.v.nseg, tail |-> Born.v.tail, roots |-> <<Born.root>>]
    /\ ctl = disk
    /\ acc = Closed
    /\ queue = << >>
    /\ log = << >> /\ savedLog = << >>
    /\ budget = [folds |-> 0, commits |-> 0]

---------------------------------------------------------------------------
\* The writes of an accepted transaction: the sender, then the recipient.
\* A fault on the second write leaves the first in place.
Settle(V, r, tx, s, q) ==
    LET Kept(x)   == [v |-> x.v, root |-> x.root, ok |-> x.res # "fault"]
        Credit(x) == IF x.res = "fault" \/ tx.sender = tx.recipient THEN Kept(x)
                     ELSE Kept(set_account(x.v, x.root, tx.recipient, q))
    IN  Credit(set_account(V, r, tx.sender, s))

\* What an outcome takes out of circulation: the fee, a penalty, or all of a
\* payment whose recipient could not be written.
Taken(tx, kind, cost) == [who |-> tx.sender, nonce |-> tx.nonce, kind |-> kind, cost |-> cost]
Settled(tx, ok) == Taken(tx, IF ok THEN "exec" ELSE "lost",
                         IF ok THEN tx.fee ELSE tx.amount + tx.fee)

Rules(V, r, tx) ==
    apply_rules(tx, [sender |-> lookup_account(V, r, tx.sender),
                     recipient |-> lookup_account(V, r, tx.recipient),
                     self |-> tx.sender = tx.recipient])

\* fold::f_exec: the verdict, the vault and the root it leaves.
f_exec(e) ==
    LET tx   == e.tx
        s    == lookup_account(v, root, tx.sender)
        cost == tx.amount + tx.fee
        same(verdict) == [verdict |-> verdict, v |-> v, root |-> root, log |-> log]
        Skipped(x) ==
          IF x.res = "fault" THEN same("REJECT_INSOLVENT")
          ELSE [verdict |-> "OK_SKIP", v |-> x.v, root |-> x.root,
                log |-> Append(log, Taken(tx, "skip", s.mag - skip_burn(tx, s).mag))]
        Paid(x) == [verdict |-> IF x.ok THEN "OK_EXEC" ELSE "REJECT_INSOLVENT",
                    v |-> x.v, root |-> x.root, log |-> Append(log, Settled(tx, x.ok))]
        rule == Rules(v, root, tx)
    IN  CASE e.status = "PAD" -> same("PAD_NEUTRAL")
          [] e.status # "PAD" /\ e.pt # pt_hash_of(tx) -> same("REJECT_BINDING")
          [] OTHER ->
             IF s.absent \/ ~NonceOk(tx, s) THEN same("REJECT_NONCE")
             ELSE IF cost >= U128 THEN same("REJECT_INSOLVENT")
             ELSE IF ~Solvent(tx, s)
             THEN IF e.status = "SKIP_USER"
                  THEN Skipped(set_account(v, root, tx.sender, skip_burn(tx, s)))
                  ELSE same("REJECT_INSOLVENT")
             ELSE IF rule.err # "OK" THEN same("REJECT_INSOLVENT")
             ELSE Paid(Settle(v, root, tx, rule.sender, rule.recipient))

\* nivc::fold_head at the start of epoch::run.
FoldHead ==
    /\ acc.pc = "CLOSE"
    /\ budget.folds < MaxFolds
    /\ acc' = [digest |-> <<"head">>, count |-> 0, pc |-> "EXEC"]
    /\ UNCHANGED <<v, ctl, disk, root, queue, log, savedLog, budget>>

\* nivc::fold_step on one entry.
FoldStep(e) ==
    /\ acc.pc = "EXEC"
    /\ budget.folds < MaxFolds
    /\ budget' = [budget EXCEPT !.folds = @ + 1]
    /\ \E x \in {f_exec(e)} :
         /\ v' = x.v /\ root' = x.root
         /\ acc' = IF x.verdict \in {"OK_EXEC", "OK_SKIP"}
                   THEN [acc EXCEPT !.digest = Append(@, e.pt), !.count = @ + 1] ELSE acc
         /\ log' = x.log
    /\ UNCHANGED <<ctl, disk, queue, savedLog>>

\* nivc::fold_close at the end of epoch::run.
FoldClose ==
    /\ acc.pc = "EXEC"
    /\ acc' = [acc EXCEPT !.digest = Append(@, acc.count), !.pc = "CLOSE"]
    /\ UNCHANGED <<v, ctl, disk, root, queue, log, savedLog, budget>>

\* Mempool::push.
Push(tx) ==
    /\ Len(queue) < MaxQueue
    /\ budget.folds < MaxFolds
    /\ budget' = [budget EXCEPT !.folds = @ + 1]
    /\ queue' = Append(queue, tx)
    /\ UNCHANGED <<v, ctl, disk, root, acc, log, savedLog>>

\* One round of the loop of execute_batch.
BatchStep(s, tx) ==
    LET rule == Rules(s.v, s.root, tx)
        Done(x) == [v |-> x.v, root |-> x.root, log |-> Append(s.log, Settled(tx, x.ok))]
    IN  IF rule.err # "OK" THEN s
        ELSE Done(Settle(s.v, s.root, tx, rule.sender, rule.recipient))

\* The loop over the sorted queue.
Batch(s, txs) ==
    LET after[n \in 0 .. Len(txs)] == IF n = 0 THEN s ELSE BatchStep(after[n - 1], txs[n])
    IN  after[Len(txs)]

\* sort_deterministic: tx_less compares every field, so that only equal
\* transactions may trade places.
Sorted(txs, p) ==
    \A i, j \in DOMAIN txs : i < j => TxRank(txs[p[i]]) <= TxRank(txs[p[j]])

\* Mempool::execute_batch between two epochs: sort, execute, clear.
ExecuteBatch ==
    /\ acc.pc = "CLOSE" /\ queue # << >>
    /\ \E p \in {q \in Bijection(DOMAIN queue, DOMAIN queue) : Sorted(queue, q)} :
         \E end \in {Batch([v |-> v, root |-> root, log |-> log],
                          [i \in DOMAIN queue |-> queue[p[i]]])} :
           v' = end.v /\ root' = end.root /\ log' = end.log
    /\ queue' = << >>
    /\ UNCHANGED <<ctl, disk, acc, savedLog, budget>>

---------------------------------------------------------------------------
\* Mutant: the slot counter of the previous commit is written.
Ring_OldTail(c) ==
    [nseg  |-> v.nseg, tail |-> c.tail,
     roots |-> IF Len(c.roots) < RingSize THEN Append(c.roots, root)
               ELSE Append(Tail(c.roots), root)]

\* commit_control: the new root enters the ring, the oldest leaves it.
Ring(c) ==
    [nseg  |-> v.nseg, tail |-> v.tail,
     roots |-> IF Len(c.roots) < RingSize THEN Append(c.roots, root)
               ELSE Append(Tail(c.roots), root)]

\* Vault::fork_epoch: the control sector is written beside the old one and
\* renamed over it; the write may fail, and memory is then ahead of the disk.
ForkEpoch ==
    /\ acc.pc = "CLOSE"
    /\ budget.commits < MaxCommits
    /\ budget' = [budget EXCEPT !.commits = @ + 1]
    /\ ctl' = Ring(ctl)
    /\ \/ disk' = ctl' /\ savedLog' = log
       \/ UNCHANGED <<disk, savedLog>>
    /\ UNCHANGED <<v, root, acc, queue, log>>

\* The process dies and opens the vault again.
Reopen ==
    /\ budget.commits < MaxCommits
    /\ budget' = [folds |-> 0, commits |-> budget.commits + 1]
    /\ ctl' = disk
    /\ v' = [mem |-> v.mem, tail |-> disk.tail, nseg |-> disk.nseg]
    /\ root' = latest_root(disk)
    /\ acc' = Closed /\ queue' = << >> /\ log' = savedLog
    /\ UNCHANGED <<disk, savedLog>>

Next ==
    \/ FoldHead \/ FoldClose
    \/ \E e \in Entry : FoldStep(e)
    \/ \E tx \in Tx : Push(tx)
    \/ ExecuteBatch
    \/ ForkEpoch
    \/ Reopen

Spec == Init /\ [][Next]_vars

---------------------------------------------------------------------------
\* Every variable has its type, and no account has left its representation.
TypeOK ==
    /\ v.tail \in Nat /\ v.nseg \in Nat
    /\ root = NoHandle \/ <<root[2], root[3]>> \in DOMAIN v.mem
    /\ acc.pc \in {"EXEC", "CLOSE"}
    /\ acc.count \in Nat
    /\ queue \in Seq(Tx)
    /\ \A k \in Key : accounts[k] \in State

Supply(m) == SumFunction([k \in DOMAIN m |-> m[k].mag])
Costs(l)  == SumFunction([i \in DOMAIN l |-> l[i].cost])

\* Money is conserved: through folds, batches, penalties, faults on the
\* second write, commits and restarts, the balances behind the working root
\* and what the operations behind it took add up to the genesis supply, so
\* nothing is ever created or taken twice.
Conserved ==
    Supply(accounts) + Costs(log) = SumFunction([i \in DOMAIN Genesis |-> Genesis[i][2]])

\* A transaction is settled once: in the history behind the working root,
\* from the fold and from batches alike and through restarts, no sender and
\* nonce occur twice; penalties, which consume no nonce, are exempt.
ReplayOnce ==
    \A i, j \in DOMAIN log :
        /\ log[i].who = log[j].who /\ log[i].nonce = log[j].nonce
        /\ log[i].kind # "skip" /\ log[j].kind # "skip"
        => i = j

\* Committed roots are immutable: whatever is written afterwards, by this
\* process or by one that reopened the vault and reuses slots, every root in
\* the control sector on disk keeps meaning the accounts it meant.
CommittedImmutable ==
    [][\A r \in Range(disk.roots) \cap Range(disk'.roots) : Tree(r)' = Tree(r)]_vars

\* Opening proofs decide: the opening of a key against the working root is
\* accepted for the account the tree holds and for no other.  Nothing proves
\* absence: a claim of NoAccount is refused, also where there is no account.
OpeningsDecide ==
    \A k \in Key : \A st \in Range(accounts) \cup {NoAccount} \cup {Account(m, 0) : m \in 0 .. 1} :
        verify_opening(entry_hash(v, root, Depth), k, st, open(v, root, k))
            <=> (~accounts[k].absent /\ st = accounts[k])

\* The vault is the abstract account map: what the tree holds behind the
\* working root is its content, the last root on disk its saved copy.
Map == INSTANCE AccountMap WITH
          None  <- NoAccount,
          State <- {s \in State : ~s.absent},
          cur   <- accounts,
          saved <- Tree(latest_root(disk))
VaultIsMap == Map!Spec
=============================================================================
