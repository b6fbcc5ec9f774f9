# Verification of the HSMA epoch node

This directory models HSMA-Core in TLA+: the protocols of a node, its ledger and
its state vault as state machines, and the cryptographic, numeric and wire
algorithms they use as operators. TLC checks the models on small instances, and
TLAPS proves every safety and action property of the state machines that a
passing run checks, for every value of the constants. File paths below are relative to the
repository root; `epoch_node.cpp` is `tools/epoch_node.cpp`, headers are under
`include/hsma/`.

## 1. The system

An HSMA node (`epoch_node.cpp`) is one process with three threads: the main
loop, the HTTP explorer and a heartbeat watchdog. Nodes hold TCP connections
(`--seed` arguments, `accept`, dials of announced addresses, a redial when no
peer is left) and exchange typed messages. The main loop alternates between `select` over its connections and a
one-second tick.

| Component | State | Operations | Module |
|---|---|---|---|
| Ordering ceremony | `g_mempool`, `g_dec_shares`, `g_thr_shares`, `g_order_locks`, `g_order_root`, `g_order_committed`, `g_pool_epoch`, `g_prev_beacon` | 0x07 envelope, 0x0B/0x0C share sync, 0x0D order signature, 0x09 announcements and dials, `try_decrypt_envelope`, `reset_epoch_ceremony` | `Ceremony` |
| Epoch machine | `current_epoch`, `decree_count`, `g_entry_seq`, `digest_chain`, `seen_fps`, `g_acc`, `g_dkg` | `handle_decree`, epoch close, `rotate_dkg`, pulse, `DECREE_ENTRY`, `EPOCH_HEADER` | `EpochFold` |
| Work queue | `g_work_queue`, `g_work_done`, `g_next_work_id`, `g_work_mutex` | submit (explorer thread), one item per tick (main thread) | `EpochFold` |
| Claim audit | `g_epoch_claims`, `g_quorum_audited_this_pool`, `g_verifier_receipt` | quorum audit, rotating deep audit, `verify_pool` | `EpochFold` |
| Consensus loop | `g_mssc`, `g_fd_weights`, `g_fd_member`, `g_peer_prefs`, `g_signed_prefs`, pending vote batches | vote receipt, `tick`, `breaker_tick`, join, announce, redial, leave, slash | `Fleet` |
| Stake, uptime, rate limits | `g_stake_reg`, `g_last_receipt`, `g_peer_bans`, `peer_window_map` | bond, slash, receipts, bans, forced close | `Fleet`, `Sampling` |
| Ledger | accounts behind a root, `Mempool::queue_`, `nivc::Accumulator` | `apply_rules`, `f_exec`, `fold_step`, `execute_batch`, constraint layer | `Ledger`, `Transfer` |
| State vault | segments, `tail_slot_`, ring of roots, `control.bin` | `set_account`, `open`, `fork_epoch`, reopening | `Smt`, `Ledger`; promise: `AccountMap` |
| HTTP front ends | keys, rate window, work items, model registry | routes of `explorer.hpp` and `tools/api_server.cpp`, restart | `Explorer` |
| Wire formats, validator | byte streams, known peers | frames, votes, envelopes, batches, `tools/node.cpp` | `Wire`, `Envelopes` |
| Threshold cryptography | none that persists | pairing, sharing, blame, beacon, rotation | `Limbs`, `Curves`, `Pairing`, `Sharing`, `Envelopes` |
| Proof systems | none that persists | Poseidon, sum-check, commitments, folding, circuits | `Poseidon`, `Sumcheck`, `Folding`, `Circuits`, `EpochChain` |
| Useful work | none that persists | product proofs, attention, kernels | `Gemm`, `Kernels` |
| Sampling automaton, stake registry | confidence, stall, bonds | rounds, draws, deposits, unbonding, slashes | `Sampling` |

How they interact. A decrypted envelope is folded by `handle_decree`; so are wire
decrees, pulses and claims. `handle_decree` closes the epoch at `g_k_entries`
entries, and the close wipes the ceremony and the claim pool. It is called from
inside the loop over `g_mempool` that decrypts, and from inside the loop over
`g_work_queue`: both loops run over state their callee may reset. The explorer
thread touches only the work queue (under the mutex) and a status mirror. A vote
of a peer changes the weights the tick uses, and the epoch close wipes the votes.
Folded entries move money: `f_exec` writes accounts in the tree, whose root the
vault commits between epochs.

What is hard here: handlers that reset the state of their callers; broadcasts
that are sent once; connections that exist twice; counters reduced to a byte
against a window of the same size; flags that are raised once per pool; a process
that persists nothing of its protocols; state kept under descriptor numbers the
kernel reuses; a transfer of two writes of which the second may fail; a commit
file beside a mapping, and a process that dies between the two. `PROJECT.json` lists these hazards, each at its line with
the property that covers it, or the reason why none does yet.

## 2. Modules

### Ceremony

One node is one sequential process. The model has a set of nodes, connections
`<<dialer, acceptor, how>>` (`how` is `"seed"` or `"direct"`) with a FIFO in each
direction, and the per-node state of the table. An action is a whole handler,
with one exception: the loop over `try_decrypt_envelope` is unrolled into
`DecryptStep` actions. While it runs (`pc = "decrypt"`) the node handles nothing
else, as in the code; it is unrolled because a decryption may close the epoch and
empty the pool the loop runs over.

| Action | Code (`epoch_node.cpp`) |
|---|---|
| `EnterLoop` | boot: epoch 0 folded locally and closed, ceremony reset |
| `DialSeed`, `Reconnect`, `Accept`, `Disconnect` | seed dial with SYNC_REQ, redial without it, accept with an unconditional share batch and the announcement of a public address (`Welcome`), loss of a connection |
| `StoreEnvelope`, `CommitOrder` | 0x07 while the pool fills or after the commit; the 0x07 that completes it: beacon, sort, root, sign, broadcast, ingest, decrypt loop |
| `ReceiveOrder` | 0x0D, `order_lock_ingest`, `publish_locked_shares` |
| `ReceiveSync`, `ReceiveSyncReq` | 0x0C, 0x0B |
| `ReceiveAnnounce` | 0x09: a new address is kept, dialed below `MAX_PEERS` (`DirectDials`) and relayed |
| `DecryptStep` | one iteration of `try_decrypt_envelope`, with `handle_decree` |
| `ReceiveDecree` | a decree from any other source |
| `Restart` | `_Exit(1)` by the watchdog and a supervisor restart |

Processes and members. A process is a member of `Node`; the member number its
signatures and shares carry is `SelfMember`. `main` takes it from the port, 1 for
the default port and 2 for every other, so three processes have the numbers 1, 2
and 2, and every three-node run uses these. What the lock is worth is therefore
stated about processes (`LockOfProcesses`) where it holds and about members
(`LockHasThreshold`) where it does not.

Announced addresses. The sender of 0x09 writes the address in network order, the
receiver hands the bytes to `connect_peer` in the opposite order. A direct dial
reaches a node of the fleet only if one listens on the reversed address, which
the constant `Mirror` says: `NoMirror` is the fleet in which nobody does,
`Palindrome` that of addresses that are their own reverse. The proofs are for
every `Mirror`.

Abstractions. Signatures, shares, hashes and the DEM are ideal: a signature is a
member of the history variable `signed`; a share is its member and the envelope it
was computed over; an envelope opens when T correct shares of this very envelope
are interpolated and none is wrong. An order root is the map from envelopes to
their positions in the sort. `SortKey` is a parameter that depends on the
envelope and on the node's whole beacon chain; the chain is the sequence of pool
epochs hashed into it, which is what `epoch_beacon` consumes. The beacon's
polynomial is the one dealt at boot and not the rotated committee (`g_dkg`), so
rotation does not enter. Clients submit an envelope to each node separately,
because the node does not pass envelopes on. The handler of type 0x08 is not
modelled: nothing in the repository sends it. The epoch's fold is reduced to the
dedup window and the counter; `EpochFold` has the rest.

### EpochFold

One node's epoch machine. The main thread's tick is three stages (`Tick` or
`Pulse`, `Audit`, `ProcessWork` or `NoWork`) in the order of the code, with
`ReceiveDecree` and `ReceiveHeader` between ticks. The explorer thread's
`Reserve` (the atomic `fetch_add`) and `Enqueue` (the push under the mutex) fall
anywhere in between. Reconnection, votes and uptime, which share the tick, belong
to the consensus loop.

Two sends may not return, because their sockets have no send timeout:
`GET /claim_inputs` writes to its client while it holds `g_work_mutex`
(`ClientStalls`), which the audit and the work stage need, and the main thread
writes to accepted peers (`PeerStalls`). `unread` says which of the two is
blocked; `SendReturns` is the remote's doing and is not fair. The watchdog ends a
process whose main loop stalls, and the queue with it, so it is no remedy.

The accumulator is the sequence of `(epoch, idx)` terms absorbed since
`fold_head`: `entry_terms` is a pure function of that pair. A payload is its
32-byte digest and the bytes behind it. What becomes the chain tip is
`fe_from_payload`: the digest if it is below the modulus, otherwise zero
(`HighDecree` and `HighClaim` name the payloads of the second kind). The pulse's payload repeats the chain tip
and carries its number modulo `ByteMod` in one byte, as in the code. A claim's
identity covers the work record and the start of its result. `log`, `covered` and
`folded` are history variables. What the node sends is left out, except the
header that seals an epoch. The proofs the node makes of its own work verify.

### Fleet

The peers of one node and its MSSC loop. The other members are the environment:
`signed` holds every vote they ever sign (members outside `Byzantine` sign one
preference per round), and the process behind any connection delivers any of
these votes late, repeatedly or never: the node checks the signature against the
member the vote names and does not ask whose connection it came on. Preferences
include the all-zero digest, which `decode_vote` accepts and the loop reads as
"none". Descriptors are given out lowest first and reused at once, as the kernel
does.

| Action | Code (`epoch_node.cpp`) |
|---|---|
| `Accept`, `HandleAnnounce`, `Redial` (in `Timer`) | the three ways a connection and its peer record come to be, each with its own bookkeeping |
| `RateExceeded`, `Closed`, `BanExpires` | rate window, ban and forced close; both closes run the DEF-255 disconnect path (`Disconnect`) |
| `HandleVote` | 0x06 in both formats: freshness, binding of records and descriptor to the member, the batch of a 204-byte vote, evidence, equivocation, slash, seeding of the bond |
| `HandleUptime` | 0x0A for the member the payload names, with the anti-replay rule |
| `Timer` | redial, then `tick`, then `breaker_tick` if the tick suspended the node |
| `CloseEpoch` | the part of `reset_epoch_ceremony` that forgets votes and batches |

The weight root and the conflict digest are computed at boot and equal in a
fleet, so votes do not carry them. The breaker's beacon picks any candidate.
`total_weight` is unsigned: it wraps at `Wrap`.

### Ledger, Transfer, Smt, AccountMap

`Transfer` has the money rules free of storage (`apply_rules`, the gates and the
penalty of `f_exec`, `pt_hash_of`, and the constraint layer of `ccs.hpp`).
`Smt` has the sparse Merkle tree over append-only slots: handles, copy-on-write
updates, lookups, openings of presence and of absence; a hash is the term it was
computed from. `Ledger`
joins them: `FoldHead`, `FoldStep`, `FoldClose` (an epoch's entries), `Push` and
`ExecuteBatch` (the plain mempool), `ForkEpoch` (the commit, whose file write may
fail) and `Reopen` (the process dies anywhere and opens the vault again, reusing
the slots above the committed tail). The slots outlive the process, because they
are a shared mapping; the tail, the working root and the queue do not. `log` is a
history of what the operations behind the working root took from circulation.
The loops of the code (the descent, the new path, the climb of an opening, the
genesis accounts, the batch) are recursive functions; a batch runs over any
arrangement of the queue that `tx_less` sorts. `LedgerAssumption` says what the
conformance programs set up: accounts of distinct leaf positions, balances within
`BAL_MAX`.

`AccountMap` is what the vault promises: a map written in place, a saved copy, a
restart that returns to it. `Ledger` implements it (`VaultIsMap`) under the
mapping `cur <- ` the accounts the tree holds behind the working root and
`saved <- ` those behind the last root in `control.bin`.

### The algorithm modules

Pure code is written as operators on small parameters, with the code's own
control: loops are folds, a 64-bit word is a digit below `Word`, a field is a
small prime field with real algebra, a curve a small curve with its real group
law. Each module ends with laws that compare an operator with a reference
definition; `Algorithms` picks cases and checks the laws.

| Module | Code | Reference it is compared with |
|---|---|---|
| `Limbs` | `fe.hpp`, `fev.hpp`, `threshold/scalar_r.hpp`, `threshold/mont384.hpp` | arithmetic modulo the prime |
| `Curves` | `g1p.hpp`, `threshold/g1.hpp`, `threshold/h2g1.hpp`, `pcompress.hpp` | the affine group law |
| `Pairing` | `threshold/fq2.hpp`, `fq12.hpp`, `g2.hpp`, `pairing.hpp` | bilinearity, as verification needs it |
| `Sharing` | `threshold/poly.hpp`, `dkg.hpp`, `dkg_vss.hpp`, `m2.hpp`, `sig.hpp`, `m2prod.hpp`, `beacon.hpp` | the shared polynomial |
| `Envelopes` | `m2envelope.hpp`, `m2.hpp`, `msscvote.hpp`, `lightclient.hpp`, rotation and configuration in `epoch_node.cpp` | what was sealed or signed |
| `Wire` | `p2p.hpp`, `msscvote.hpp`, `m2envelope.hpp`, `mempool.hpp`, `sha256.hpp`, `tools/node.cpp` | the messages sent |
| `Poseidon`, `Sumcheck`, `Folding`, `Circuits` | `poseidon*.hpp`, `sumcheck.hpp`, `pcs.hpp`, `whir.hpp`, `nifs.hpp`, `mfold.hpp`, `cfold*.hpp`, `pedersen.hpp`, `gkr.hpp`, `smt_r1cs.hpp`, `fexec_*.hpp` | direct evaluation; satisfaction of the folded relation; the computation a circuit encodes |
| `EpochChain` | `handle_decree` and EPOCH_HEADER in `epoch_node.cpp`, with the real fold and commitment | a second node of the same chain |
| `Gemm`, `Kernels` | `pouw.hpp`, `pouw/*.hpp` | the matrix product; the functions the kernels approximate |
| `Sampling` | `consensus.hpp`, `g1net.hpp`, `econ/stake.hpp` | quorum by weight, conservation of stake |
| `Explorer` | `explorer.hpp`, `tools/api_server.cpp` | what a request is entitled to change |

`Arrays` has the few helpers on sequences that the library lacks.

### Proof modules and instances

Eight modules hold theorems. `CeremonyProofs` and, on top of it,
`CeremonyLockProofs` extend `Ceremony`; `EpochFoldProofs` extends `EpochFold`;
`FleetProofs` and, on top of it, `FleetLoopProofs` extend `Fleet`; `SmtProofs`
extends `Smt`; `LedgerProofs` extends `Ledger` and `SmtProofs`; `FiniteSums` has the
facts about induction and sums that the others share. The `MC` modules give TLC topologies, member ids, sort
keys, votes and transactions. Operators with an underscore in their name
(`Ingest_Early`, ...) whose comment begins with "Mutant" are deliberate faults,
used to see that a property can fail; no specification refers to them.

## 3. Model checking

| Run | Specification, bounds | Checks |
|---|---|---|
| `ceremony_pair` | `CrashSpec`; 2 nodes, the anchor public, K = 2, T = 2, 2 envelopes, 1 decree, epochs 1-2, 1 fault (lost connection or restart); 918k states | `TypeOK`, `KnowledgeAfterCommit`, `PoolOfThisEpoch`; no deadlock |
| `ceremony_trio` | `Spec`; 3 nodes with member numbers 1, 2, 2, two of which dial the anchor, K = 1, T = 2, 2 envelopes; 915k states | `NoTwoOrders`, `LockIntegrity`, `LockOfProcesses`, `LockAgreement`, `LockStable` |
| `ceremony_live` | `LiveSpec`; the same 3 nodes, 1 envelope; 20k states | `CeremonyCompletes` |
| `epoch_fold` | `LiveSpec`; K = 2, window 3, byte mod 4, pulse every 2nd tick, 2 wire decrees (one below 32 bytes, one not canonical), 1 header, 2 submissions (one whose claim is not canonical), 2 epochs, sends that block; 696k states | eight properties of `EpochFold`; no deadlock |
| `fleet_node` | 1 node, 2 peers (one may equivocate and votes in the old format), 2 descriptors, 1 connection after boot, 3 rounds, 2 epochs, 1 message per window, six sets of votes; 714k states | `TypeOK`, `TeardownForgets`, `VoiceCurrent`, `BatchesMatch`, `SlashSound`, `TotalExact`, `ReceiptsDistinct`, `SuspensionEnds` |
| `ledger_vault` | tree of depth 2 with 4 keys, two of which share a leaf position; 5 transactions, 6 entries, ring of 2 roots, 2 operations per lifetime, 2 commits or restarts | `TypeOK`, `Conserved`, `ReplayOnce`, `OpeningsDecide`, `CommittedImmutable`, `VaultIsMap` |
| `algorithms` | 1493 cases in 15 kinds | the nine laws of `Algorithms` |
| `ceremony_mutual` | 2 nodes that seed each other | `LockHasThreshold` is violated |
| `ceremony_sync` | 2 nodes, one connection | `SharesUnderLock` is violated |
| `epoch_pulse` | the code's constants (K = 10, 256, 256), nothing but pulses | `PulseAdvances` is violated |
| `epoch_audit` | as `epoch_fold` | `EveryClaimAudited` is violated |
| `fleet_voice` | 2 connections after boot, 2 rounds, no built-in peer table | `SlashedVoiceGone` is violated |

What the passing runs show:

- *Order before knowledge.* A node opens an envelope only while its own order of
  the epoch is committed, although shares may come early, late or from another
  epoch, and although a decryption may close the epoch in the middle of the loop.
  K = 2 with an additional plain decree is the smallest instance in which the
  close falls between the two decryptions of one loop.
- *One order per process and epoch; a lock is what it says.* With two envelopes
  and K = 1 the nodes commit different roots, so foreign roots do reach a lock;
  the pool also grows past K after the commit. T = 2 of three processes: any two
  quorums meet, and two processes share a member number.
- *Completion.* With the connections in place before the first signature, every
  node leaves the epoch. Without that premise it does not hold: 0x0D is
  broadcast once.
- *Epochs are exact.* Each epoch is sealed over K entries with gapless indices,
  the committee in force belongs to the open epoch, nothing is folded twice
  within the window (which headers and pulses share), no work id is lost or held
  twice, the node's audit never rejects its own claims, and every submission is
  processed if the remotes read what they are sent. The window (3) is larger than
  K and smaller than the number of payloads, so eviction happens; the byte wraps
  at 4, within the run.
- *The peer table.* No weight, identity or rate window passes to the next holder
  of a descriptor number; every counted vote was signed for this epoch by the
  member it counts for, and a batch joins only votes of one message; only
  equivocators are slashed; the denominator of the floor test is exact through
  joins and departures until somebody is slashed; a suspension ends in the pass
  that began it unless somebody votes for the all-zero digest, because a round can
  be missed only over a preference that differs from the node's own. A seed
  connection at boot and one later opening over two descriptors let a number be
  reused; one message per window lets the rate limit strike.
- *Money.* Supply changes only by fees, penalties and payments whose recipient
  could not be written, and these are counted; nothing is settled twice, whether
  it comes through the fold or a batch, before or after a restart; what a
  committed root means never changes, although a reopened vault writes again over
  slots the dead process had used; an opening decides the account, and a claim of
  absence is never accepted. Two keys at one leaf position make the second write
  fail; two lifetimes make slots be reused; a ring of two roots overflows.
- *Algorithms.* Honest runs succeed and agree with their references, and altered
  values, cut frames, wrong or too few shares are refused where the code refuses
  them; each law names the alterations. The fields are too small for probabilistic
  soundness, and none is claimed: where acceptance depends on a challenge the law
  says on which (a proof of a wrong product is accepted exactly if the folded claim
  is blind to the error).

Bounds. `MaxEpoch` stops inputs in later epochs, `MaxFaults` counts lost
connections and restarts, `MaxWork` the submissions, `MaxOpens` the connections
after boot, `MaxRound` the ticks, `Reporter`, `Announced`, `StatedRounds` and
`Statements` what the environment of `Fleet` may say, `MaxFolds` and `MaxCommits`
the operations and the commits or restarts of a ledger. Two epochs suffice for what
a reset must undo: every reset is complete or shows in the next epoch. Node
numbers are not symmetric (topology and member ids use them), so no symmetry set
is declared. Deadlock checking is off in the three-node, mutual, fleet and ledger
runs because a behaviour whose inputs or bounds are used up has nothing left to do.
The runs of `Ceremony` announce addresses but reach nobody by them (`NoMirror`):
with `Palindrome` a pair of nodes with K = 1 already has 1.15 million states, on
which `LockIntegrity` holds; larger ones are left to the proofs.

Fairness. `Ceremony`: a node's straight-line code and its select loop proceed,
TCP delivers on a live connection, `accept` runs, and the redial timer fires; the
client submits each envelope to each node. That the loop proceeds takes its sends
and dials not to block for good: accepted sockets have no send timeout, and this is
owed by the peers and not by the code. No fairness is assumed of `DialSeed`, faults
or other decrees. `EpochFold`: `select` returns within a second and a tick follows,
and the explorer's push follows its reservation; a stage is enabled only while no
send it depends on is blocked, and nothing is assumed of `SendReturns`. That the
remotes read (`RemotesRead`) is therefore the stated premise of `QueueDrains` and
`PulseAdvances`, not a fairness condition. Weak fairness is enough everywhere.

### Findings

1. `ceremony_mutual`: `order_lock_ingest` does not remember which member a partial
   came from. Two nodes that name each other as seeds hold two connections, the
   broadcast partial arrives on each, and the lock attests with fewer than T
   members. The documents say that it attests at exactly t.
2. `ceremony_sync`: the accept path and the answer to SYNC_REQ send the stored
   shares without looking at the lock; the comment at the 0x07 handler and the
   project's README say that shares are published only under the attested lock.
3. `epoch_pulse`: on a node that folds only pulses the tip never changes, so
   payloads repeat after 256 pulses while the window still holds the first. The
   257th is dropped as a duplicate; the counter that numbers pulses advances only
   on a fold, so every further pulse is the same payload and the epoch no longer
   advances. Any other decree or header that enters the window frees it.
4. `epoch_audit`: a claim that joins the pool after the pool's audit is cleared at
   the epoch close unaudited; a document says that the audit covers every claim.

5. `fleet_voice`: a slash silences the records bound to the member at that moment.
   A further connection of the same member has an unbound record of weight 30,
   the member's next fresh vote binds it, and nothing asks whether the member is
   in `g_adversarial`; it is weighed in the tick again. The comment at the slash
   says that the adversary leaves numerator and denominator.

### Claims of the text that the code does not keep

The modules state the following claims as formulas as well. TLC refutes each on the
instance given; the laws of `Algorithms` when they are added to `Algorithms.cfg` as
an INVARIANT.

| Formula | Instance | What the text says | What the code does |
|---|---|---|---|
| `LockHasThreshold` | 3 nodes, `SeedLine`, numbers 1, 2, 2, T = 2 | `order_lock_ingest` attests "at the threshold" of members | processes on other than the default port are all member 2 (`epoch_node.cpp:909`); two of them attest |
| `LockAgreement` | 4 nodes, `SeedPairs`, T = 2 | `dkg_vss.hpp:28` asks for t > n/2; `DECISIONS.md:4837` "no fork in what executes" | `config_ok` (`dkg_vss.hpp:30`) accepts 2t = n; two disjoint quorums attest two orders |
| `ClaimInChain` | `EpochFold_fold.cfg` | `epoch_node.cpp:1384-1386`: folding "makes the claim part of pi_E's hash history" | a digest not below the modulus enters the chain as zero (`:643`) |
| `VoiceBacked` | `Fleet_node.cfg` | `epoch_node.cpp:2158-2160`: a removed connection keeps no voice | a vote is accepted on any connection and rebinds it (`:1848-1851`); teardown forgets the last bound member only (`:2165`) |
| `VoiceInWindow` | `Fleet_node.cfg` | `msscloop.hpp:19-21`: outside the round window a vote "is a replay, not an opinion" | freshness is tested on arrival; the tick counts what is stored (`epoch_node.cpp:1488`) |
| `NeverLeftSuspended` | `MCZeroStatements`, 4 rounds | `epoch_node.cpp:1514-1517`: on suspension the breaker resolves the conflict | with the all-zero digest adopted (`msscloop.hpp:98, 184`) the loop has no preference and stays suspended |
| `ClaimsRefused` | `Algorithms.cfg` | `sumcheck.hpp:106-107`: nv is acceptance, 0 a failure of the claim | without rounds both are 0 (`:109`) |
| `ProductsBound` | `Algorithms.cfg` | `pouw.hpp:12`: "faked RESULTS are caught here" | with an inner dimension of one nothing is checked (`:193`) |
| `AttentionOfAnyShape` | `Algorithms.cfg` | `attention.hpp:8`: scores are seq x seq | the sizes passed on (`:115, 176, 273`) fit only seq = dh |
| `SoftmaxMonotone` | `Algorithms.cfg` | `softmax.hpp:19`: the index is "clamped to [0, 255]" | 256 goes to slot 0 (`:102-103`) |
| `ErrorsBound` | `Algorithms.cfg` | `epoch_node.cpp:685-686`: three public checks; `:2116-2117` "a broken chain never propagates" | the receiver recommits only (`:2033-2065`), and short headers are passed on unchecked (`:2025`) |
| `PeerListsReadBack` | `Algorithms.cfg` | `p2p.hpp:130`: count, then addresses | the reader takes the count for an address (`:145-157`) |
| `AnnouncesReadBack` | `Algorithms.cfg` | `epoch_node.cpp:1657`: the address is in network order | the reader turns it round (`:1661-1663`, `p2p.hpp:193`) |
| `CountsReset` | `Algorithms.cfg` | `explorer.hpp:167-169`: each key's count resets after 60 s | the keys share one window (`:172-175`), which other keys keep open |

Seen while reading, without a formula: `DECISIONS.md` says that shares for an
unattested epoch are refused on the wire, while the 0x08 and 0x0C handlers store
them and refuse only to decrypt; a process that restarts comes to the same epoch
numbers again and may sign a second order (`NoTwoOrders` fails under `CrashSpec`,
for instance with K = 1 and two envelopes); the weight of a slashed peer is taken
from `total_weight` once more when it disconnects; `Vault::alloc` maps a new
segment without resetting its slot counter; `pt_hash_of` shifts the fee by 64
bits, so that fees of 2^64 and more lose their upper half in the binding; the
floor of the automaton compares the weight that voted with the requested sample,
which a network of at most half that size cannot reach; an opening of absence
carries a zero leaf hash where the tree has the hash of the empty leaf, so that no
claim of absence verifies.

## 4. Proofs

TLAPS checks every theorem for all values of the constants that satisfy
`CeremonyAssumption`, `EpochFoldAssumption`, `FleetAssumption`,
`TransferAssumption`, `SmtAssumption` and `LedgerAssumption`: any finite set of
nodes and envelopes, any topology, any K, T, window and sort key, any fleet, any
depth of the tree and set of keys, any genesis, any width of balances, amounts and
nonces. Where a theorem needs more, the hypothesis is a named definition and the
theorem's own (`SimpleFleet`, `QuorumsMeet`, `NodeIsHeaviest`, `NoncesSuffice`).

`CeremonyProofs`. None of the invariants is inductive alone. `Inv` joins

- `TypeOK`;
- `LoopInPool`: while the decrypt loop runs, its index lies in the pool and the
  order is committed, so the loop never reads past a pool that the close emptied;
- `KnowledgeAfterCommit` and `PoolOfThisEpoch`;
- `LockCounts`: a lock without partials has no signer and is not attested, so the
  first partial may fix the root;
- `InFlightSigned`: an order message in a channel is in `signed`, the fact that
  carries integrity across the network;
- `LockIntegrity`.

`Invariance` proves `CrashSpec => []Inv`, one step per action, from which
`TypeCorrect`, `KnowledgeAfterCommitThm`, `PoolOfThisEpochThm` and
`LockIntegrityThm` follow. `NoTwoOrdersThm` holds for `Spec` (no restart) and any
member numbers, with `SignedPast` (what is signed belongs to an epoch the signing
process has reached; if it is the present one, the order is committed and is this
one) and `BootEpoch`. It is about processes: two processes of one member number may
sign two orders. `LockStableThm` is an action property proved from `Inv`.

`CeremonyLockProofs`. `order_lock_ingest` counts partials and not members, so what
an attested lock is worth rests on the network. `LockInv` says so: `PartialsFresh`
(the partials under way on a link are the sender's own, at most one per epoch, and
the receiver has counted none of them) and `SignersCounted` (a lock's counter is
the number of its signers). It is inductive together with `Inv` and the invariant
of `NoTwoOrdersThm`, and gives `LockOfProcessesThm` under `SimpleFleet`: no two
nodes are joined by more than one connection, be it of a seed or of an announced
address. Member numbers may be shared. The hypothesis is needed; the run
`ceremony_mutual` is a fleet without it. `LockAgreementThm` adds `QuorumsMeet`,
2T > the number of processes: two quorums share a process, and that process signed
one order. This too is needed, and more than `config_ok` enforces (the table above).

`EpochFoldProofs`. `EpochFoldTypeCorrect`; `EpochAlignedThm`, where `EpochAligned`
and `SealedExact` are inductive only together, since an epoch is sealed right
because the open one is gapless; `SealedExactThm`; and `NoDoubleFoldThm`, whose
strengthening `SeenIsWindow` says that `seen_fps` is exactly the last `SeenCap`
payloads of the history. `ReceiptsPassThm` and `AuditOncePerEpochThm` come from
`AuditInv`: no receipt is of a later epoch, the flag is up if the receipt is of this
one, and every claim in the pool would pass. `FoldedIsPooledThm`
is an action property of `ProcessWork`. `WorkNeverLostThm` needs `WorkInv`: ids
below the counter are held by the explorer, the queue or the results, no two places
hold the same one, and the one explorer thread holds at most one.

`FleetProofs`. `TeardownForgetsThm` is inductive by itself over a summary of what a
step may do to the connection tables (`StepConn`). `VoiceCurrentThm` and
`BatchesMatchThm` are inductive over a summary of what a step may do to votes and
batches (`StepVotes`): an epoch close empties both, a fresh vote enters as one of
this epoch, everything else only removes. `SlashSoundThm` needs `EvidenceSound`
(each kept first preference was signed by that member for that round) and
`BondTable`. `ReceiptsDistinctThm` needs only the types of the receipts.

`FleetLoopProofs`. `FleetTypes` is proved with a stronger `Types`, whose parts name
the domains of the partial tables; its hard step is that a missed round and the
breaker adopt a preference some voice has, which goes through the maximum of a
finite set of sums. `TotalExactThm` rests on `WeightStep`: every action adds one
weighed connection, adds one redialed record, removes one connection, excises a
slashed peer or leaves the weights alone; so the 64-bit counter never wraps and the
clamp of the disconnect path is never taken until somebody is slashed.
`SuspensionEndsThm` needs `NodeIsHeaviest`, the weights `epoch_node.cpp` uses: the
node keeps its preference against every lighter voice, so a missed round has a
rival and the breaker two candidates. The induction carries that the node itself
has a preference, which rests on `VoiceCurrent` and on the premise of the property
that nobody signs the all-zero digest. Both hypotheses are needed: with a peer
heavier than the node, or with votes for zero, TLC finds a suspension that outlasts
its pass.

`FiniteSums`. The library's induction theorems take the hypothesis as an operator.
Here it is a set of naturals (`SetInduction`, from the well-foundedness of `<`), and
a fact about the n-th value of a recursive function is membership of n in that set.
The existence of a recursive function is proved the same way, from its restrictions
to `0 .. n`. On top are the facts about `SumFunction` that the proofs use.

`SmtProofs`. `Sound(V, T, root)` says that on the way to every key the tree has
mapped nodes below slot T, hashes that match, and at the end nothing or a record of
a key of that position. `Keeps(V, U, T)` says that U holds what V holds below T. A
sound tree means the same in every vault that keeps it (`TreeFrame`); `alloc` writes
at the tail only (`AllocIs`, whatever segment it lands in), so a new path keeps all
older trees; a descent for another key leaves the new path at the highest level
where the keys differ, into a sibling that was there before (`NewDescent`).
`SetAccountWrites` collects this: one key is written or, if another key holds the
leaf, none. `OpeningsOfSoundTree` climbs the path by induction; its converse is the
injectivity of the leaf hash. It covers absence: an empty leaf is opened with a zero
hash, which is not the root of the table of empty subtrees (`EmptyTableIs`), so the
climb does not meet the root.

`LedgerProofs`. First the rules as functions, for every width: what an accepted
transaction leaves the sender and the recipient (`SenderSound`, `RecipientSound`),
that it burns exactly its fee (`RulesConserve`), that a penalty takes at most the
balance (`SkipSound`), and that the constraint layer and the rules agree on the
sender's gates (`ConstraintsAgree`). Then `MapStep`: what one transaction makes of
an account map and a history, in four cases (nothing, a penalty, a payment whose
recipient could not be written, a payment), each of which conserves money and keeps
the nonces in order. `f_exec` and a round of `execute_batch` are such steps
(`FExecIs`, `BatchStepIs`); a whole batch is a run of them (`BatchRan`, by
induction), and genesis a run of plain writes (`BornOK`). The inductive invariant
`Inv` joins

- `Rooted`: the tree behind the working root and those behind every root of the
  ring in memory are sound; those of the ring on disk are sound below the tail the
  disk counts, which is what makes reuse of the slots above it harmless;
- `Balanced`: money is conserved for the working map and its history, and for the
  saved map and the saved history, to which a restart returns;
- `Bounded`: types, and the number of transactions handled so far.

`StepAdvances` shows that every step keeps `Inv`, leaves the slots alone that the
disk counts and is a write, save, restart or stutter of `AccountMap`; with it
`LedgerTypes`, `ConservedThm`, `OpeningsDecideThm`, `CommittedImmutableThm` and
`VaultIsMapThm`, the refinement, follow. `ReplayOnceThm` adds `Ordered` (an account's
nonce is past every item settled for it, and these rise) under `NoncesSuffice`: the
behaviour is shorter than the 2^64 steps after which a nonce comes round, which the
code does not guard against and the run's instance satisfies.

Only model-checked: the liveness properties (`CeremonyCompletes`, `QueueDrains`),
which are out of the prover's reach, and the laws of `Algorithms`, which are about
what recursive operators compute on data.

## 5. Not modelled

- The real field sizes and generated constants: the algorithms are checked on
  small parameters, the tables under `generated` are data.
- Probabilistic soundness, and hardness assumptions.
- Loss of unsynced pages when the machine dies (the vault does not sync its
  segments); a vault that outgrows a segment of 2^18 slots, where the code writes
  outside its mapping.
- HTML and JSON output, printed text, the status mirror `g_ns_shared` (written and
  read without a lock; nothing of the protocol reads it).
- Probes, conformance programs, generators, `gpu`, `attic` and vendored code.
- The composition of several epoch machines or several consensus loops: the
  convergence of chains, the termination of relaying and the rounds of a late
  joiner are listed as hazards without a property.
- The type 0x08 handler: nothing in the repository sends it.
- `g_agg_receipts`, which is counted and never read; the 28 or 32 bytes of an uptime
  payload; the explorer's own descriptors.
- The time a blocking `connect` takes in the 0x09 handler, and the watchdog's restart
  of a process whose loop stalls (`Restart` has its effect, at any time).

## 6. Plan

1. Laws of the algorithm modules that do not need recursion (`Sampling`'s registry,
   `Limbs`' single steps, `EpochChain`'s header rules), moved to operators the prover
   can reason about, and proved for every width.
2. Several epoch machines over a gossip topology.
