------------------------------ MODULE MCLedger ------------------------------
EXTENDS Ledger

\* Four leaf positions, five keys: keys 1 and 5 share a position.
MCIndex(k) == k % 4

MCGenesis == << <<1, 9>>, <<2, 4>> >>

T(s, r, a, f, n) == [sender |-> s, recipient |-> r, amount |-> a, fee |-> f, nonce |-> n]
E(tx, status) == [tx |-> tx, status |-> status, pt |-> pt_hash_of(tx)]

\* A payment, its successor, a payment to oneself, one to a key whose
\* position is taken, one the sender cannot afford.
MCTx == { T(1, 2, 2, 1, 1), T(1, 3, 1, 4, 2), T(2, 2, 3, 1, 1), T(2, 5, 1, 0, 1),
          T(2, 1, 8, 4, 1) }

MCTxRank(tx) == tx.sender * 100 + tx.nonce * 10 + tx.recipient

MCEntry ==
    { E(T(1, 2, 2, 1, 1), "EXEC"), E(T(1, 3, 1, 4, 2), "EXEC"), E(T(2, 5, 1, 0, 1), "EXEC"),
      E(T(2, 1, 8, 4, 1), "SKIP_USER"), E(T(2, 1, 0, 0, 1), "PAD"),
      [E(T(1, 2, 2, 1, 1), "EXEC") EXCEPT !.pt = pt_hash_of(T(1, 2, 1, 1, 1))] }
=============================================================================
