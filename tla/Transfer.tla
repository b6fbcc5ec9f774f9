------------------------------ MODULE Transfer ------------------------------
(***************************************************************************)
(* The money rules of tx.hpp and the gates of fold.hpp, free of storage:   *)
(* what one transaction makes of the sender's and the recipient's account. *)
(***************************************************************************)
EXTENDS Integers

CONSTANTS
    BalMax,     \* BAL_MAX, 2^126 - 1
    U128,       \* 2^128: amounts, fees and their sum
    NonceMod    \* 2^64

ASSUME TransferAssumption ==
    /\ BalMax \in Nat /\ U128 \in Nat /\ NonceMod \in Nat \ {0}
    /\ BalMax < U128

State == [mag : 0 .. BalMax, sign : BOOLEAN, nonce : 0 .. NonceMod - 1,
          flags : {0, 1}, absent : BOOLEAN]

\* Mutant: the nonce of the last transaction is accepted again.
NonceOk_OrLast(tx, st) == tx.nonce >= st.nonce

\* The nonce gate: the successor of the sender's nonce, 64 bits wide.
NonceOk(tx, st) == tx.nonce = (st.nonce + 1) % NonceMod

\* Mutant: what is left of a debit is not looked at.
Solvent_Always(tx, st) == ~st.sign

\* The solvency gate.
Solvent(tx, st) == ~st.sign /\ st.mag >= tx.amount + tx.fee

\* Mutant: every payment returns its amount to the sender.
net_return_Always(tx, self) == tx.amount

\* What a payment to oneself returns.
net_return(tx, self) == IF self THEN tx.amount ELSE 0

\* apply_rules: the verdict and, when it is OK, the two new accounts.  in
\* carries the accounts found (absent where there is none) and self_transfer.
apply_rules(tx, in) ==
    LET cost == tx.amount + tx.fee
        got  == in.recipient.mag + tx.amount
        s    == [in.sender EXCEPT !.mag = @ - cost + net_return(tx, in.self), !.sign = FALSE,
                                  !.nonce = (@ + 1) % NonceMod]
        r    == IF in.recipient.absent
                THEN [mag |-> tx.amount, sign |-> FALSE, nonce |-> 0, flags |-> 0,
                      absent |-> FALSE]
                ELSE [in.recipient EXCEPT !.mag = got, !.sign = FALSE]
        err  == IF in.sender.absent THEN "SENDER_NOT_FOUND"
                ELSE IF ~NonceOk(tx, in.sender) THEN "INVALID_NONCE"
                ELSE IF cost >= U128 THEN "COST_OVERFLOW"
                ELSE IF ~Solvent(tx, in.sender) THEN "INSUFFICIENT_BALANCE"
                ELSE IF ~in.self /\ r.mag > BalMax THEN "CREDIT_OVERFLOW"
                ELSE "OK"
    IN  [err |-> err, sender |-> s, recipient |-> r]

\* The SKIP_USER penalty of f_exec: a quarter of the fee, at most the balance.
skip_burn(tx, st) ==
    LET burn == ((tx.fee * 25) % U128) \div 100
    IN  [st EXCEPT !.mag = @ - (IF burn < @ THEN burn ELSE @), !.sign = FALSE]

\* pt_hash_of: the fee is shifted left by 64 bits inside 128, so its high
\* half does not enter the binding hash; nor do the two keys.
pt_hash_of(tx) == <<tx.amount, tx.fee % (U128 \div NonceMod), tx.nonce>>

---------------------------------------------------------------------------
\* The constraint layer of ccs.hpp: binding, nonce and solvency of a decree
\* entry against the sender's account, and the steps an epoch may take.
check_binding(e) == pt_hash_of(e.tx) = e.pt_hash
check_nonce(e, st) == NonceOk(e.tx, st)
check_lt(e, st) == e.tx.amount + e.tx.fee < U128 /\ Solvent(e.tx, st)
PC_MATRIX == {<<"HEAD", "EXEC">>, <<"HEAD", "CLOSE">>, <<"EXEC", "EXEC">>, <<"EXEC", "CLOSE">>}
pc_valid(from, to) == <<from, to>> \in PC_MATRIX

\* evaluate: how many constraints fired, and whether all of them held.
evaluate(e, st) ==
    IF e.status = "PAD" THEN [count |-> 1, ok |-> TRUE]
    ELSE IF ~check_binding(e) THEN [count |-> 1, ok |-> FALSE]
    ELSE IF ~check_nonce(e, st) THEN [count |-> 2, ok |-> FALSE]
    ELSE IF e.status = "SKIP_USER" THEN [count |-> 3, ok |-> TRUE]
    ELSE IF check_lt(e, st) THEN [count |-> 5, ok |-> TRUE] ELSE [count |-> 3, ok |-> FALSE]

\* A bound entry satisfies its constraints exactly when the money rules pass,
\* but for what they alone look at, the recipient's room; an entry whose hash
\* covers another amount or nonce satisfies none.
ConstraintsExact(e, st, other) ==
    LET bound == [e EXCEPT !.pt_hash = pt_hash_of(e.tx), !.status = "EXEC"]
        rules(r) == apply_rules(e.tx, [sender |-> st, recipient |-> r, self |-> FALSE]).err
    IN  /\ evaluate(bound, st).ok <=> rules([st EXCEPT !.mag = 0]) \in {"OK", "CREDIT_OVERFLOW"}
        /\ rules(other) = "OK" => evaluate(bound, st).count = 5
        /\ e.pt_hash # pt_hash_of(e.tx) /\ e.status # "PAD" => evaluate(e, st) = [count |-> 1, ok |-> FALSE]
        /\ \A x \in {"HEAD", "EXEC", "CLOSE"} : ~pc_valid("CLOSE", x) /\ ~pc_valid(x, "HEAD")
=============================================================================
