---------------------------- MODULE LedgerProofs ----------------------------
(***************************************************************************)
(* The ledger for every set of keys, depth of the tree, width of balances  *)
(* and nonces, genesis and load: the money rules, then what an operation   *)
(* makes of the account map and the history, then what the vault and its   *)
(* control sector keep of it through commits and restarts.                 *)
(***************************************************************************)
EXTENDS Ledger, SmtProofs, SequenceTheorems

---------------------------------------------------------------------------
(* The money rules.                                                        *)

Input == [sender : State, recipient : State, self : BOOLEAN]

\* What passed the rules had the sender's account, its next nonce, and the
\* cost within both 128 bits and the balance (tx.hpp apply_rules, early returns).
LEMMA Passed ==
    ASSUME NEW tx \in Payment, NEW in \in Input, apply_rules(tx, in).err = "OK"
    PROVE  /\ ~in.sender.absent /\ NonceOk(tx, in.sender)
           /\ tx.amount + tx.fee < U128
           /\ Solvent(tx, in.sender)
           /\ in.self \/ apply_rules(tx, in).recipient.mag <= BalMax
  BY TransferAssumption DEF apply_rules, Payment, Input, State, NonceOk, Solvent

\* An accepted transaction leaves the sender an account of the encodable range,
\* never below zero, and advances its nonce by one, wrapping at the width of
\* the field; a second transaction with the same nonce is then refused whenever
\* nonces can differ at all (tx.hpp apply_rules).
THEOREM SenderSound ==
    ASSUME NEW tx \in Payment, NEW in \in Input, apply_rules(tx, in).err = "OK"
    PROVE  LET s == apply_rules(tx, in).sender
           IN  /\ s \in State
               /\ s.nonce = (in.sender.nonce + 1) % NonceMod
               /\ NonceMod > 1 => ~NonceOk(tx, s)
<1> DEFINE s == apply_rules(tx, in).sender
           n == in.sender.nonce
<1>1. s = [in.sender EXCEPT !.mag = @ - (tx.amount + tx.fee) + net_return(tx, in.self), !.sign = FALSE,
                            !.nonce = (@ + 1) % NonceMod]
  BY DEF apply_rules
<1>2. /\ in.sender \in State /\ tx.amount \in Nat /\ tx.fee \in Nat /\ tx.nonce \in Nat
      /\ n \in 0 .. NonceMod - 1 /\ in.sender.mag \in 0 .. BalMax
  BY TransferAssumption DEF Payment, Input, State
<1>3. Solvent(tx, in.sender) /\ NonceOk(tx, in.sender)
  BY Passed
<1>4. in.sender.mag - (tx.amount + tx.fee) + net_return(tx, in.self) \in 0 .. BalMax
  BY <1>2, <1>3, TransferAssumption DEF Solvent, net_return
<1>5. (n + 1) % NonceMod \in 0 .. NonceMod - 1
  BY <1>2, TransferAssumption
<1>6. s \in State
  BY <1>1, <1>2, <1>4, <1>5 DEF State
<1>7. s.nonce = (n + 1) % NonceMod
  BY <1>1, <1>2 DEF State
<1>8. ASSUME NonceMod > 1 PROVE ~NonceOk(tx, s)
  <2>1. tx.nonce = (n + 1) % NonceMod
    BY <1>3 DEF NonceOk
  <2>2. (n + 1) % NonceMod = IF n + 1 < NonceMod THEN n + 1 ELSE 0
    BY <1>2, TransferAssumption
  <2>3. (((n + 1) % NonceMod) + 1) % NonceMod = IF n + 2 < NonceMod THEN n + 2 ELSE IF n + 2 = NonceMod THEN 0 ELSE 1
    BY <1>2, <1>8, <2>2, TransferAssumption
  <2>4. (((n + 1) % NonceMod) + 1) % NonceMod # (n + 1) % NonceMod
    <3> DEFINE m == (n + 1) % NonceMod
               mm == (m + 1) % NonceMod
    <3>1. /\ m = IF n + 1 < NonceMod THEN n + 1 ELSE 0
          /\ mm = IF n + 2 < NonceMod THEN n + 2 ELSE IF n + 2 = NonceMod THEN 0 ELSE 1
      BY <2>2, <2>3
    <3> HIDE DEF m, mm
    <3>2. mm # m
      BY <1>2, <1>8, <3>1, TransferAssumption
    <3> QED BY <3>2 DEF m, mm
  <2> QED BY <1>7, <2>1, <2>4 DEF NonceOk
<1> QED BY <1>6, <1>7, <1>8

\* An accepted transaction burns its fee and moves its amount: between two
\* accounts the two balances lose exactly the fee, and to oneself the one
\* balance does (tx.hpp apply_rules).
THEOREM RulesConserve ==
    ASSUME NEW tx \in Payment, NEW in \in Input, apply_rules(tx, in).err = "OK",
           in.recipient.absent => in.recipient.mag = 0
    PROVE  LET out == apply_rules(tx, in)
           IN  IF in.self THEN out.sender.mag + tx.fee = in.sender.mag
               ELSE out.sender.mag + out.recipient.mag + tx.fee = in.sender.mag + in.recipient.mag
<1> DEFINE out == apply_rules(tx, in)
<1>1. /\ in.sender \in State /\ in.recipient \in State /\ tx.amount \in Nat /\ tx.fee \in Nat
      /\ in.sender.mag \in Int /\ in.recipient.mag \in Int /\ in.self \in BOOLEAN
  BY TransferAssumption DEF Payment, Input, State
<1>2. out.sender.mag = in.sender.mag - (tx.amount + tx.fee) + net_return(tx, in.self)
  BY <1>1 DEF apply_rules, State
<1>3. out.recipient.mag = in.recipient.mag + tx.amount
  <2>1. CASE in.recipient.absent
    BY <1>1, <2>1 DEF apply_rules
  <2>2. CASE ~in.recipient.absent
    BY <1>1, <2>2 DEF apply_rules, State
  <2> QED BY <2>1, <2>2
<1> QED BY <1>1, <1>2, <1>3 DEF net_return

\* An accepted payment to another account leaves the recipient within the
\* encodable range, so that the tree can store what the rules produced
\* (tx.hpp apply_rules, CREDIT_OVERFLOW).
THEOREM RecipientSound ==
    ASSUME NEW tx \in Payment, NEW in \in Input, apply_rules(tx, in).err = "OK", ~in.self
    PROVE  apply_rules(tx, in).recipient \in State
<1> DEFINE r == apply_rules(tx, in).recipient
<1>1. r.mag <= BalMax
  BY Passed
<1>2. /\ in.recipient \in State /\ tx.amount \in Nat /\ in.recipient.mag \in Nat
  BY TransferAssumption DEF Payment, Input, State
<1>3. CASE in.recipient.absent
  <2>1. r = [mag |-> tx.amount, sign |-> FALSE, nonce |-> 0, flags |-> 0, absent |-> FALSE]
    BY <1>3 DEF apply_rules
  <2> QED BY <1>1, <1>2, <2>1, TransferAssumption DEF State
<1>4. CASE ~in.recipient.absent
  <2>1. r = [in.recipient EXCEPT !.mag = in.recipient.mag + tx.amount, !.sign = FALSE]
    BY <1>4 DEF apply_rules
  <2>2. in.recipient.mag + tx.amount \in 0 .. BalMax
    BY <1>1, <1>2, <2>1, TransferAssumption DEF State
  <2> QED BY <1>2, <2>1, <2>2 DEF State
<1> QED BY <1>3, <1>4

\* The penalty of a skipped transaction takes at most the balance and leaves
\* the nonce where it was (fold.hpp f_exec, SKIP_USER).
THEOREM SkipSound ==
    ASSUME NEW tx \in Payment, NEW st \in State
    PROVE  LET q == skip_burn(tx, st)
           IN  q \in State /\ q.mag <= st.mag /\ q.nonce = st.nonce
<1> DEFINE burn == ((tx.fee * 25) % U128) \div 100
           left == st.mag - (IF burn < st.mag THEN burn ELSE st.mag)
<1>1. tx.fee \in Nat /\ st.mag \in 0 .. BalMax /\ U128 \in Nat \ {0}
  BY TransferAssumption DEF Payment, State
<1>2. (tx.fee * 25) % U128 \in Nat
  <2>1. tx.fee * 25 \in Int
    BY <1>1
  <2> HIDE DEF burn
  <2> QED BY <1>1, <2>1
<1>3. burn \in Nat
  BY <1>2
<1>4. left \in 0 .. st.mag
  <2> HIDE DEF burn
  <2> QED BY <1>1, <1>3
<1>5. skip_burn(tx, st) = [st EXCEPT !.mag = left, !.sign = FALSE]
  BY DEF skip_burn
<1>6. left \in 0 .. BalMax
  <2> HIDE DEF left
  <2> QED BY <1>1, <1>4, TransferAssumption
<1> HIDE DEF left
<1>7. [st EXCEPT !.mag = left, !.sign = FALSE] \in State
  BY <1>6 DEF State
<1>8. /\ [st EXCEPT !.mag = left, !.sign = FALSE].mag = left
      /\ [st EXCEPT !.mag = left, !.sign = FALSE].nonce = st.nonce
  BY DEF State
<1> QED BY <1>1, <1>4, <1>5, <1>7, <1>8

\* The constraint layer accepts a bound entry exactly when the sender's gates
\* of the money rules pass (ccs.hpp evaluate, tx.hpp apply_rules).
THEOREM ConstraintsAgree ==
    ASSUME NEW tx \in Payment, NEW in \in Input, ~in.sender.absent,
           NEW e, e = [tx |-> tx, status |-> "EXEC", pt_hash |-> pt_hash_of(tx)]
    PROVE  evaluate(e, in.sender).ok <=> apply_rules(tx, in).err \in {"OK", "CREDIT_OVERFLOW"}
<1>1. check_binding(e) /\ e.status = "EXEC" /\ e.tx = tx
  BY DEF check_binding
<1>2. tx.amount \in Nat /\ tx.fee \in Nat /\ U128 \in Nat
  BY TransferAssumption DEF Payment
<1>3. evaluate(e, in.sender).ok <=> check_nonce(e, in.sender) /\ check_lt(e, in.sender)
  BY <1>1 DEF evaluate
<1>4. @ <=> NonceOk(tx, in.sender) /\ tx.amount + tx.fee < U128 /\ Solvent(tx, in.sender)
  BY <1>1 DEF check_nonce, check_lt
<1>5. @ <=> apply_rules(tx, in).err \in {"OK", "CREDIT_OVERFLOW"}
  BY <1>2 DEF apply_rules
<1> QED BY <1>3, <1>4, <1>5

---------------------------------------------------------------------------
(* Operations on the account map.                                          *)

\* What a key of the map may hold.
Held == {s \in State : ~s.absent}
Slot == Held \cup {NoAccount}

LEMMA NoAccountIs ==
    /\ NoAccount \in State /\ NoAccount.absent /\ NoAccount.mag = 0 /\ NoAccount.nonce = 0
    /\ Slot \subseteq State
    /\ \A s \in Slot : s.absent => s = NoAccount
<1>1. 0 \in 0 .. BalMax /\ 0 \in 0 .. NonceMod - 1
  BY TransferAssumption
<1>2. NoAccount \in State /\ NoAccount.absent /\ NoAccount.mag = 0 /\ NoAccount.nonce = 0
  BY <1>1 DEF NoAccount, State
<1> QED BY <1>2 DEF Slot, Held

\* What an account is, field by field.
LEMMA StateIs ==
    ASSUME NEW s \in State
    PROVE  /\ s.mag \in 0 .. BalMax /\ s.mag \in Nat /\ s.nonce \in 0 .. NonceMod - 1 /\ s.nonce \in Nat
           /\ s.sign \in BOOLEAN /\ s.absent \in BOOLEAN
           /\ ~s.sign => encodable(s)
<1>1. s.mag \in 0 .. BalMax /\ s.nonce \in 0 .. NonceMod - 1 /\ s.flags \in {0, 1}
  BY DEF State
<1>2. s.sign \in BOOLEAN /\ s.absent \in BOOLEAN
  BY DEF State
<1>3. s.mag \in Nat /\ s.nonce \in Nat /\ s.mag < BalCap
  BY <1>1, TransferAssumption, LedgerAssumption
<1> QED BY <1>1, <1>2, <1>3 DEF encodable

\* What the rules make of the accounts an accepted transaction finds.
RuleOn(m, tx) ==
    apply_rules(tx, [sender |-> m[tx.sender], recipient |-> m[tx.recipient],
                     self |-> tx.sender = tx.recipient])

LEMMA RuleWrites ==
    ASSUME NEW m \in [Key -> Slot], NEW tx \in Payment, RuleOn(m, tx).err = "OK"
    PROVE  LET s == m[tx.sender]
               q == m[tx.recipient]
               out == RuleOn(m, tx)
           IN  /\ ~s.absent
               /\ tx.nonce = (s.nonce + 1) % NonceMod
               /\ out.sender \in Held /\ ~out.sender.sign /\ out.sender.nonce = (s.nonce + 1) % NonceMod
               /\ out.sender.mag = s.mag - (tx.amount + tx.fee) + (IF tx.sender = tx.recipient THEN tx.amount ELSE 0)
               /\ tx.sender # tx.recipient =>
                     /\ out.recipient \in Held /\ ~out.recipient.sign
                     /\ out.recipient.nonce = q.nonce
                     /\ out.recipient.mag = q.mag + tx.amount
<1> DEFINE s  == m[tx.sender]
           q  == m[tx.recipient]
           in == [sender |-> s, recipient |-> q, self |-> tx.sender = tx.recipient]
           out == apply_rules(tx, in)
<1>1. tx.sender \in Key /\ tx.recipient \in Key
  BY DEF Payment
<1>2. s \in State /\ q \in State
  BY <1>1, NoAccountIs
<1>3. in \in Input /\ out.err = "OK" /\ RuleOn(m, tx) = out
  BY <1>2 DEF Input, RuleOn
<1>4. in.sender = s /\ in.recipient = q /\ in.self = (tx.sender = tx.recipient)
  OBVIOUS
<1> HIDE DEF in, s, q
<1>5. ~s.absent /\ NonceOk(tx, s)
  BY <1>3, <1>4, Passed
<1>6. out.sender \in State /\ out.sender.nonce = (s.nonce + 1) % NonceMod
  BY <1>3, <1>4, SenderSound
<1>7. out.sender = [s EXCEPT !.mag = @ - (tx.amount + tx.fee) + net_return(tx, in.self), !.sign = FALSE,
                             !.nonce = (@ + 1) % NonceMod]
  BY <1>4 DEF apply_rules
<1>8. ~out.sender.sign /\ out.sender.absent = s.absent
      /\ out.sender.mag = s.mag - (tx.amount + tx.fee) + net_return(tx, in.self)
  BY <1>2, <1>7 DEF State
<1>9. ASSUME tx.sender # tx.recipient
      PROVE  /\ out.recipient \in Held /\ ~out.recipient.sign
             /\ out.recipient.nonce = q.nonce /\ out.recipient.mag = q.mag + tx.amount
  <2>1. out.recipient \in State
    BY <1>3, <1>4, <1>9, RecipientSound
  <2>2. CASE q.absent
    <3>1. out.recipient = [mag |-> tx.amount, sign |-> FALSE, nonce |-> 0, flags |-> 0, absent |-> FALSE]
      BY <1>4, <2>2 DEF apply_rules
    <3>2. q = NoAccount
      BY <1>1, <2>2, NoAccountIs DEF q
    <3>3. out.recipient.mag = tx.amount /\ out.recipient.nonce = 0 /\ ~out.recipient.sign /\ ~out.recipient.absent
      BY <3>1
    <3>4. tx.amount \in Nat
      BY TransferAssumption DEF Payment
    <3> QED BY <2>1, <3>2, <3>3, <3>4, NoAccountIs DEF Held
  <2>3. CASE ~q.absent
    <3>1. out.recipient = [q EXCEPT !.mag = q.mag + tx.amount, !.sign = FALSE]
      BY <1>4, <2>3 DEF apply_rules
    <3>2. /\ out.recipient.mag = q.mag + tx.amount /\ out.recipient.nonce = q.nonce
          /\ ~out.recipient.sign /\ out.recipient.absent = q.absent
      BY <1>2, <3>1 DEF State
    <3> QED BY <2>1, <2>3, <3>2 DEF Held
  <2> QED BY <2>2, <2>3
<1>10. net_return(tx, in.self) = IF tx.sender = tx.recipient THEN tx.amount ELSE 0
  BY <1>4 DEF net_return
<1> HIDE DEF out
<1> QED BY <1>3, <1>5, <1>6, <1>8, <1>9, <1>10 DEF Held, NonceOk, s, q

LEMMA SkipWrites ==
    ASSUME NEW s \in Held, NEW tx \in Payment
    PROVE  LET q == skip_burn(tx, s)
           IN  q \in Held /\ ~q.sign /\ q.nonce = s.nonce /\ q.mag \in Nat /\ q.mag <= s.mag
<1> DEFINE burn == ((tx.fee * 25) % U128) \div 100
           left == s.mag - (IF burn < s.mag THEN burn ELSE s.mag)
           q == skip_burn(tx, s)
<1>1. s \in State /\ ~s.absent
  BY DEF Held
<1>2. q \in State /\ q.mag <= s.mag /\ q.nonce = s.nonce
  BY <1>1, SkipSound
<1>3. q = [s EXCEPT !.mag = left, !.sign = FALSE]
  BY DEF skip_burn
<1> HIDE DEF left
<1>4. ~q.sign /\ q.absent = s.absent
  BY <1>1, <1>3 DEF State
<1> HIDE DEF q
<1>5. q.mag \in Nat
  BY <1>2, StateIs
<1> QED BY <1>1, <1>2, <1>4, <1>5 DEF Held, q

LogItem == [who : Key, nonce : Nat, kind : {"exec", "lost", "skip"}, cost : Int]

\* What handling one transaction makes of the map and the history: nothing,
\* a penalty, a payment whose recipient could not be written, a payment.
MapStep(tx, m, l, n, o) ==
    LET s == tx.sender
        r == tx.recipient
        out == RuleOn(m, tx)
    IN  \/ n = m /\ o = l
        \/ /\ ~m[s].absent
           /\ n = [m EXCEPT ![s] = skip_burn(tx, m[s])]
           /\ o = Append(l, Taken(tx, "skip", m[s].mag - skip_burn(tx, m[s]).mag))
        \/ /\ out.err = "OK" /\ s # r
           /\ n = [m EXCEPT ![s] = out.sender]
           /\ o = Append(l, Settled(tx, FALSE))
        \/ /\ out.err = "OK"
           /\ n = [k \in Key |-> IF k = s THEN out.sender ELSE IF k = r THEN out.recipient ELSE m[k]]
           /\ o = Append(l, Settled(tx, TRUE))

LEMMA SupplyUpdate ==
    ASSUME NEW m \in [Key -> Slot], NEW n \in [Key -> Slot], NEW k \in Key, \A i \in Key \ {k} : n[i] = m[i]
    PROVE  Supply(m) \in Int /\ Supply(n) = Supply(m) - m[k].mag + n[k].mag
<1> DEFINE f == [i \in Key |-> m[i].mag]
           g == [i \in Key |-> n[i].mag]
<1>1. \A s \in Slot : s.mag \in Int
  BY NoAccountIs, StateIs
<1>2. (\A i \in Key : f[i] \in Int /\ g[i] \in Int) /\ \A i \in Key \ {k} : g[i] = f[i]
  BY <1>1
<1>3. f[k] = m[k].mag /\ g[k] = n[k].mag
  OBVIOUS
<1>4. Supply(m) = SumFunctionOnSet(f, Key) /\ Supply(n) = SumFunctionOnSet(g, Key)
  BY DEF Supply, SumFunction
<1> HIDE DEF f, g
<1>5. IsFiniteSet(Key)
  BY LedgerAssumption
<1>6. /\ SumFunctionOnSet(f, Key) \in Int
      /\ SumFunctionOnSet(g, Key) = SumFunctionOnSet(f, Key) - f[k] + g[k]
  BY <1>2, <1>5, SumUpdate
<1> QED BY <1>3, <1>4, <1>6

LEMMA CostsAppend ==
    ASSUME NEW l \in Seq(LogItem), NEW x \in LogItem
    PROVE  Costs(l) \in Int /\ Costs(Append(l, x)) = Costs(l) + x.cost
<1> DEFINE o == Append(l, x)
           S == 1 .. Len(l)
           e == Len(l) + 1
           f == [i \in DOMAIN l |-> l[i].cost]
           g == [i \in DOMAIN o |-> o[i].cost]
<1>1. Len(l) \in Nat /\ DOMAIN l = S
  OBVIOUS
<1>2. /\ o \in Seq(LogItem) /\ Len(o) = Len(l) + 1
      /\ \A i \in S : o[i] = l[i]
      /\ o[e] = x
  BY AppendProperties
<1>3. DOMAIN o = S \cup {e} /\ e \notin S
  <2> HIDE DEF o
  <2>1. DOMAIN o = 1 .. Len(l) + 1
    BY <1>2
  <2> QED BY <1>1, <2>1
<1>4. IsFiniteSet(S)
  BY <1>1, FS_Interval
<1>c. \A y \in LogItem : y.cost \in Int
  BY DEF LogItem
<1>5. \A i \in S : f[i] \in Int
  <2>1. \A i \in S : l[i] \in LogItem
    BY <1>1, ElementOfSeq
  <2> QED BY <1>1, <1>c, <2>1
<1>6. Costs(l) = SumFunctionOnSet(f, DOMAIN l) /\ Costs(o) = SumFunctionOnSet(g, DOMAIN o)
  BY DEF Costs, SumFunction
<1> HIDE DEF o, e
<1>7. (\A i \in S : f[i] \in Int /\ g[i] = f[i]) /\ g[e] = x.cost /\ g[e] \in Int
  BY <1>1, <1>2, <1>3, <1>5, <1>c
<1> DEFINE T == DOMAIN o
<1>t. T = S \cup {e} /\ T \ {e} = S
  BY <1>3
<1>e. e \in T
  BY <1>t
<1>f. IsFiniteSet(T)
  <2>1. IsFiniteSet(S \cup {e})
    BY <1>4, FS_AddElement
  <2> QED BY <1>t, <2>1, Zenon
<1> HIDE DEF f, g, S, T
<1>u. (\A i \in T : g[i] \in Int) /\ \A i \in T \ {e} : g[i] = f[i]
  BY <1>7, <1>t
<1>s. /\ SumFunctionOnSet(f, T \ {e}) \in Int
      /\ SumFunctionOnSet(g, T) = SumFunctionOnSet(f, T \ {e}) + g[e]
  BY <1>e, <1>f, <1>u, SumExtend
<1>8. SumFunctionOnSet(f, S) \in Int /\ SumFunctionOnSet(g, T) = SumFunctionOnSet(f, S) + g[e]
  BY <1>s, <1>t, Zenon
<1> QED BY <1>1, <1>6, <1>7, <1>8 DEF o, T

\* A step keeps the types, removes no account, and adds at most one item to
\* the history.
LEMMA StepTypes ==
    ASSUME NEW tx \in Payment, NEW m \in [Key -> Slot], NEW l \in Seq(LogItem), NEW n, NEW o,
           MapStep(tx, m, l, n, o)
    PROVE  /\ n \in [Key -> Slot] /\ o \in Seq(LogItem)
           /\ \A k \in Key : m[k] # NoAccount => n[k] # NoAccount
           /\ Len(o) <= Len(l) + 1
<1> DEFINE s == tx.sender
           r == tx.recipient
           out == RuleOn(m, tx)
<1>0. s \in Key /\ r \in Key /\ tx.amount \in Nat /\ tx.fee \in Nat /\ tx.nonce \in Nat
  BY TransferAssumption DEF Payment
<1>h. Held \subseteq Slot /\ \A a \in Held : a # NoAccount
  BY NoAccountIs DEF Slot, Held
<1>i. \A kind \in {"exec", "lost", "skip"}, c \in Int : Taken(tx, kind, c) \in LogItem
  BY <1>0 DEF Taken, LogItem
<1>j. Settled(tx, TRUE) \in LogItem /\ Settled(tx, FALSE) \in LogItem
  BY <1>0, <1>i DEF Settled
<1>l. Len(l) \in Nat
  OBVIOUS
<1>a. ASSUME NEW x \in LogItem, o = Append(l, x)
      PROVE  o \in Seq(LogItem) /\ Len(o) <= Len(l) + 1
  <2>1. o \in Seq(LogItem) /\ Len(o) = Len(l) + 1
    BY <1>a, AppendProperties
  <2> QED BY <1>l, <2>1
<1>1. CASE n = m /\ o = l
  BY <1>1, <1>l
<1>2. CASE /\ ~m[s].absent
           /\ n = [m EXCEPT ![s] = skip_burn(tx, m[s])]
           /\ o = Append(l, Taken(tx, "skip", m[s].mag - skip_burn(tx, m[s]).mag))
  <2>1. m[s] \in Held
    BY <1>0, <1>2, NoAccountIs DEF Slot
  <2>2. skip_burn(tx, m[s]) \in Held /\ skip_burn(tx, m[s]).mag \in Nat
    BY <2>1, SkipWrites
  <2>3. m[s].mag \in Nat
    BY <2>1, StateIs DEF Held
  <2>4. m[s].mag - skip_burn(tx, m[s]).mag \in Int
    BY <2>2, <2>3
  <2>5. n \in [Key -> Slot] /\ \A k \in Key : m[k] # NoAccount => n[k] # NoAccount
    BY <1>0, <1>2, <1>h, <2>2
  <2> QED BY <1>2, <1>a, <1>i, <2>4, <2>5
<1>3. CASE out.err = "OK" /\ s # r /\ n = [m EXCEPT ![s] = out.sender] /\ o = Append(l, Settled(tx, FALSE))
  <2>1. out.sender \in Held
    BY <1>3, RuleWrites
  <2> HIDE DEF out
  <2>2. n \in [Key -> Slot] /\ \A k \in Key : m[k] # NoAccount => n[k] # NoAccount
    BY <1>0, <1>3, <1>h, <2>1
  <2> QED BY <1>3, <1>a, <1>j, <2>2
<1>4. CASE /\ out.err = "OK"
           /\ n = [k \in Key |-> IF k = s THEN out.sender ELSE IF k = r THEN out.recipient ELSE m[k]]
           /\ o = Append(l, Settled(tx, TRUE))
  <2>1. out.sender \in Held /\ (s # r => out.recipient \in Held)
    BY <1>4, RuleWrites
  <2> HIDE DEF out
  <2>2. n \in [Key -> Slot] /\ \A k \in Key : m[k] # NoAccount => n[k] # NoAccount
    BY <1>0, <1>4, <1>h, <2>1
  <2> QED BY <1>4, <1>a, <1>j, <2>2
<1> QED BY <1>1, <1>2, <1>3, <1>4 DEF MapStep

\* A step conserves money: what the balances lose the history gains.
LEMMA StepConserves ==
    ASSUME NEW tx \in Payment, NEW m \in [Key -> Slot], NEW l \in Seq(LogItem), NEW n, NEW o,
           MapStep(tx, m, l, n, o)
    PROVE  Supply(n) + Costs(o) = Supply(m) + Costs(l)
<1> DEFINE s == tx.sender
           r == tx.recipient
           out == RuleOn(m, tx)
<1>0. s \in Key /\ r \in Key /\ tx.amount \in Nat /\ tx.fee \in Nat /\ tx.nonce \in Nat
  BY TransferAssumption DEF Payment
<1>n. n \in [Key -> Slot]
  BY StepTypes
<1>m. \A a \in Slot : a.mag \in Nat
  BY NoAccountIs, StateIs
<1>i. \A kind \in {"exec", "lost", "skip"}, c \in Int : Taken(tx, kind, c) \in LogItem /\ Taken(tx, kind, c).cost = c
  BY <1>0 DEF Taken, LogItem
<1>j. /\ Settled(tx, TRUE) \in LogItem /\ Settled(tx, TRUE).cost = tx.fee
      /\ Settled(tx, FALSE) \in LogItem /\ Settled(tx, FALSE).cost = tx.amount + tx.fee
  BY <1>0, <1>i DEF Settled
<1>1. CASE n = m /\ o = l
  BY <1>1
<1>2. CASE /\ ~m[s].absent
           /\ n = [m EXCEPT ![s] = skip_burn(tx, m[s])]
           /\ o = Append(l, Taken(tx, "skip", m[s].mag - skip_burn(tx, m[s]).mag))
  <2> DEFINE c == m[s].mag - n[s].mag
  <2>1. n[s] = skip_burn(tx, m[s]) /\ \A i \in Key \ {s} : n[i] = m[i]
    BY <1>0, <1>2
  <2>2. n[s].mag \in Nat /\ m[s].mag \in Nat
    BY <1>0, <1>m, <1>n
  <2>3. Supply(m) \in Int /\ Supply(n) = Supply(m) - m[s].mag + n[s].mag
    BY <1>0, <1>n, <2>1, SupplyUpdate
  <2>c. c \in Int /\ o = Append(l, Taken(tx, "skip", c))
    BY <1>2, <2>1, <2>2
  <2> HIDE DEF c
  <2>t. Taken(tx, "skip", c) \in LogItem /\ Taken(tx, "skip", c).cost = c
    BY <1>i, <2>c
  <2>4. Costs(l) \in Int /\ Costs(o) = Costs(l) + c
    BY <2>c, <2>t, CostsAppend
  <2> QED BY <2>2, <2>3, <2>4 DEF c
<1>3. CASE out.err = "OK" /\ s # r /\ n = [m EXCEPT ![s] = out.sender] /\ o = Append(l, Settled(tx, FALSE))
  <2>0. out.sender.mag = m[s].mag - (tx.amount + tx.fee) + (IF s = r THEN tx.amount ELSE 0)
    BY <1>3, RuleWrites
  <2> HIDE DEF out
  <2>1. n[s] = out.sender /\ \A i \in Key \ {s} : n[i] = m[i]
    BY <1>0, <1>3
  <2>2. n[s].mag \in Nat /\ m[s].mag \in Nat
    BY <1>0, <1>m, <1>n
  <2>3. Supply(m) \in Int /\ Supply(n) = Supply(m) - m[s].mag + n[s].mag
    BY <1>0, <1>n, <2>1, SupplyUpdate
  <2>4. Costs(l) \in Int /\ Costs(o) = Costs(l) + (tx.amount + tx.fee)
    BY <1>3, <1>j, CostsAppend
  <2>5. n[s].mag = m[s].mag - (tx.amount + tx.fee)
    BY <1>0, <1>3, <2>0, <2>1, <2>2
  <2> QED BY <1>0, <2>2, <2>3, <2>4, <2>5
<1>4. CASE /\ out.err = "OK"
           /\ n = [k \in Key |-> IF k = s THEN out.sender ELSE IF k = r THEN out.recipient ELSE m[k]]
           /\ o = Append(l, Settled(tx, TRUE))
  <2>0. /\ out.sender \in Held
        /\ out.sender.mag = m[s].mag - (tx.amount + tx.fee) + (IF s = r THEN tx.amount ELSE 0)
        /\ s # r => out.recipient.mag = m[r].mag + tx.amount
    BY <1>4, RuleWrites
  <2> HIDE DEF out
  <2> DEFINE x == [m EXCEPT ![s] = out.sender]
  <2>x. x \in [Key -> Slot] /\ x[s] = out.sender /\ \A i \in Key \ {s} : x[i] = m[i]
    BY <1>0, <2>0 DEF Slot
  <2> HIDE DEF x
  <2>1. Costs(l) \in Int /\ Costs(o) = Costs(l) + tx.fee
    BY <1>4, <1>j, CostsAppend
  <2>2. x[s].mag \in Nat /\ m[s].mag \in Nat /\ m[r].mag \in Nat /\ n[r].mag \in Nat
    BY <1>0, <1>m, <1>n, <2>x
  <2>3. Supply(m) \in Int /\ Supply(x) = Supply(m) - m[s].mag + x[s].mag
    BY <1>0, <2>x, SupplyUpdate
  <2>4. CASE s = r
    <3>1. n = x
      BY <1>0, <1>4, <1>n, <2>4, <2>x
    <3>2. x[s].mag = m[s].mag - tx.fee
      BY <1>0, <2>0, <2>2, <2>4, <2>x
    <3> QED BY <1>0, <2>1, <2>2, <2>3, <3>1, <3>2
  <2>5. CASE s # r
    <3>1. x[r] = m[r] /\ n[r] = out.recipient /\ \A i \in Key \ {r} : n[i] = x[i]
      BY <1>0, <1>4, <2>5, <2>x
    <3>2. Supply(x) \in Int /\ Supply(n) = Supply(x) - x[r].mag + n[r].mag
      BY <1>0, <1>n, <2>x, <3>1, SupplyUpdate
    <3>3. x[s].mag = m[s].mag - (tx.amount + tx.fee)
      BY <1>0, <2>0, <2>2, <2>5, <2>x
    <3>4. n[r].mag = m[r].mag + tx.amount /\ x[r].mag = m[r].mag
      BY <2>0, <2>5, <3>1
    <3>5. Supply(n) = Supply(x) + tx.amount
      BY <1>0, <2>2, <3>2, <3>4
    <3>6. Supply(x) = Supply(m) - tx.amount - tx.fee
      BY <1>0, <2>2, <2>3, <3>3
    <3> QED BY <1>0, <2>1, <2>3, <3>2, <3>5, <3>6
  <2> QED BY <2>4, <2>5
<1> QED BY <1>1, <1>2, <1>3, <1>4 DEF MapStep

\* The nonces of a history and of the map behind it: an account's nonce has
\* advanced at most once per item, is past every settled item of the account,
\* and the settled items of one account have rising nonces.
Nonces(m, l) ==
    /\ \A k \in Key : m[k].nonce <= Len(l)
    /\ \A i \in DOMAIN l : l[i].kind # "skip" => l[i].nonce <= m[l[i].who].nonce
    /\ \A i, j \in DOMAIN l :
         i < j /\ l[i].who = l[j].who /\ l[i].kind # "skip" /\ l[j].kind # "skip" => l[i].nonce < l[j].nonce

\* An item is appended to a history whose nonces are in order.
LEMMA NoncesAppend ==
    ASSUME NEW m \in [Key -> Slot], NEW n \in [Key -> Slot], NEW l \in Seq(LogItem), NEW x \in LogItem,
           Nonces(m, l),
           \A k \in Key : m[k].nonce <= n[k].nonce /\ n[k].nonce <= Len(l) + 1,
           x.kind # "skip" => x.nonce = m[x.who].nonce + 1 /\ n[x.who].nonce = x.nonce
    PROVE  Nonces(n, Append(l, x))
<1> DEFINE o == Append(l, x)
           e == Len(l) + 1
<1>1. Len(l) \in Nat /\ DOMAIN l = 1 .. Len(l)
  OBVIOUS
<1>2. /\ o \in Seq(LogItem) /\ Len(o) = Len(l) + 1
      /\ \A i \in 1 .. Len(l) : o[i] = l[i]
      /\ o[e] = x
  BY AppendProperties
<1> HIDE DEF o
<1>3. DOMAIN o = 1 .. Len(l) + 1
  BY <1>2
<1>4. \A i \in DOMAIN o : i \in Nat /\ i <= e /\ (i # e => i \in DOMAIN l /\ o[i] = l[i])
  BY <1>1, <1>2, <1>3
<1>5. \A k \in Key : m[k].nonce \in Nat /\ n[k].nonce \in Nat
  BY NoAccountIs, StateIs
<1>6. \A i \in DOMAIN l : l[i] \in LogItem
  BY <1>1, ElementOfSeq
<1>7. \A y \in LogItem : y.who \in Key /\ y.nonce \in Nat
  BY DEF LogItem
<1>8. e \in Nat
  BY <1>1
<1> HIDE DEF e
<1>a. \A k \in Key : n[k].nonce <= Len(o)
  BY <1>2
<1>b. ASSUME NEW i \in DOMAIN o, o[i].kind # "skip" PROVE o[i].nonce <= n[o[i].who].nonce
  <2>1. CASE i = e
    BY <1>2, <1>5, <1>7, <1>b, <2>1
  <2>2. CASE i # e
    <3>1. i \in DOMAIN l /\ o[i] = l[i] /\ l[i] \in LogItem
      BY <1>4, <1>6, <2>2
    <3>2. l[i].who \in Key /\ l[i].nonce \in Nat
      BY <1>7, <3>1
    <3>3. l[i].nonce <= m[l[i].who].nonce
      BY <1>b, <3>1 DEF Nonces
    <3> QED BY <1>5, <3>1, <3>2, <3>3
  <2> QED BY <2>1, <2>2
<1>c. ASSUME NEW i \in DOMAIN o, NEW j \in DOMAIN o, i < j, o[i].who = o[j].who,
             o[i].kind # "skip", o[j].kind # "skip"
      PROVE  o[i].nonce < o[j].nonce
  <2>1. i # e /\ i \in DOMAIN l /\ o[i] = l[i] /\ l[i] \in LogItem
    <3>1. i # e
      BY <1>4, <1>8, <1>c
    <3> QED BY <1>4, <1>6, <3>1
  <2>2. CASE j = e
    <3>1. l[i].who \in Key /\ l[i].nonce \in Nat
      BY <1>7, <2>1
    <3>2. l[i].nonce <= m[l[i].who].nonce
      BY <1>c, <2>1 DEF Nonces
    <3>3. l[i].who = x.who /\ x.kind # "skip"
      BY <1>2, <1>c, <2>1, <2>2
    <3>4. x.nonce = m[l[i].who].nonce + 1
      BY <3>3
    <3>5. l[i].nonce < x.nonce
      BY <1>5, <3>1, <3>2, <3>4
    <3> QED BY <1>2, <2>1, <2>2, <3>5
  <2>3. CASE j # e
    <3>1. j \in DOMAIN l /\ o[j] = l[j]
      BY <1>4, <2>3
    <3> QED BY <1>c, <2>1, <3>1 DEF Nonces
  <2> QED BY <2>2, <2>3
<1> QED BY <1>a, <1>b, <1>c DEF Nonces, o

\* A step keeps the nonces in order, as long as they do not wrap.
LEMMA StepNonces ==
    ASSUME NEW tx \in Payment, NEW m \in [Key -> Slot], NEW l \in Seq(LogItem), NEW n, NEW o,
           MapStep(tx, m, l, n, o), Nonces(m, l), Len(l) + 1 < NonceMod
    PROVE  Nonces(n, o)
<1> DEFINE s == tx.sender
           r == tx.recipient
           out == RuleOn(m, tx)
<1>0. s \in Key /\ r \in Key /\ tx.amount \in Nat /\ tx.fee \in Nat /\ tx.nonce \in Nat
  BY TransferAssumption DEF Payment
<1>n. n \in [Key -> Slot]
  BY StepTypes
<1>m. \A k \in Key : m[k].nonce \in Nat /\ n[k].nonce \in Nat
  BY <1>n, NoAccountIs, StateIs
<1>l. Len(l) \in Nat /\ \A k \in Key : m[k].nonce <= Len(l)
  BY DEF Nonces
<1>i. \A kind \in {"exec", "lost", "skip"}, c \in Int :
        LET t == Taken(tx, kind, c)
        IN  t \in LogItem /\ t.kind = kind /\ t.who = s /\ t.nonce = tx.nonce
  BY <1>0 DEF Taken, LogItem
<1>j. \A ok \in BOOLEAN : Settled(tx, ok) \in LogItem /\ Settled(tx, ok).who = s /\ Settled(tx, ok).nonce = tx.nonce
  BY <1>0, <1>i DEF Settled
<1>1. CASE n = m /\ o = l
  BY <1>1
<1>2. CASE /\ ~m[s].absent
           /\ n = [m EXCEPT ![s] = skip_burn(tx, m[s])]
           /\ o = Append(l, Taken(tx, "skip", m[s].mag - skip_burn(tx, m[s]).mag))
  <2> DEFINE q == skip_burn(tx, m[s])
             c == m[s].mag - q.mag
             x == Taken(tx, "skip", c)
  <2>1. m[s] \in Held
    BY <1>0, <1>2, NoAccountIs DEF Slot
  <2>2. q.nonce = m[s].nonce /\ q.mag \in Nat
    BY <2>1, SkipWrites
  <2>3. m[s].mag \in Nat
    BY <2>1, StateIs DEF Held
  <2>4. c \in Int
    BY <2>2, <2>3
  <2>5. n = [m EXCEPT ![s] = q] /\ o = Append(l, x)
    BY <1>2
  <2> HIDE DEF q, c
  <2>6. x \in LogItem /\ x.kind = "skip"
    BY <1>i, <2>4
  <2>7. \A k \in Key : n[k].nonce = m[k].nonce
    BY <1>0, <2>2, <2>5
  <2>8. ASSUME NEW k \in Key PROVE m[k].nonce <= n[k].nonce /\ n[k].nonce <= Len(l) + 1
    <3>1. m[k].nonce \in Nat /\ n[k].nonce = m[k].nonce /\ m[k].nonce <= Len(l)
      BY <1>l, <1>m, <2>7
    <3> QED BY <1>l, <3>1
  <2> HIDE DEF x
  <2> QED BY <1>n, <2>5, <2>6, <2>8, NoncesAppend
<1>3. CASE /\ out.err = "OK"
           /\ \E ok \in BOOLEAN : o = Append(l, Settled(tx, ok))
           /\ n[s] = out.sender
           /\ \A k \in Key \ {s} : n[k] = m[k] \/ (k = r /\ n[k] = out.recipient)
  <2>1. PICK ok \in BOOLEAN : o = Append(l, Settled(tx, ok))
    BY <1>3
  <2> DEFINE x == Settled(tx, ok)
  <2>2. x \in LogItem /\ x.who = s /\ x.nonce = tx.nonce
    BY <1>j
  <2>3. /\ tx.nonce = (m[s].nonce + 1) % NonceMod
        /\ out.sender.nonce = (m[s].nonce + 1) % NonceMod
        /\ s # r => out.recipient.nonce = m[r].nonce
    BY <1>3, RuleWrites
  <2> HIDE DEF out, x
  <2>4. (m[s].nonce + 1) % NonceMod = m[s].nonce + 1
    <3> DEFINE a == m[s].nonce + 1
    <3>0. m[s].nonce \in Nat /\ m[s].nonce <= Len(l) /\ NonceMod \in Nat
      BY <1>0, <1>l, <1>m, TransferAssumption
    <3>1. a \in Nat /\ a < NonceMod
      BY <1>l, <3>0
    <3> HIDE DEF a
    <3>2. a % NonceMod = a
      BY <3>1, TransferAssumption
    <3> QED BY <3>2 DEF a
  <2>5. tx.nonce = m[s].nonce + 1 /\ n[s].nonce = m[s].nonce + 1
    BY <1>3, <2>3, <2>4
  <2>6. \A k \in Key \ {s} : n[k].nonce = m[k].nonce
    BY <1>3, <2>3
  <2>7. ASSUME NEW k \in Key PROVE m[k].nonce <= n[k].nonce /\ n[k].nonce <= Len(l) + 1
    <3>1. CASE k = s
      BY <1>0, <1>l, <1>m, <2>5, <3>1
    <3>2. CASE k # s
      BY <1>l, <1>m, <2>6, <3>2
    <3> QED BY <3>1, <3>2
  <2>8. x.kind # "skip" => x.nonce = m[x.who].nonce + 1 /\ n[x.who].nonce = x.nonce
    BY <2>2, <2>5
  <2>9. o = Append(l, x)
    BY <2>1 DEF x
  <2> QED BY <1>n, <2>2, <2>7, <2>8, <2>9, NoncesAppend
<1>4. CASE out.err = "OK" /\ s # r /\ n = [m EXCEPT ![s] = out.sender] /\ o = Append(l, Settled(tx, FALSE))
  <2> HIDE DEF out
  <2>1. n[s] = out.sender /\ \A k \in Key \ {s} : n[k] = m[k]
    BY <1>0, <1>4
  <2> QED BY <1>3, <1>4, <2>1
<1>5. CASE /\ out.err = "OK"
           /\ n = [k \in Key |-> IF k = s THEN out.sender ELSE IF k = r THEN out.recipient ELSE m[k]]
           /\ o = Append(l, Settled(tx, TRUE))
  <2> HIDE DEF out
  <2>1. n[s] = out.sender /\ \A k \in Key \ {s} : n[k] = m[k] \/ (k = r /\ n[k] = out.recipient)
    BY <1>0, <1>5
  <2> QED BY <1>3, <1>5, <2>1
<1> QED BY <1>1, <1>2, <1>4, <1>5 DEF MapStep

---------------------------------------------------------------------------
(* Operations on the vault.                                                *)

\* The map behind a root.
Book(V, r) == [k \in Key |-> lookup_account(V, r, k)]

VaultOK(V, r) ==
    V.tail \in Nat /\ V.nseg \in Nat /\ Sound(V, V.tail, r) /\ Book(V, r) \in [Key -> Slot]

\* Slots were only added.
Grown(V, U) == V.tail <= U.tail /\ Keeps(V, U, V.tail)

LEMMA GrownChain ==
    ASSUME NEW V, NEW U, NEW W, V.tail \in Nat, U.tail \in Nat, W.tail \in Nat, Grown(V, U), Grown(U, W)
    PROVE  Grown(V, W)
<1>1. V.tail <= U.tail /\ U.tail <= W.tail /\ Keeps(V, U, V.tail) /\ Keeps(U, W, U.tail)
  BY DEF Grown
<1>2. Keeps(V, W, V.tail)
  BY <1>1, KeepsChain
<1>3. V.tail <= W.tail
  BY <1>1
<1> QED BY <1>2, <1>3 DEF Grown

\* One set_account, as the map sees it.
LEMMA WriteIs ==
    ASSUME NEW V, NEW r, VaultOK(V, r), NEW k \in Key, NEW st \in Held, ~st.sign
    PROVE  LET x == set_account(V, r, k, st)
               m == Book(V, r)
           IN  /\ VaultOK(x.v, x.root) /\ Grown(V, x.v)
               /\ x.res = "fault"  => m[k] = NoAccount /\ Book(x.v, x.root) = m
               /\ x.res # "fault" => Book(x.v, x.root) = [m EXCEPT ![k] = st]
<1> DEFINE x == set_account(V, r, k, st)
           m == Book(V, r)
           n == Book(x.v, x.root)
<1>1. ~st.absent /\ encodable(st)
  BY StateIs DEF Held
<1>2. V.tail \in Nat /\ V.nseg \in Nat /\ Sound(V, V.tail, r)
  BY DEF VaultOK
<1>s. st \in Slot /\ m \in [Key -> Slot]
  BY DEF Slot, VaultOK
<1>3. /\ x.v.tail \in Nat /\ V.tail <= x.v.tail /\ x.v.nseg \in Nat
      /\ Keeps(V, x.v, V.tail)
      /\ Sound(x.v, x.v.tail, x.root)
      /\ x.res = "fault" => x.v = V /\ x.root = r /\ lookup_account(V, r, k) = NoAccount
      /\ x.res # "fault" => \A j \in Key : lookup_account(x.v, x.root, j) =
                                              IF j = k THEN st ELSE lookup_account(V, r, j)
  BY <1>1, <1>2, SetAccountWrites
<1> HIDE DEF x
<1>4. x.res = "fault" => m[k] = NoAccount /\ n = m
  BY <1>3 DEF Book
<1>5. x.res # "fault" => n = [m EXCEPT ![k] = st]
  BY <1>3 DEF Book
<1>6. n \in [Key -> Slot]
  BY <1>s, <1>4, <1>5
<1> QED BY <1>3, <1>4, <1>5, <1>6 DEF VaultOK, Grown, x

\* A write faults only where another key holds the leaf.
LEMMA WriteFaults ==
    ASSUME NEW V, NEW r, VaultOK(V, r), NEW k \in Key, NEW st \in Held, ~st.sign,
           set_account(V, r, k, st).res = "fault"
    PROVE  \E j \in Key \ {k} : Together(k, j, 0) /\ ~Book(V, r)[j].absent
<1>1. encodable(st) /\ Sound(V, V.tail, r)
  BY StateIs DEF Held, VaultOK
<1>2. \E j \in Key \ {k} : Together(k, j, 0) /\ ~lookup_account(V, r, j).absent
  BY <1>1, FaultIsCollision
<1> QED BY <1>2 DEF Book

LEMMA RulesIs ==
    ASSUME NEW V, NEW r, NEW tx \in Payment
    PROVE  Rules(V, r, tx) = RuleOn(Book(V, r), tx)
BY DEF Rules, RuleOn, Book, Payment

\* The writes of an accepted transaction are a step of the map.
LEMMA SettleIs ==
    ASSUME NEW V, NEW r, VaultOK(V, r), NEW tx \in Payment, Rules(V, r, tx).err = "OK", NEW l
    PROVE  LET rule == Rules(V, r, tx)
               x == Settle(V, r, tx, rule.sender, rule.recipient)
           IN  /\ VaultOK(x.v, x.root) /\ Grown(V, x.v)
               /\ MapStep(tx, Book(V, r), l, Book(x.v, x.root), Append(l, Settled(tx, x.ok)))
<1> DEFINE s   == tx.sender
           q   == tx.recipient
           m   == Book(V, r)
           out == RuleOn(m, tx)
           a   == set_account(V, r, s, out.sender)
           b   == set_account(a.v, a.root, q, out.recipient)
           x   == Settle(V, r, tx, out.sender, out.recipient)
<1>0. s \in Key /\ q \in Key
  BY DEF Payment
<1>1. Rules(V, r, tx) = out
  BY RulesIs
<1>2. m \in [Key -> Slot] /\ out.err = "OK"
  BY <1>1 DEF VaultOK
<1>3. /\ ~m[s].absent
      /\ out.sender \in Held /\ ~out.sender.sign
      /\ s # q => out.recipient \in Held /\ ~out.recipient.sign
  BY <1>2, RuleWrites
<1>x. x = IF a.res = "fault" \/ s = q THEN [v |-> a.v, root |-> a.root, ok |-> a.res # "fault"]
          ELSE [v |-> b.v, root |-> b.root, ok |-> b.res # "fault"]
  BY DEF Settle
<1> HIDE DEF out, x
<1>4. /\ VaultOK(a.v, a.root) /\ Grown(V, a.v)
      /\ a.res = "fault"  => m[s] = NoAccount
      /\ a.res # "fault" => Book(a.v, a.root) = [m EXCEPT ![s] = out.sender]
  BY <1>0, <1>3, WriteIs
<1> HIDE DEF a, m
<1>5. a.res # "fault"
  BY <1>3, <1>4, NoAccountIs
<1> DEFINE n == [m EXCEPT ![s] = out.sender]
<1>6. Book(a.v, a.root) = n
  BY <1>4, <1>5
<1>7. CASE s = q
  <2>1. x.v = a.v /\ x.root = a.root /\ x.ok = TRUE
    BY <1>5, <1>7, <1>x
  <2>2. n = [k \in Key |-> IF k = s THEN out.sender ELSE IF k = q THEN out.recipient ELSE m[k]]
    BY <1>2, <1>7
  <2>3. MapStep(tx, m, l, n, Append(l, Settled(tx, TRUE)))
    BY <1>2, <2>2 DEF MapStep, out
  <2> QED BY <1>1, <1>4, <1>6, <2>1, <2>3 DEF m, out, x
<1>8. CASE s # q
  <2>1. x.v = b.v /\ x.root = b.root /\ x.ok = (b.res # "fault")
    BY <1>5, <1>8, <1>x
  <2>2. /\ VaultOK(b.v, b.root) /\ Grown(a.v, b.v)
        /\ b.res = "fault"  => Book(b.v, b.root) = n
        /\ b.res # "fault" => Book(b.v, b.root) = [n EXCEPT ![q] = out.recipient]
    <3> HIDE DEF n
    <3>1. VaultOK(a.v, a.root) /\ out.recipient \in Held /\ ~out.recipient.sign
      BY <1>3, <1>4, <1>8
    <3>2. /\ VaultOK(b.v, b.root) /\ Grown(a.v, b.v)
          /\ b.res = "fault"  => Book(b.v, b.root) = Book(a.v, a.root)
          /\ b.res # "fault" => Book(b.v, b.root) = [Book(a.v, a.root) EXCEPT ![q] = out.recipient]
      BY <1>0, <3>1, WriteIs
    <3> QED BY <1>6, <3>2
  <2> HIDE DEF b
  <2>3. Grown(V, b.v)
    BY <1>4, <2>2, GrownChain DEF VaultOK
  <2>4. CASE b.res = "fault"
    <3>1. MapStep(tx, m, l, n, Append(l, Settled(tx, FALSE)))
      BY <1>2, <1>8 DEF MapStep, out
    <3> QED BY <1>1, <2>1, <2>2, <2>3, <2>4, <3>1 DEF m, out, x
  <2>5. CASE b.res # "fault"
    <3> DEFINE o == [n EXCEPT ![q] = out.recipient]
    <3>1. o = [k \in Key |-> IF k = s THEN out.sender ELSE IF k = q THEN out.recipient ELSE m[k]]
      BY <1>0, <1>2, <1>8
    <3> HIDE DEF o
    <3>2. MapStep(tx, m, l, o, Append(l, Settled(tx, TRUE)))
      BY <1>2, <3>1 DEF MapStep, out
    <3>3. Book(b.v, b.root) = o
      BY <2>2, <2>5 DEF o
    <3> QED BY <1>1, <2>1, <2>2, <2>3, <2>5, <3>2, <3>3 DEF m, out, x
  <2> QED BY <2>4, <2>5
<1> QED BY <1>7, <1>8

\* Doing nothing is a step.
LEMMA IdleIs ==
    ASSUME NEW V, NEW r, VaultOK(V, r), NEW l, NEW tx
    PROVE  Grown(V, V) /\ MapStep(tx, Book(V, r), l, Book(V, r), l)
<1>1. V.tail <= V.tail
  BY DEF VaultOK
<1>2. Keeps(V, V, V.tail)
  BY DEF Keeps
<1> QED BY <1>1, <1>2 DEF Grown, MapStep

\* One round of execute_batch is a step of the map.
LEMMA BatchStepIs ==
    ASSUME NEW s, VaultOK(s.v, s.root), NEW tx \in Payment
    PROVE  LET b == BatchStep(s, tx)
           IN  /\ VaultOK(b.v, b.root) /\ Grown(s.v, b.v)
               /\ MapStep(tx, Book(s.v, s.root), s.log, Book(b.v, b.root), b.log)
<1> DEFINE rule == Rules(s.v, s.root, tx)
           x == Settle(s.v, s.root, tx, rule.sender, rule.recipient)
           b == BatchStep(s, tx)
<1>1. b = IF rule.err # "OK" THEN s
          ELSE [v |-> x.v, root |-> x.root, log |-> Append(s.log, Settled(tx, x.ok))]
  BY DEF BatchStep
<1>2. CASE rule.err # "OK"
  <2>1. b = s
    BY <1>1, <1>2
  <2> QED BY <2>1, IdleIs
<1>3. CASE rule.err = "OK"
  <2>1. /\ VaultOK(x.v, x.root) /\ Grown(s.v, x.v)
        /\ MapStep(tx, Book(s.v, s.root), s.log, Book(x.v, x.root), Append(s.log, Settled(tx, x.ok)))
    BY <1>3, SettleIs
  <2> HIDE DEF x
  <2>2. b.v = x.v /\ b.root = x.root /\ b.log = Append(s.log, Settled(tx, x.ok))
    BY <1>1, <1>3
  <2> QED BY <2>1, <2>2
<1> QED BY <1>2, <1>3

\* f_exec on one entry is a step of the map.
LEMMA FExecIs ==
    ASSUME VaultOK(v, root), NEW e \in Entry
    PROVE  LET x == f_exec(e)
           IN  /\ VaultOK(x.v, x.root) /\ Grown(v, x.v)
               /\ MapStep(e.tx, Book(v, root), log, Book(x.v, x.root), x.log)
<1> DEFINE tx   == e.tx
           m    == Book(v, root)
           s    == lookup_account(v, root, tx.sender)
           burn == skip_burn(tx, s)
           w    == set_account(v, root, tx.sender, burn)
           rule == Rules(v, root, tx)
           y    == Settle(v, root, tx, rule.sender, rule.recipient)
           x    == f_exec(e)
<1>0. tx \in Payment /\ tx.sender \in Key
  BY LedgerAssumption DEF Payment
<1>1. \/ x.v = v /\ x.root = root /\ x.log = log
      \/ /\ ~s.absent /\ w.res # "fault"
         /\ x.v = w.v /\ x.root = w.root
         /\ x.log = Append(log, Taken(tx, "skip", s.mag - burn.mag))
      \/ /\ rule.err = "OK"
         /\ x.v = y.v /\ x.root = y.root /\ x.log = Append(log, Settled(tx, y.ok))
  <2> HIDE DEF s, burn, w, rule, y, tx
  <2> DEFINE skip == [verdict |-> "OK_SKIP", v |-> w.v, root |-> w.root,
                      log |-> Append(log, Taken(tx, "skip", s.mag - burn.mag))]
             paid == [verdict |-> IF y.ok THEN "OK_EXEC" ELSE "REJECT_INSOLVENT",
                      v |-> y.v, root |-> y.root, log |-> Append(log, Settled(tx, y.ok))]
             same(z) == [verdict |-> z, v |-> v, root |-> root, log |-> log]
  <2>1. x = CASE e.status = "PAD" -> same("PAD_NEUTRAL")
              [] e.status # "PAD" /\ e.pt # pt_hash_of(tx) -> same("REJECT_BINDING")
              [] OTHER ->
                 IF s.absent \/ ~NonceOk(tx, s) THEN same("REJECT_NONCE")
                 ELSE IF tx.amount + tx.fee >= U128 THEN same("REJECT_INSOLVENT")
                 ELSE IF ~Solvent(tx, s)
                 THEN IF e.status = "SKIP_USER"
                      THEN IF w.res = "fault" THEN same("REJECT_INSOLVENT") ELSE skip
                      ELSE same("REJECT_INSOLVENT")
                 ELSE IF rule.err # "OK" THEN same("REJECT_INSOLVENT")
                 ELSE paid
    BY DEF f_exec, s, burn, w, rule, y, tx
  <2>2. \A z : same(z).v = v /\ same(z).root = root /\ same(z).log = log
    OBVIOUS
  <2>3. /\ skip.v = w.v /\ skip.root = w.root
        /\ skip.log = Append(log, Taken(tx, "skip", s.mag - burn.mag))
        /\ paid.v = y.v /\ paid.root = y.root /\ paid.log = Append(log, Settled(tx, y.ok))
    OBVIOUS
  <2> HIDE DEF skip, paid, same, x
  <2>4. \/ \E z : x = same(z)
        \/ ~s.absent /\ w.res # "fault" /\ x = skip
        \/ rule.err = "OK" /\ x = paid
    BY <2>1
  <2> QED BY <2>2, <2>3, <2>4
<1> HIDE DEF x
<1>2. CASE x.v = v /\ x.root = root /\ x.log = log
  BY <1>2, IdleIs DEF x
<1>3. CASE /\ ~s.absent /\ w.res # "fault"
           /\ x.v = w.v /\ x.root = w.root
           /\ x.log = Append(log, Taken(tx, "skip", s.mag - burn.mag))
  <2>1. m[tx.sender] = s /\ m \in [Key -> Slot]
    BY <1>0 DEF Book, VaultOK
  <2>2. s \in Held
    BY <1>0, <1>3, <2>1, NoAccountIs DEF Slot
  <2> HIDE DEF s, m
  <2>3. burn \in Held /\ ~burn.sign
    BY <1>0, <2>2, SkipWrites
  <2> HIDE DEF burn, tx
  <2>4. VaultOK(w.v, w.root) /\ Grown(v, w.v) /\ Book(w.v, w.root) = [m EXCEPT ![tx.sender] = burn]
    BY <1>0, <1>3, <2>3, WriteIs DEF m
  <2> HIDE DEF w
  <2>5. MapStep(tx, m, log, Book(x.v, x.root), x.log)
    BY <1>3, <2>1, <2>4 DEF MapStep, burn
  <2> QED BY <1>3, <2>4, <2>5 DEF x, m, tx
<1>4. CASE /\ rule.err = "OK"
           /\ x.v = y.v /\ x.root = y.root /\ x.log = Append(log, Settled(tx, y.ok))
  <2>1. /\ VaultOK(y.v, y.root) /\ Grown(v, y.v)
        /\ MapStep(tx, m, log, Book(y.v, y.root), Append(log, Settled(tx, y.ok)))
    BY <1>0, <1>4, SettleIs
  <2> HIDE DEF y
  <2> QED BY <1>4, <2>1 DEF x
<1> QED BY <1>1, <1>2, <1>3, <1>4

\* What n transactions make of a vault, a root and a history.
Ran(V, r, l, U, q, o, n) ==
    /\ VaultOK(U, q) /\ Grown(V, U) /\ o \in Seq(LogItem) /\ Len(o) <= Len(l) + n
    /\ \A k \in Key : Book(V, r)[k] # NoAccount => Book(U, q)[k] # NoAccount
    /\ Supply(Book(U, q)) + Costs(o) = Supply(Book(V, r)) + Costs(l)
    /\ Nonces(Book(V, r), l) /\ Len(l) + n < NonceMod => Nonces(Book(U, q), o)

\* One transaction more.
LEMMA RanThen ==
    ASSUME NEW V, NEW r, VaultOK(V, r), NEW l \in Seq(LogItem), NEW U, NEW q, NEW o, NEW n \in Nat,
           Ran(V, r, l, U, q, o, n),
           NEW W, NEW p, NEW z, VaultOK(W, p), Grown(U, W),
           NEW tx \in Payment, MapStep(tx, Book(U, q), o, Book(W, p), z)
    PROVE  Ran(V, r, l, W, p, z, n + 1)
<1> DEFINE m == Book(V, r)
           b == Book(U, q)
           c == Book(W, p)
<1>1. /\ VaultOK(U, q) /\ Grown(V, U) /\ o \in Seq(LogItem) /\ Len(o) <= Len(l) + n
      /\ \A k \in Key : m[k] # NoAccount => b[k] # NoAccount
      /\ Supply(b) + Costs(o) = Supply(m) + Costs(l)
      /\ Nonces(m, l) /\ Len(l) + n < NonceMod => Nonces(b, o)
  BY DEF Ran
<1>2. b \in [Key -> Slot] /\ V.tail \in Nat /\ U.tail \in Nat /\ W.tail \in Nat
  BY <1>1 DEF VaultOK
<1> HIDE DEF m, b, c
<1>m. MapStep(tx, b, o, c, z)
  BY DEF b, c
<1>3. /\ z \in Seq(LogItem) /\ Len(z) <= Len(o) + 1
      /\ \A k \in Key : b[k] # NoAccount => c[k] # NoAccount
  BY <1>1, <1>2, <1>m, StepTypes
<1>4. Supply(c) + Costs(z) = Supply(b) + Costs(o)
  BY <1>1, <1>2, <1>m, StepConserves
<1>5. Len(l) \in Nat /\ Len(o) \in Nat /\ Len(z) \in Nat /\ NonceMod \in Nat
  BY <1>1, <1>3, TransferAssumption
<1>6. Len(z) <= Len(l) + (n + 1)
  BY <1>1, <1>3, <1>5
<1>7. ASSUME Nonces(m, l), Len(l) + (n + 1) < NonceMod PROVE Nonces(c, z)
  <2>1. Len(l) + n < NonceMod /\ Len(o) + 1 < NonceMod
    BY <1>1, <1>5, <1>7
  <2>2. Nonces(b, o)
    BY <1>1, <1>7, <2>1
  <2> QED BY <1>1, <1>2, <1>m, <2>1, <2>2, StepNonces
<1>8. Grown(V, W)
  BY <1>1, <1>2, GrownChain
<1>9. Supply(c) + Costs(z) = Supply(m) + Costs(l)
  BY <1>1, <1>4
<1>10. \A k \in Key : m[k] # NoAccount => c[k] # NoAccount
  BY <1>1, <1>3
<1> QED BY <1>3, <1>6, <1>7, <1>8, <1>9, <1>10 DEF Ran, m, c

LEMMA RanNone ==
    ASSUME NEW V, NEW r, VaultOK(V, r), NEW l \in Seq(LogItem)
    PROVE  Ran(V, r, l, V, r, l, 0)
<1>1. Grown(V, V)
  BY IdleIs
<1>2. Len(l) \in Nat /\ Len(l) <= Len(l) + 0 /\ Len(l) + 0 = Len(l)
  OBVIOUS
<1> QED BY <1>1, <1>2 DEF Ran

LEMMA RanOne ==
    ASSUME NEW V, NEW r, VaultOK(V, r), NEW l \in Seq(LogItem),
           NEW W, NEW p, NEW z, VaultOK(W, p), Grown(V, W),
           NEW tx \in Payment, MapStep(tx, Book(V, r), l, Book(W, p), z)
    PROVE  Ran(V, r, l, W, p, z, 1)
<1>1. Ran(V, r, l, V, r, l, 0)
  BY RanNone
<1>2. Ran(V, r, l, W, p, z, 0 + 1)
  BY <1>1, RanThen
<1> QED BY <1>2

\* The loop of execute_batch exists and obeys its equations.
LEMMA BatchIs ==
    ASSUME NEW s, NEW txs, Len(txs) \in Nat
    PROVE  \E after : /\ after[0] = s
                      /\ \A n \in 1 .. Len(txs) : after[n] = BatchStep(after[n - 1], txs[n])
                      /\ Batch(s, txs) = after[Len(txs)]
<1> DEFINE N == Len(txs)
           Eq(g, n) == g = [i \in 0 .. n |-> IF i = 0 THEN s ELSE BatchStep(g[i - 1], txs[i])]
           P == {n \in Nat : \E g : Eq(g, n)}
<1>1. 0 \in P
  <2> DEFINE g == [i \in 0 .. 0 |-> s]
  <2>1. Eq(g, 0)
    OBVIOUS
  <2> QED BY <2>1
<1>2. ASSUME NEW n \in Nat, n \in P PROVE n + 1 \in P
  <2>1. PICK g : Eq(g, n)
    BY <1>2
  <2> DEFINE h == [i \in 0 .. n + 1 |-> IF i = 0 THEN s ELSE BatchStep(g[i - 1], txs[i])]
  <2>2. \A i \in 0 .. n + 1 : i # 0 => i - 1 \in 0 .. n
    OBVIOUS
  <2>3. \A i \in 0 .. n : h[i] = g[i]
    <3>1. \A i \in 0 .. n : g[i] = IF i = 0 THEN s ELSE BatchStep(g[i - 1], txs[i])
      BY <2>1
    <3>2. \A i \in 0 .. n : i \in 0 .. n + 1
      OBVIOUS
    <3> QED BY <3>1, <3>2
  <2>4. \A i \in 0 .. n + 1 : h[i] = IF i = 0 THEN s ELSE BatchStep(h[i - 1], txs[i])
    <3>1. \A i \in 0 .. n + 1 : h[i] = IF i = 0 THEN s ELSE BatchStep(g[i - 1], txs[i])
      OBVIOUS
    <3> HIDE DEF h
    <3> QED BY <2>2, <2>3, <3>1
  <2>5. h = [i \in 0 .. n + 1 |-> h[i]]
    OBVIOUS
  <2> HIDE DEF h
  <2>6. Eq(h, n + 1)
    BY <2>4, <2>5
  <2> QED BY <2>6
<1>3. \A n \in Nat : n \in P
  <2> HIDE DEF P
  <2> QED BY <1>1, <1>2, SetInduction
<1>4. \E g : Eq(g, N)
  BY <1>3
<1> DEFINE a == CHOOSE g : Eq(g, N)
<1>5. Batch(s, txs) = a[N]
  BY DEF Batch
<1>6. Eq(a, N)
  <2> HIDE DEF Eq
  <2> QED BY <1>4
<1> HIDE DEF a
<1>7. a[0] = s /\ \A n \in 1 .. N : a[n] = BatchStep(a[n - 1], txs[n])
  BY <1>6
<1> QED BY <1>5, <1>7

\* A whole batch.
LEMMA BatchRan ==
    ASSUME NEW s, VaultOK(s.v, s.root), s.log \in Seq(LogItem), NEW txs, Len(txs) \in Nat,
           \A i \in 1 .. Len(txs) : txs[i] \in Payment
    PROVE  LET b == Batch(s, txs)
           IN  Ran(s.v, s.root, s.log, b.v, b.root, b.log, Len(txs))
<1>1. PICK after : /\ after[0] = s
                   /\ \A n \in 1 .. Len(txs) : after[n] = BatchStep(after[n - 1], txs[n])
                   /\ Batch(s, txs) = after[Len(txs)]
  BY BatchIs
<1> DEFINE R(n) == Ran(s.v, s.root, s.log, after[n].v, after[n].root, after[n].log, n)
           P == {n \in Nat : n <= Len(txs) => R(n)}
<1>2. 0 \in P
  <2>1. Ran(s.v, s.root, s.log, s.v, s.root, s.log, 0)
    BY RanNone
  <2> QED BY <1>1, <2>1
<1>3. ASSUME NEW n \in Nat, n \in P PROVE n + 1 \in P
  <2> SUFFICES ASSUME n + 1 <= Len(txs) PROVE R(n + 1)
    OBVIOUS
  <2> DEFINE a == after[n]
             b == after[n + 1]
             tx == txs[n + 1]
  <2>1. n + 1 \in 1 .. Len(txs) /\ (n + 1) - 1 = n /\ n <= Len(txs)
    OBVIOUS
  <2>2. b = BatchStep(a, tx) /\ tx \in Payment
    BY <1>1, <2>1
  <2>3. Ran(s.v, s.root, s.log, a.v, a.root, a.log, n)
    BY <1>3, <2>1
  <2>4. VaultOK(a.v, a.root)
    BY <2>3 DEF Ran
  <2> HIDE DEF a, b, tx
  <2>5. /\ VaultOK(b.v, b.root) /\ Grown(a.v, b.v)
        /\ MapStep(tx, Book(a.v, a.root), a.log, Book(b.v, b.root), b.log)
    BY <2>2, <2>4, BatchStepIs
  <2>6. Ran(s.v, s.root, s.log, b.v, b.root, b.log, n + 1)
    BY <2>2, <2>3, <2>5, RanThen
  <2> QED BY <2>6 DEF b
<1>4. \A n \in Nat : n \in P
  <2> HIDE DEF P
  <2> QED BY <1>2, <1>3, SetInduction
<1>5. R(Len(txs))
  BY <1>4
<1> QED BY <1>1, <1>5

---------------------------------------------------------------------------
(* Genesis.                                                                *)

Blank == [v |-> [mem |-> [a \in {} |-> 0], tail |-> 0, nseg |-> 1], root |-> NoHandle]

\* The vaults of the genesis loop exist and obey their equations.
LEMMA BornIs ==
    \E at : /\ at[0] = Blank
            /\ \A n \in 1 .. Len(Genesis) : at[n] = Written(at[n - 1], Genesis[n])
            /\ Born = at[Len(Genesis)]
<1> DEFINE N == Len(Genesis)
           Eq(g, n) == g = [i \in 0 .. n |-> IF i = 0 THEN Blank ELSE Written(g[i - 1], Genesis[i])]
           P == {n \in Nat : \E g : Eq(g, n)}
<1>0. N \in Nat
  BY LedgerAssumption
<1>1. 0 \in P
  <2> DEFINE g == [i \in 0 .. 0 |-> Blank]
  <2>1. Eq(g, 0)
    OBVIOUS
  <2> QED BY <2>1
<1>2. ASSUME NEW n \in Nat, n \in P PROVE n + 1 \in P
  <2>1. PICK g : Eq(g, n)
    BY <1>2
  <2> DEFINE h == [i \in 0 .. n + 1 |-> IF i = 0 THEN Blank ELSE Written(g[i - 1], Genesis[i])]
  <2>2. \A i \in 0 .. n + 1 : i # 0 => i - 1 \in 0 .. n
    OBVIOUS
  <2>3. \A i \in 0 .. n : h[i] = g[i]
    <3>1. \A i \in 0 .. n : g[i] = IF i = 0 THEN Blank ELSE Written(g[i - 1], Genesis[i])
      BY <2>1
    <3>2. \A i \in 0 .. n : i \in 0 .. n + 1
      OBVIOUS
    <3> QED BY <3>1, <3>2
  <2>4. \A i \in 0 .. n + 1 : h[i] = IF i = 0 THEN Blank ELSE Written(h[i - 1], Genesis[i])
    <3>1. \A i \in 0 .. n + 1 : h[i] = IF i = 0 THEN Blank ELSE Written(g[i - 1], Genesis[i])
      OBVIOUS
    <3> HIDE DEF h
    <3> QED BY <2>2, <2>3, <3>1
  <2>5. h = [i \in 0 .. n + 1 |-> h[i]]
    OBVIOUS
  <2> HIDE DEF h
  <2>6. Eq(h, n + 1)
    BY <2>4, <2>5
  <2> QED BY <2>6
<1>3. \A n \in Nat : n \in P
  <2> HIDE DEF P
  <2> QED BY <1>1, <1>2, SetInduction
<1>4. \E g : Eq(g, N)
  BY <1>0, <1>3
<1> DEFINE a == CHOOSE g : Eq(g, N)
<1>5. Born = a[N]
  BY DEF Born, Blank
<1>6. Eq(a, N)
  <2> HIDE DEF Eq
  <2> QED BY <1>4
<1> HIDE DEF a
<1>7. a[0] = Blank /\ \A n \in 1 .. N : a[n] = Written(a[n - 1], Genesis[n])
  BY <1>0, <1>6
<1> QED BY <1>5, <1>7

\* The magnitudes of the genesis accounts.
Minted == [i \in DOMAIN Genesis |-> Genesis[i][2]]

\* After n genesis accounts the vault holds exactly these, with nonce 0.
Started(s, n) ==
    /\ VaultOK(s.v, s.root)
    /\ \A k \in Key : Book(s.v, s.root)[k].nonce = 0
    /\ \A k \in Key : ~Book(s.v, s.root)[k].absent => \E i \in 1 .. n : Genesis[i][1] = k
    /\ Supply(Book(s.v, s.root)) = SumFunctionOnSet(Minted, 1 .. n)

LEMMA StartedBlank == Started(Blank, 0)
<1> DEFINE m == Book(Blank.v, Blank.root)
           f == [k \in Key |-> m[k].mag]
<1>1. Blank.root = NoHandle /\ Blank.v.tail = 0 /\ Blank.v.nseg = 1
  BY DEF Blank
<1>2. Sound(Blank.v, Blank.v.tail, Blank.root) /\ m = [k \in Key |-> NoAccount]
  BY <1>1, EmptyTree DEF Book
<1>3. \A k \in Key : m[k] = NoAccount
  BY <1>2
<1>4. m \in [Key -> Slot]
  BY <1>2 DEF Slot
<1>5. VaultOK(Blank.v, Blank.root)
  BY <1>1, <1>2, <1>4 DEF VaultOK
<1> HIDE DEF m
<1>6. Supply(m) = SumFunctionOnSet(f, Key)
  BY <1>4 DEF Supply, SumFunction
<1>7. \A k \in Key : f[k] = 0
  BY <1>3, NoAccountIs
<1> HIDE DEF f
<1>8. Supply(m) = 0
  BY <1>6, <1>7, LedgerAssumption, SumZero
<1>9. IsFiniteSet({}) /\ 1 .. 0 = {}
  BY FS_EmptySet
<1>10. SumFunctionOnSet(Minted, {}) = 0
  BY <1>9, SumUnfolds
<1>11. Supply(m) = SumFunctionOnSet(Minted, 1 .. 0)
  BY <1>8, <1>9, <1>10
<1> QED BY <1>3, <1>5, <1>11, NoAccountIs DEF Started, m

LEMMA StartedStep ==
    ASSUME NEW s, NEW n \in Nat, n + 1 \in 1 .. Len(Genesis), Started(s, n)
    PROVE  Started(Written(s, Genesis[n + 1]), n + 1)
<1> DEFINE e  == n + 1
           k  == Genesis[e][1]
           a  == Genesis[e][2]
           st == Account(a, 0)
           x  == set_account(s.v, s.root, k, st)
           w  == Written(s, Genesis[e])
           m  == Book(s.v, s.root)
           b  == Book(x.v, x.root)
<1>0. /\ k \in Key /\ a \in 0 .. BalMax /\ Len(Genesis) \in Nat /\ DOMAIN Genesis = 1 .. Len(Genesis)
      /\ \A i \in DOMAIN Genesis : Genesis[i][2] \in 0 .. BalMax
  BY LedgerAssumption
<1>1. w.v = x.v /\ w.root = x.root
  BY DEF Written
<1>2. st.mag = a /\ st.nonce = 0 /\ ~st.absent /\ ~st.sign /\ st \in Held /\ st \in Slot
  BY <1>0, TransferAssumption DEF Account, Held, State, Slot
<1>3. /\ VaultOK(s.v, s.root) /\ m \in [Key -> Slot]
      /\ \A j \in Key : m[j].nonce = 0
      /\ \A j \in Key : ~m[j].absent => \E i \in 1 .. n : Genesis[i][1] = j
      /\ Supply(m) = SumFunctionOnSet(Minted, 1 .. n)
  BY DEF Started, VaultOK
<1> HIDE DEF st, m, k, a
<1>4. \A j \in Key : Together(k, j, 0) => m[j].absent
  <2> SUFFICES ASSUME NEW j \in Key, Together(k, j, 0), ~m[j].absent PROVE FALSE
    OBVIOUS
  <2>1. PICK i \in 1 .. n : Genesis[i][1] = j
    BY <1>3
  <2>2. i \in DOMAIN Genesis /\ e \in DOMAIN Genesis /\ e # i
    BY <1>0
  <2>3. PICK l \in 0 .. Depth - 1 : ~(Bit(Genesis[e][1], l) = 1 <=> Bit(Genesis[i][1], l) = 1)
    BY <2>2, LedgerAssumption
  <2> QED BY <2>1, <2>3 DEF Together, k
<1>5. x.res # "fault"
  <2> SUFFICES ASSUME x.res = "fault" PROVE FALSE
    OBVIOUS
  <2>1. PICK j \in Key \ {k} : Together(k, j, 0) /\ ~m[j].absent
    BY <1>0, <1>2, <1>3, WriteFaults DEF m
  <2> QED BY <1>4, <2>1
<1>6. m[k].absent /\ m[k] = NoAccount
  <2>1. Together(k, k, 0)
    BY DEF Together
  <2>2. m[k].absent
    BY <1>0, <1>4, <2>1
  <2> QED BY <1>0, <1>3, <2>2, NoAccountIs
<1>7. VaultOK(x.v, x.root) /\ b = [m EXCEPT ![k] = st]
  BY <1>0, <1>2, <1>3, <1>5, WriteIs DEF m
<1> HIDE DEF x, b
<1>8. b \in [Key -> Slot] /\ b[k] = st /\ \A j \in Key \ {k} : b[j] = m[j]
  BY <1>0, <1>2, <1>3, <1>7
<1>9. ASSUME NEW j \in Key PROVE b[j].nonce = 0
  <2>1. m[j].nonce = 0 /\ st.nonce = 0
    BY <1>2, <1>3
  <2>2. b[j] = IF j = k THEN st ELSE m[j]
    BY <1>8
  <2> QED BY <2>1, <2>2
<1>10. ASSUME NEW j \in Key, ~b[j].absent PROVE \E i \in 1 .. e : Genesis[i][1] = j
  <2>1. CASE j = k
    BY <1>0, <2>1 DEF k
  <2>2. CASE j # k
    <3>1. PICK i \in 1 .. n : Genesis[i][1] = j
      BY <1>3, <1>8, <1>10, <2>2
    <3>2. i \in 1 .. e
      OBVIOUS
    <3> QED BY <3>1, <3>2
  <2> QED BY <2>1, <2>2
<1>11. Supply(m) \in Int /\ Supply(b) = Supply(m) - m[k].mag + b[k].mag
  BY <1>0, <1>3, <1>8, SupplyUpdate
<1>12. a \in Int /\ Supply(b) = Supply(m) + a
  BY <1>0, <1>2, <1>6, <1>8, <1>11, NoAccountIs
<1>13. SumFunctionOnSet(Minted, 1 .. e) = SumFunctionOnSet(Minted, 1 .. n) + a
  <2> DEFINE T == 1 .. e
  <2>1. IsFiniteSet(T) /\ e \in T
    BY FS_Interval
  <2>2. \A i \in T : Minted[i] \in Int
    BY <1>0 DEF Minted
  <2>3. T \ {e} = 1 .. n
    OBVIOUS
  <2>4. Minted[e] = a
    BY <1>0 DEF Minted, a
  <2> HIDE DEF T
  <2>5. SumFunctionOnSet(Minted, T) = SumFunctionOnSet(Minted, T \ {e}) + Minted[e]
    BY <2>1, <2>2, SumExtend
  <2>6. SumFunctionOnSet(Minted, T) = SumFunctionOnSet(Minted, 1 .. n) + a
    BY <2>3, <2>4, <2>5
  <2> QED BY <2>6 DEF T
<1>14. Supply(b) = SumFunctionOnSet(Minted, 1 .. e)
  BY <1>3, <1>12, <1>13
<1> QED BY <1>1, <1>7, <1>9, <1>10, <1>14 DEF Started, b, w

\* The vault after genesis: sound, with the minted supply and no nonce used.
LEMMA BornOK ==
    /\ VaultOK(Born.v, Born.root)
    /\ Book(Born.v, Born.root) \in [Key -> Slot]
    /\ Supply(Book(Born.v, Born.root)) = SumFunction(Minted)
    /\ Nonces(Book(Born.v, Born.root), << >>)
<1>0. Len(Genesis) \in Nat /\ DOMAIN Genesis = 1 .. Len(Genesis)
  BY LedgerAssumption
<1>1. PICK at : /\ at[0] = Blank
                /\ \A n \in 1 .. Len(Genesis) : at[n] = Written(at[n - 1], Genesis[n])
                /\ Born = at[Len(Genesis)]
  BY BornIs
<1> DEFINE P == {n \in Nat : n <= Len(Genesis) => Started(at[n], n)}
<1>2. 0 \in P
  BY <1>1, StartedBlank
<1>3. ASSUME NEW n \in Nat, n \in P PROVE n + 1 \in P
  <2> SUFFICES ASSUME n + 1 <= Len(Genesis) PROVE Started(at[n + 1], n + 1)
    OBVIOUS
  <2>1. n + 1 \in 1 .. Len(Genesis) /\ (n + 1) - 1 = n /\ Started(at[n], n)
    BY <1>0, <1>3
  <2>2. at[n + 1] = Written(at[n], Genesis[n + 1])
    BY <1>1, <2>1
  <2> QED BY <2>1, <2>2, StartedStep
<1>4. \A n \in Nat : n \in P
  <2> HIDE DEF P
  <2> QED BY <1>2, <1>3, SetInduction
<1>5. Started(Born, Len(Genesis))
  BY <1>0, <1>1, <1>4
<1> DEFINE m == Book(Born.v, Born.root)
<1>6. /\ VaultOK(Born.v, Born.root) /\ m \in [Key -> Slot]
      /\ \A k \in Key : m[k].nonce = 0
      /\ Supply(m) = SumFunctionOnSet(Minted, 1 .. Len(Genesis))
  BY <1>5 DEF Started, VaultOK
<1>7. Supply(m) = SumFunction(Minted)
  BY <1>0, <1>6 DEF SumFunction, Minted
<1>8. Nonces(m, << >>)
  <2> HIDE DEF m
  <2>1. Len(<< >>) = 0 /\ DOMAIN << >> = {}
    OBVIOUS
  <2> QED BY <1>6, <2>1 DEF Nonces
<1> QED BY <1>6, <1>7, <1>8

---------------------------------------------------------------------------
(* The state machine.                                                      *)

\* A control sector with at least one root.
RingOK(c) == c.roots \in Seq(Range(c.roots)) /\ c.roots # << >>

\* A map and the history behind it.
Accounted(m, l) ==
    m \in [Key -> Slot] /\ l \in Seq(LogItem) /\ Supply(m) + Costs(l) = SumFunction(Minted)

\* The trees behind every root that a commit or a restart can bring back are
\* sound, those on disk within the slots the disk counts.
Rooted ==
    /\ VaultOK(v, root)
    /\ disk.tail \in Nat /\ disk.nseg \in Nat /\ disk.tail <= v.tail
    /\ RingOK(ctl) /\ \A r \in Range(ctl.roots) : Sound(v, v.tail, r)
    /\ RingOK(disk) /\ \A r \in Range(disk.roots) : Sound(v, disk.tail, r)

\* The working map and the saved one are accounted for.
Balanced ==
    /\ Accounted(Book(v, root), log)
    /\ Accounted(Book(v, latest_root(disk)), savedLog)

\* How many transactions can have been handled.
Spent == MaxFolds * budget.commits + budget.folds

Bounded ==
    /\ {"count", "pc"} \subseteq DOMAIN acc
    /\ acc.count \in Nat /\ acc.pc \in {"EXEC", "CLOSE"}
    /\ queue \in Seq(Tx)
    /\ budget \in [folds : 0 .. MaxFolds, commits : 0 .. MaxCommits]
    /\ Len(log) + Len(queue) <= Spent /\ Len(savedLog) <= Spent

Inv == Rooted /\ Balanced /\ Bounded

\* The nonces last: no account can use up the 2^64 nonces in the operations
\* a behaviour has.
NoncesSuffice == MaxFolds * (MaxCommits + 1) < NonceMod

Ordered ==
    /\ Nonces(Book(v, root), log)
    /\ Nonces(Book(v, latest_root(disk)), savedLog)

LEMMA RingAppends ==
    ASSUME NEW s, s \in Seq(Range(s)), NEW r
    PROVE  LET t == Append(s, r)
           IN  /\ t \in Seq(Range(t)) /\ t # << >>
               /\ Range(t) \subseteq Range(s) \cup {r}
               /\ Last(t) = r
<1> DEFINE t == Append(s, r)
           X == Range(s) \cup {r}
<1>1. s \in Seq(X) /\ r \in X
  <2>1. Range(s) \subseteq X
    OBVIOUS
  <2>2. Len(s) \in Nat /\ s \in [1 .. Len(s) -> Range(s)]
    BY LenProperties
  <2>3. s \in [1 .. Len(s) -> X]
    BY <2>1, <2>2
  <2> QED BY <2>2, <2>3
<1> HIDE DEF X
<1>2. /\ t \in Seq(X) /\ t # << >> /\ Len(t) = Len(s) + 1
      /\ t[Len(s) + 1] = r
  BY <1>1, AppendProperties
<1>3. Len(t) \in Nat /\ t \in [1 .. Len(t) -> X]
  BY <1>2, LenProperties
<1> HIDE DEF t
<1>4. Range(t) \subseteq X
  BY <1>3 DEF Range
<1>5. t \in [1 .. Len(t) -> Range(t)]
  BY <1>3 DEF Range
<1>6. t \in Seq(Range(t))
  BY <1>3, <1>5
<1>7. Last(t) = r
  BY <1>2 DEF Last
<1> QED BY <1>2, <1>4, <1>6, <1>7 DEF t, X

LEMMA RingTails ==
    ASSUME NEW s, s \in Seq(Range(s)), s # << >>
    PROVE  Tail(s) \in Seq(Range(Tail(s))) /\ Range(Tail(s)) \subseteq Range(s)
<1> DEFINE t == Tail(s)
           X == Range(s)
<1> HIDE DEF X
<1>1. t \in Seq(X)
  BY HeadTailProperties DEF X
<1>2. Len(t) \in Nat /\ t \in [1 .. Len(t) -> X]
  BY <1>1, LenProperties
<1> HIDE DEF t
<1>3. Range(t) \subseteq X /\ t \in [1 .. Len(t) -> Range(t)]
  BY <1>2 DEF Range
<1>4. t \in Seq(Range(t))
  BY <1>2, <1>3
<1> QED BY <1>3, <1>4 DEF t, X

\* What commit_control makes of a control sector.
LEMMA RingIs ==
    ASSUME NEW c, RingOK(c)
    PROVE  /\ Ring(c).tail = v.tail /\ Ring(c).nseg = v.nseg
           /\ RingOK(Ring(c))
           /\ Range(Ring(c).roots) \subseteq Range(c.roots) \cup {root}
           /\ latest_root(Ring(c)) = root
<1> DEFINE s == IF Len(c.roots) < RingSize THEN c.roots ELSE Tail(c.roots)
           t == Append(s, root)
<1>1. Ring(c).tail = v.tail /\ Ring(c).nseg = v.nseg /\ Ring(c).roots = t
  BY DEF Ring
<1>2. c.roots \in Seq(Range(c.roots)) /\ c.roots # << >>
  BY DEF RingOK
<1>3. s \in Seq(Range(s)) /\ Range(s) \subseteq Range(c.roots)
  <2>1. Tail(c.roots) \in Seq(Range(Tail(c.roots))) /\ Range(Tail(c.roots)) \subseteq Range(c.roots)
    BY <1>2, RingTails
  <2> QED BY <1>2, <2>1
<1> HIDE DEF s
<1>4. t \in Seq(Range(t)) /\ t # << >> /\ Range(t) \subseteq Range(s) \cup {root} /\ Last(t) = root
  BY <1>3, RingAppends
<1> HIDE DEF t
<1> QED BY <1>1, <1>3, <1>4 DEF RingOK, latest_root

\* The last root is one of the ring's.
LEMMA LatestIs ==
    ASSUME NEW c, RingOK(c)
    PROVE  latest_root(c) = Last(c.roots) /\ latest_root(c) \in Range(c.roots)
<1>1. c.roots \in Seq(Range(c.roots)) /\ c.roots # << >>
  BY DEF RingOK
<1>2. Len(c.roots) \in Nat /\ DOMAIN c.roots = 1 .. Len(c.roots) /\ Len(c.roots) # 0
  BY <1>1, LenProperties, EmptySeq
<1>3. Len(c.roots) \in DOMAIN c.roots
  BY <1>2
<1> QED BY <1>1, <1>3 DEF latest_root, Last, Range

\* A sound tree outlives whatever is written above it.
LEMMA BookFrame ==
    ASSUME NEW V, NEW U, NEW T \in Nat, NEW S \in Nat, T <= S, Keeps(V, U, T), NEW r, Sound(V, T, r)
    PROVE  Sound(U, S, r) /\ Book(U, r) = Book(V, r)
<1>1. Sound(U, S, r) /\ \A k \in Key : lookup_account(U, r, k) = lookup_account(V, r, k)
  BY TreeFrame
<1> QED BY <1>1 DEF Book

LEMMA InitInv ==
    ASSUME Init
    PROVE  Inv /\ Ordered /\ Map!Init
<1> DEFINE m == Book(Born.v, Born.root)
           c == <<Born.root>>
<1>1. /\ VaultOK(Born.v, Born.root) /\ m \in [Key -> Slot]
      /\ Supply(m) = SumFunction(Minted) /\ Nonces(m, << >>)
  BY BornOK
<1>2. /\ v = Born.v /\ root = Born.root /\ ctl = disk
      /\ disk = [nseg |-> Born.v.nseg, tail |-> Born.v.tail, roots |-> c]
      /\ acc = [digest |-> << >>, count |-> 0, pc |-> "CLOSE"]
      /\ queue = << >> /\ log = << >> /\ savedLog = << >>
      /\ budget = [folds |-> 0, commits |-> 0]
  BY DEF Init, Closed
<1>3. disk.nseg = v.nseg /\ disk.tail = v.tail /\ disk.roots = c
  BY <1>2
<1>4. Range(c) = {Born.root} /\ c \in Seq(Range(c)) /\ c # << >> /\ Last(c) = Born.root
  BY DEF Range, Last
<1>5. latest_root(disk) = root
  BY <1>2, <1>3, <1>4 DEF latest_root
<1>6. v.tail \in Nat /\ v.nseg \in Nat /\ Sound(v, v.tail, root)
  BY <1>1, <1>2 DEF VaultOK
<1>7. Rooted
  BY <1>1, <1>2, <1>3, <1>4, <1>6 DEF Rooted, RingOK
<1>8. << >> \in Seq(LogItem) /\ Costs(<< >>) = 0
  <2> DEFINE f == [i \in DOMAIN << >> |-> << >>[i].cost]
  <2>1. DOMAIN f = {} /\ IsFiniteSet({})
    BY FS_EmptySet
  <2> HIDE DEF f
  <2>2. SumFunctionOnSet(f, {}) = 0
    BY <2>1, SumUnfolds
  <2> QED BY <2>1, <2>2 DEF Costs, SumFunction, f
<1>9. Supply(m) \in Int
  <2>1. PICK k \in Key : TRUE
    BY LedgerAssumption
  <2> QED BY <1>1, SupplyUpdate
<1>10. Supply(m) + Costs(<< >>) = SumFunction(Minted)
  BY <1>1, <1>8, <1>9
<1>11. Balanced
  BY <1>1, <1>2, <1>5, <1>8, <1>10 DEF Balanced, Accounted
<1>12. Bounded
  <2>1. budget.folds = 0 /\ budget.commits = 0 /\ MaxFolds \in Nat /\ MaxCommits \in Nat
    BY <1>2, LedgerAssumption
  <2>2. Spent = 0
    BY <2>1 DEF Spent
  <2>3. budget \in [folds : 0 .. MaxFolds, commits : 0 .. MaxCommits]
    BY <1>2, <2>1
  <2>4. Len(log) = 0 /\ Len(savedLog) = 0 /\ Len(queue) = 0 /\ queue \in Seq(Tx)
    BY <1>2
  <2>5. /\ {"count", "pc"} \subseteq DOMAIN acc
        /\ acc.count \in Nat /\ acc.pc \in {"EXEC", "CLOSE"}
    BY <1>2
  <2> QED BY <2>2, <2>3, <2>4, <2>5 DEF Bounded
<1>13. Ordered
  BY <1>1, <1>2, <1>5 DEF Ordered
<1>14. accounts = m /\ Tree(latest_root(disk)) = m
  BY <1>2, <1>5 DEF accounts, Tree, Book
<1>15. Map!Init
  BY <1>1, <1>14 DEF Map!Init, Slot, Held
<1> QED BY <1>7, <1>11, <1>12, <1>13, <1>15 DEF Inv

\* What every step does: it keeps the invariant and the order of nonces, it
\* leaves the slots alone that the disk counts, and it is a step of the map.
Advances ==
    /\ Inv'
    /\ Keeps(v, v', disk.tail)
    /\ NoncesSuffice /\ Ordered => Ordered'
    /\ Map!Next \/ UNCHANGED <<accounts, Tree(latest_root(disk))>>

LEMMA BudgetIs ==
    ASSUME NEW b \in [folds : 0 .. MaxFolds, commits : 0 .. MaxCommits]
    PROVE  LET s == MaxFolds * b.commits + b.folds
           IN  s \in Nat /\ s <= MaxFolds * (MaxCommits + 1)
<1>1. b.folds \in 0 .. MaxFolds /\ b.commits \in 0 .. MaxCommits
  OBVIOUS
<1>2. MaxFolds \in Nat /\ MaxCommits \in Nat
  BY LedgerAssumption
<1>3. ASSUME NEW x \in Nat, NEW y \in Nat, NEW c \in 0 .. y, NEW f \in 0 .. x
      PROVE  x * c + f \in Nat /\ x * c + f <= x * (y + 1)
  <2>1. x * c \in Nat /\ x * c <= x * y /\ x * (y + 1) = x * y + x
    OBVIOUS
  <2> QED BY <2>1
<1> QED BY <1>1, <1>2, <1>3, Zenon

LEMMA SpentIs ==
    ASSUME Bounded
    PROVE  Spent \in Nat /\ Len(queue) \in Nat
<1>1. budget \in [folds : 0 .. MaxFolds, commits : 0 .. MaxCommits] /\ queue \in Seq(Tx)
  BY DEF Bounded
<1>2. Spent \in Nat
  BY <1>1, BudgetIs DEF Spent
<1> QED BY <1>1, <1>2

\* Steps that only write: the fold of an entry, a batch.
LEMMA GrowthIs ==
    ASSUME Inv, UNCHANGED <<ctl, disk, savedLog>>, NEW n \in Nat,
           Ran(v, root, log, v', root', log', n), Len(log) + n <= Spent', Bounded'
    PROVE  Advances
<1> DEFINE m == Book(v, root)
           d == latest_root(disk)
<1>1. /\ VaultOK(v', root') /\ Grown(v, v') /\ log' \in Seq(LogItem) /\ Len(log') <= Len(log) + n
      /\ \A k \in Key : m[k] # NoAccount => Book(v', root')[k] # NoAccount
      /\ Supply(Book(v', root')) + Costs(log') = Supply(m) + Costs(log)
      /\ Nonces(m, log) /\ Len(log) + n < NonceMod => Nonces(Book(v', root'), log')
  BY DEF Ran
<1>2. /\ VaultOK(v, root)
      /\ disk.tail \in Nat /\ disk.nseg \in Nat /\ disk.tail <= v.tail
      /\ RingOK(ctl) /\ \A r \in Range(ctl.roots) : Sound(v, v.tail, r)
      /\ RingOK(disk) /\ \A r \in Range(disk.roots) : Sound(v, disk.tail, r)
  BY DEF Inv, Rooted
<1>3. v.tail \in Nat /\ v'.tail \in Nat /\ v.tail <= v'.tail /\ Keeps(v, v', v.tail)
  BY <1>1, <1>2 DEF VaultOK, Grown
<1>4. Keeps(v, v', disk.tail)
  BY <1>2, <1>3, KeepsBelow
<1>5. disk.tail <= v'.tail
  BY <1>2, <1>3
<1>6. ASSUME NEW r \in Range(ctl.roots) PROVE Sound(v', v'.tail, r)
  <2>1. Sound(v, v.tail, r)
    BY <1>2
  <2> QED BY <1>3, <2>1, BookFrame
<1>7. ASSUME NEW r \in Range(disk.roots) PROVE Sound(v', disk.tail, r) /\ Book(v', r) = Book(v, r)
  <2>1. Sound(v, disk.tail, r) /\ disk.tail <= disk.tail
    BY <1>2
  <2> QED BY <1>2, <1>4, <2>1, BookFrame
<1>8. Rooted'
  BY <1>1, <1>2, <1>5, <1>6, <1>7 DEF Rooted
<1>9. Book(v', d) = Book(v, d)
  BY <1>2, <1>7, LatestIs
<1>10. Book(v', root') \in [Key -> Slot]
  BY <1>1 DEF VaultOK
<1>11. /\ Supply(m) + Costs(log) = SumFunction(Minted)
       /\ Accounted(Book(v, d), savedLog)
  BY DEF Inv, Balanced, Accounted
<1>12. Accounted(Book(v', root'), log')
  BY <1>1, <1>10, <1>11 DEF Accounted
<1>13. Balanced'
  BY <1>9, <1>11, <1>12 DEF Balanced
<1>14. ASSUME NoncesSuffice, Ordered PROVE Ordered'
  <2>1. Nonces(m, log) /\ Nonces(Book(v, d), savedLog)
    BY <1>14 DEF Ordered
  <2>2. Len(log) + n < NonceMod
    <3>1. Spent' \in Nat /\ Spent' <= MaxFolds * (MaxCommits + 1)
      <4>1. budget' \in [folds : 0 .. MaxFolds, commits : 0 .. MaxCommits]
        BY DEF Bounded
      <4> QED BY <4>1, BudgetIs DEF Spent
    <3>2. log \in Seq(LogItem)
      BY DEF Inv, Balanced, Accounted
    <3>3. Len(log) \in Nat /\ MaxFolds * (MaxCommits + 1) \in Nat /\ NonceMod \in Nat
      BY <3>2, LedgerAssumption, TransferAssumption
    <3> QED BY <1>14, <3>1, <3>3 DEF NoncesSuffice
  <2> QED BY <1>1, <1>9, <2>1, <2>2 DEF Ordered
<1>15. Map!Next
  <2>1. accounts = m /\ accounts' = Book(v', root')
    BY DEF accounts, Tree, Book
  <2>2. Tree(d)' = Tree(d)
    BY <1>9 DEF Tree, Book
  <2>3. \A k \in Key : accounts[k] # NoAccount => accounts'[k] # NoAccount
    BY <1>1, <2>1
  <2>4. accounts' \in [Key -> {s \in State : ~s.absent} \cup {NoAccount}]
    BY <1>10, <2>1 DEF Slot, Held
  <2> QED BY <2>2, <2>3, <2>4 DEF Map!Next, Map!Write
<1> QED BY <1>4, <1>8, <1>13, <1>14, <1>15 DEF Advances, Inv


\* Steps that neither write nor commit.
LEMMA RestIs ==
    ASSUME Inv, UNCHANGED <<v, ctl, disk, root, log, savedLog>>, Bounded'
    PROVE  Advances
<1>1. Rooted' /\ Balanced'
  BY DEF Inv, Rooted, Balanced
<1>2. Keeps(v, v', disk.tail)
  BY DEF Keeps
<1>3. Ordered => Ordered'
  BY DEF Ordered
<1>4. UNCHANGED <<accounts, Tree(latest_root(disk))>>
  BY DEF accounts, Tree
<1> QED BY <1>1, <1>2, <1>3, <1>4 DEF Advances, Inv

LEMMA FoldHeadIs == ASSUME Inv, FoldHead PROVE Advances
<1>1. Bounded'
  BY DEF FoldHead, Inv, Bounded, Spent
<1> QED BY <1>1, RestIs DEF FoldHead

LEMMA FoldCloseIs == ASSUME Inv, FoldClose PROVE Advances
<1>1. {"count", "pc"} \subseteq DOMAIN acc /\ acc.count \in Nat
  BY DEF Inv, Bounded
<1>2. /\ {"count", "pc"} \subseteq DOMAIN acc'
      /\ acc'.count = acc.count /\ acc'.pc = "CLOSE"
  BY <1>1 DEF FoldClose
<1>3. Bounded'
  BY <1>1, <1>2 DEF FoldClose, Inv, Bounded, Spent
<1> QED BY <1>3, RestIs DEF FoldClose

\* One fold more is within the budget.
LEMMA OneFold ==
    ASSUME Bounded, budget.folds < MaxFolds, budget' = [budget EXCEPT !.folds = @ + 1]
    PROVE  /\ budget' \in [folds : 0 .. MaxFolds, commits : 0 .. MaxCommits]
           /\ Spent' = Spent + 1
<1>1. budget \in [folds : 0 .. MaxFolds, commits : 0 .. MaxCommits]
  BY DEF Bounded
<1>2. budget'.folds = budget.folds + 1 /\ budget'.commits = budget.commits
  BY <1>1
<1>3. budget.folds + 1 \in 0 .. MaxFolds /\ budget.folds \in Nat
  BY <1>1, LedgerAssumption
<1>4. budget' \in [folds : 0 .. MaxFolds, commits : 0 .. MaxCommits]
  BY <1>1, <1>3
<1>5. Spent' = MaxFolds * budget.commits + (budget.folds + 1) /\ Spent = MaxFolds * budget.commits + budget.folds
  BY <1>2 DEF Spent
<1>6. MaxFolds * budget.commits \in Nat
  BY <1>1, LedgerAssumption
<1>7. ASSUME NEW a \in Nat, NEW b \in Nat PROVE a + (b + 1) = (a + b) + 1
  OBVIOUS
<1>8. MaxFolds * budget.commits + (budget.folds + 1) = (MaxFolds * budget.commits + budget.folds) + 1
  BY <1>3, <1>6, <1>7, Zenon
<1> QED BY <1>4, <1>5, <1>8

LEMMA PushIs == ASSUME Inv, NEW tx \in Tx, Push(tx) PROVE Advances
<1>1. /\ budget.folds < MaxFolds /\ budget' = [budget EXCEPT !.folds = @ + 1]
      /\ queue' = Append(queue, tx)
      /\ UNCHANGED <<v, ctl, disk, root, acc, log, savedLog>>
  BY DEF Push
<1>2. budget' \in [folds : 0 .. MaxFolds, commits : 0 .. MaxCommits] /\ Spent' = Spent + 1
  BY <1>1, OneFold DEF Inv
<1>3. /\ queue \in Seq(Tx) /\ Len(log) + Len(queue) <= Spent /\ Len(savedLog) <= Spent
      /\ log \in Seq(LogItem) /\ savedLog \in Seq(LogItem) /\ Spent \in Nat
  BY SpentIs DEF Inv, Bounded, Balanced, Accounted
<1>4. queue' \in Seq(Tx) /\ Len(queue') = Len(queue) + 1
  BY <1>1, <1>3, AppendProperties
<1>5. Len(log) \in Nat /\ Len(savedLog) \in Nat /\ Len(queue) \in Nat
  BY <1>3
<1>6. Len(log) + Len(queue') <= Spent' /\ Len(savedLog) <= Spent'
  BY <1>2, <1>3, <1>4, <1>5
<1>7. Bounded'
  BY <1>1, <1>2, <1>4, <1>6 DEF Inv, Bounded
<1> QED BY <1>1, <1>7, RestIs

LEMMA FoldStepIs == ASSUME Inv, NEW e \in Entry, FoldStep(e) PROVE Advances
<1> DEFINE x == f_exec(e)
<1>1. /\ budget.folds < MaxFolds /\ budget' = [budget EXCEPT !.folds = @ + 1]
      /\ v' = x.v /\ root' = x.root /\ log' = x.log
      /\ acc' = IF x.verdict \in {"OK_EXEC", "OK_SKIP"}
                THEN [acc EXCEPT !.digest = Append(@, e.pt), !.count = @ + 1] ELSE acc
      /\ UNCHANGED <<ctl, disk, queue, savedLog>>
  BY DEF FoldStep
<1>2. /\ VaultOK(v, root) /\ log \in Seq(LogItem) /\ savedLog \in Seq(LogItem) /\ e.tx \in Payment
  BY LedgerAssumption DEF Inv, Rooted, Balanced, Accounted
<1>3. /\ VaultOK(x.v, x.root) /\ Grown(v, x.v)
      /\ MapStep(e.tx, Book(v, root), log, Book(x.v, x.root), x.log)
  BY <1>2, FExecIs
<1> HIDE DEF x
<1>4. Ran(v, root, log, x.v, x.root, x.log, 1)
  BY <1>2, <1>3, RanOne
<1>5. Ran(v, root, log, v', root', log', 1)
  BY <1>1, <1>4
<1>6. budget' \in [folds : 0 .. MaxFolds, commits : 0 .. MaxCommits] /\ Spent' = Spent + 1
  BY <1>1, OneFold DEF Inv
<1>7. /\ Len(log) + Len(queue) <= Spent /\ Len(savedLog) <= Spent /\ queue \in Seq(Tx)
      /\ Spent \in Nat
      /\ {"count", "pc"} \subseteq DOMAIN acc
      /\ acc.count \in Nat /\ acc.pc \in {"EXEC", "CLOSE"}
  BY SpentIs DEF Inv, Bounded
<1>8. /\ {"count", "pc"} \subseteq DOMAIN acc'
      /\ acc'.count \in Nat /\ acc'.pc \in {"EXEC", "CLOSE"}
  <2> DEFINE g == Append(acc.digest, e.pt)
             a == [acc EXCEPT !.digest = g, !.count = acc.count + 1]
  <2> HIDE DEF g
  <2>1. a.count = acc.count + 1 /\ a.pc = acc.pc /\ DOMAIN a = DOMAIN acc
    BY <1>7
  <2> HIDE DEF a
  <2>2. acc' = a \/ acc' = acc
    BY <1>1 DEF a, g
  <2> QED BY <1>7, <2>1, <2>2
<1>9. Len(log') <= Len(log) + 1 /\ log' \in Seq(LogItem)
  BY <1>5 DEF Ran
<1>10. Len(log') \in Nat /\ Len(log) \in Nat /\ Len(queue) \in Nat /\ Len(savedLog) \in Nat
  BY <1>2, <1>7, <1>9
<1>11. Len(log') + Len(queue) <= Spent' /\ Len(savedLog) <= Spent'
  BY <1>6, <1>7, <1>9, <1>10
<1>12. Bounded'
  BY <1>1, <1>6, <1>7, <1>8, <1>11 DEF Bounded
<1>13. Len(log) + 1 <= Spent'
  BY <1>6, <1>7, <1>10
<1> QED BY <1>1, <1>5, <1>12, <1>13, GrowthIs

LEMMA ExecuteBatchIs == ASSUME Inv, ExecuteBatch PROVE Advances
<1>1. PICK p \in Bijection(DOMAIN queue, DOMAIN queue) :
        LET end == Batch([v |-> v, root |-> root, log |-> log], [i \in DOMAIN queue |-> queue[p[i]]])
        IN  v' = end.v /\ root' = end.root /\ log' = end.log
  BY DEF ExecuteBatch
<1> DEFINE s   == [v |-> v, root |-> root, log |-> log]
           txs == [i \in DOMAIN queue |-> queue[p[i]]]
           b   == Batch(s, txs)
<1>2. v' = b.v /\ root' = b.root /\ log' = b.log
  BY <1>1
<1>3. queue' = << >> /\ UNCHANGED <<ctl, disk, acc, savedLog, budget>>
  BY DEF ExecuteBatch
<1>4. /\ VaultOK(v, root) /\ log \in Seq(LogItem) /\ savedLog \in Seq(LogItem)
      /\ queue \in Seq(Tx) /\ Spent \in Nat
      /\ Len(log) + Len(queue) <= Spent /\ Len(savedLog) <= Spent
  BY SpentIs DEF Inv, Rooted, Balanced, Accounted, Bounded
<1>5. s.v = v /\ s.root = root /\ s.log = log
  OBVIOUS
<1>6. Len(queue) \in Nat /\ DOMAIN queue = 1 .. Len(queue) /\ \A i \in DOMAIN queue : queue[i] \in Tx
  BY <1>4, LenProperties
<1>7. \A i \in DOMAIN queue : p[i] \in DOMAIN queue
  BY DEF Bijection, Injection, Surjection
<1>8. Len(txs) = Len(queue) /\ \A i \in 1 .. Len(queue) : txs[i] \in Payment
  <2>1. Tx \subseteq Payment
    BY LedgerAssumption
  <2>2. \A i \in 1 .. Len(queue) : txs[i] = queue[p[i]]
    BY <1>6
  <2>3. DOMAIN txs = 1 .. Len(queue)
    BY <1>6
  <2>4. \A i \in 1 .. Len(queue) : txs[i] \in Payment
    BY <1>6, <1>7, <2>1, <2>2
  <2>5. txs \in Seq(Payment)
    BY <1>6, <2>3, <2>4
  <2> QED BY <1>6, <2>3, <2>4, <2>5
<1> HIDE DEF s, txs
<1>9. Ran(s.v, s.root, s.log, b.v, b.root, b.log, Len(txs))
  BY <1>4, <1>5, <1>6, <1>8, BatchRan
<1> HIDE DEF b
<1>10. Ran(v, root, log, v', root', log', Len(queue))
  BY <1>2, <1>5, <1>8, <1>9
<1>11. log' \in Seq(LogItem) /\ Len(log') <= Len(log) + Len(queue)
  BY <1>10 DEF Ran
<1>12. Spent' = Spent /\ Len(queue') = 0 /\ queue' \in Seq(Tx)
  BY <1>3 DEF Spent
<1>13. Len(log') + Len(queue') <= Spent'
  <2>1. Len(log') \in Nat /\ Len(log) \in Nat
    BY <1>4, <1>11
  <2> QED BY <1>4, <1>6, <1>11, <1>12, <2>1
<1>14. Bounded'
  BY <1>3, <1>12, <1>13 DEF Inv, Bounded
<1>15. Len(log) + Len(queue) <= Spent'
  BY <1>4, <1>12
<1> QED BY <1>3, <1>6, <1>10, <1>14, <1>15, GrowthIs

LEMMA ForkEpochIs == ASSUME Inv, ForkEpoch PROVE Advances
<1> DEFINE d == latest_root(disk)
<1>1. /\ budget.commits < MaxCommits /\ budget' = [budget EXCEPT !.commits = @ + 1]
      /\ ctl' = Ring(ctl)
      /\ (disk' = ctl' /\ savedLog' = log) \/ UNCHANGED <<disk, savedLog>>
      /\ UNCHANGED <<v, root, acc, queue, log>>
  BY DEF ForkEpoch
<1>2. /\ VaultOK(v, root) /\ v.tail \in Nat /\ v.nseg \in Nat /\ Sound(v, v.tail, root)
      /\ disk.tail \in Nat /\ disk.nseg \in Nat /\ disk.tail <= v.tail
      /\ RingOK(ctl) /\ \A r \in Range(ctl.roots) : Sound(v, v.tail, r)
      /\ RingOK(disk) /\ \A r \in Range(disk.roots) : Sound(v, disk.tail, r)
  BY DEF Inv, Rooted, VaultOK
<1>3. /\ ctl'.tail = v.tail /\ ctl'.nseg = v.nseg /\ RingOK(ctl')
      /\ Range(ctl'.roots) \subseteq Range(ctl.roots) \cup {root}
      /\ latest_root(ctl') = root
  BY <1>1, <1>2, RingIs
<1>4. \A r \in Range(ctl'.roots) : Sound(v, v.tail, r)
  BY <1>2, <1>3
<1>5. Keeps(v, v', disk.tail)
  BY <1>1 DEF Keeps
<1>6. /\ budget' \in [folds : 0 .. MaxFolds, commits : 0 .. MaxCommits]
      /\ Spent \in Nat /\ Spent' \in Nat /\ Spent <= Spent'
  <2>1. budget \in [folds : 0 .. MaxFolds, commits : 0 .. MaxCommits]
    BY DEF Inv, Bounded
  <2>2. /\ budget.commits \in Nat /\ budget.commits + 1 \in 0 .. MaxCommits
        /\ budget.folds \in Nat /\ MaxFolds \in Nat
    BY <1>1, <2>1, LedgerAssumption
  <2>3. budget' \in [folds : 0 .. MaxFolds, commits : 0 .. MaxCommits]
    BY <1>1, <2>1, <2>2
  <2>4. budget'.folds = budget.folds /\ budget'.commits = budget.commits + 1
    BY <1>1, <2>1
  <2>5. ASSUME NEW x \in Nat, NEW c \in Nat, NEW f \in Nat
        PROVE  x * c + f \in Nat /\ x * (c + 1) + f \in Nat /\ x * c + f <= x * (c + 1) + f
    <3>1. x * (c + 1) = x * c + x /\ x * c \in Nat
      OBVIOUS
    <3> QED BY <3>1
  <2>6. Spent = MaxFolds * budget.commits + budget.folds /\ Spent' = MaxFolds * (budget.commits + 1) + budget.folds
    BY <2>4 DEF Spent
  <2>7. Spent \in Nat /\ Spent' \in Nat /\ Spent <= Spent'
    BY <2>2, <2>5, <2>6, Zenon
  <2> QED BY <2>3, <2>7
<1>7. /\ Len(log) + Len(queue) <= Spent /\ Len(savedLog) <= Spent
      /\ Len(log) \in Nat /\ Len(queue) \in Nat /\ Len(savedLog) \in Nat
  BY DEF Inv, Bounded, Balanced, Accounted
<1>8. Len(savedLog') <= Spent' /\ Len(log') + Len(queue') <= Spent'
  BY <1>1, <1>6, <1>7
<1>9. Bounded'
  BY <1>1, <1>6, <1>8 DEF Inv, Bounded
<1>10. accounts' = accounts /\ \A r : Tree(r)' = Tree(r)
  BY <1>1 DEF accounts, Tree
<1>11. CASE disk' = ctl' /\ savedLog' = log
  <2>1. latest_root(disk') = root
    BY <1>3, <1>11
  <2>2. Rooted'
    <3>1. disk'.tail = v'.tail /\ disk'.nseg = v'.nseg /\ v' = v /\ root' = root
      BY <1>1, <1>3, <1>11
    <3>2. disk'.tail \in Nat /\ disk'.nseg \in Nat /\ disk'.tail <= v'.tail
      BY <1>2, <3>1
    <3>3. \A r \in Range(disk'.roots) : Sound(v', disk'.tail, r)
      BY <1>4, <1>11, <3>1
    <3> QED BY <1>2, <1>3, <1>4, <1>11, <3>1, <3>2, <3>3 DEF Rooted
  <2>3. Balanced'
    BY <1>1, <1>11, <2>1 DEF Inv, Balanced
  <2>4. Ordered => Ordered'
    BY <1>1, <1>11, <2>1 DEF Ordered
  <2>5. Tree(latest_root(disk))' = accounts
    BY <1>1, <2>1 DEF Tree, accounts
  <2>6. Map!Next
    BY <1>10, <2>5 DEF Map!Next, Map!Save
  <2> QED BY <1>5, <1>9, <2>2, <2>3, <2>4, <2>6 DEF Advances, Inv
<1>12. CASE UNCHANGED <<disk, savedLog>>
  <2>1. Rooted'
    BY <1>1, <1>2, <1>3, <1>4, <1>12 DEF Rooted
  <2>2. Balanced'
    BY <1>1, <1>12 DEF Inv, Balanced
  <2>3. Ordered => Ordered'
    BY <1>1, <1>12 DEF Ordered
  <2>4. UNCHANGED <<accounts, Tree(latest_root(disk))>>
    BY <1>1, <1>12 DEF Tree, accounts
  <2> QED BY <1>5, <1>9, <2>1, <2>2, <2>3, <2>4 DEF Advances, Inv
<1> QED BY <1>1, <1>11, <1>12

LEMMA ReopenIs == ASSUME Inv, Reopen PROVE Advances
<1> DEFINE d == latest_root(disk)
<1>1. /\ budget.commits < MaxCommits /\ budget' = [folds |-> 0, commits |-> budget.commits + 1]
      /\ ctl' = disk /\ v' = [mem |-> v.mem, tail |-> disk.tail, nseg |-> disk.nseg]
      /\ root' = d /\ acc' = Closed /\ queue' = << >> /\ log' = savedLog
      /\ UNCHANGED <<disk, savedLog>>
  BY DEF Reopen
<1>2. v'.mem = v.mem /\ v'.tail = disk.tail /\ v'.nseg = disk.nseg
  BY <1>1
<1>3. /\ disk.tail \in Nat /\ disk.nseg \in Nat
      /\ RingOK(disk) /\ \A r \in Range(disk.roots) : Sound(v, disk.tail, r)
      /\ Accounted(Book(v, d), savedLog)
  BY DEF Inv, Rooted, Balanced
<1>4. Keeps(v, v', disk.tail)
  BY <1>2 DEF Keeps, Live, deref
<1>5. ASSUME NEW r \in Range(disk.roots) PROVE Sound(v', disk.tail, r) /\ Book(v', r) = Book(v, r)
  <2>1. Sound(v, disk.tail, r) /\ disk.tail <= disk.tail
    BY <1>3
  <2> QED BY <1>3, <1>4, <2>1, BookFrame
<1>6. d \in Range(disk.roots)
  BY <1>3, LatestIs
<1>7. Book(v', d) = Book(v, d) /\ Sound(v', disk.tail, d)
  BY <1>5, <1>6
<1>8. VaultOK(v', root')
  <2>1. Book(v', root') \in [Key -> Slot]
    BY <1>1, <1>3, <1>7 DEF Accounted
  <2> QED BY <1>1, <1>2, <1>3, <1>7, <2>1 DEF VaultOK
<1>9. disk.tail <= v'.tail
  BY <1>2, <1>3
<1>10. Rooted'
  BY <1>1, <1>2, <1>3, <1>5, <1>8, <1>9 DEF Rooted
<1>11. Balanced'
  BY <1>1, <1>3, <1>7 DEF Balanced
<1>12. Ordered => Ordered'
  BY <1>1, <1>7 DEF Ordered
<1>13. /\ budget' \in [folds : 0 .. MaxFolds, commits : 0 .. MaxCommits]
       /\ Spent \in Nat /\ Spent' \in Nat /\ Spent <= Spent'
  <2>1. budget \in [folds : 0 .. MaxFolds, commits : 0 .. MaxCommits]
    BY DEF Inv, Bounded
  <2>2. /\ budget.commits \in Nat /\ budget.commits + 1 \in 0 .. MaxCommits
        /\ budget.folds \in 0 .. MaxFolds /\ MaxFolds \in Nat /\ 0 \in 0 .. MaxFolds
    BY <1>1, <2>1, LedgerAssumption
  <2>3. budget' \in [folds : 0 .. MaxFolds, commits : 0 .. MaxCommits]
    BY <1>1, <2>2
  <2>4. budget'.folds = 0 /\ budget'.commits = budget.commits + 1
    BY <1>1
  <2>5. ASSUME NEW x \in Nat, NEW c \in Nat, NEW f \in 0 .. x
        PROVE  x * c + f \in Nat /\ x * (c + 1) + 0 \in Nat /\ x * c + f <= x * (c + 1) + 0
    <3>1. x * (c + 1) = x * c + x /\ x * c \in Nat
      OBVIOUS
    <3> QED BY <3>1
  <2>6. Spent = MaxFolds * budget.commits + budget.folds /\ Spent' = MaxFolds * (budget.commits + 1) + 0
    BY <2>4 DEF Spent
  <2>7. Spent \in Nat /\ Spent' \in Nat /\ Spent <= Spent'
    BY <2>2, <2>5, <2>6, Zenon
  <2> QED BY <2>3, <2>7
<1>14. Len(savedLog) <= Spent /\ Len(savedLog) \in Nat
  BY <1>3 DEF Inv, Bounded, Accounted
<1>15. queue' \in Seq(Tx) /\ Len(queue') = 0
  BY <1>1
<1>16. Len(log') + Len(queue') <= Spent' /\ Len(savedLog') <= Spent'
  BY <1>1, <1>13, <1>14, <1>15
<1>17. /\ {"count", "pc"} \subseteq DOMAIN acc'
       /\ acc'.count \in Nat /\ acc'.pc \in {"EXEC", "CLOSE"}
  BY <1>1 DEF Closed
<1>18. Bounded'
  BY <1>13, <1>15, <1>16, <1>17 DEF Bounded
<1>19. Map!Next
  <2>1. Tree(latest_root(disk))' = Tree(latest_root(disk))
    BY <1>1, <1>7 DEF Tree, Book
  <2>2. accounts' = Tree(latest_root(disk))
    BY <1>1, <1>7 DEF accounts, Tree, Book
  <2> QED BY <2>1, <2>2 DEF Map!Next, Map!Restart
<1> QED BY <1>4, <1>10, <1>11, <1>12, <1>18, <1>19 DEF Advances, Inv

LEMMA StepAdvances == ASSUME Inv, [Next]_vars PROVE Advances
<1>1. CASE FoldHead
  BY <1>1, FoldHeadIs
<1>2. CASE FoldClose
  BY <1>2, FoldCloseIs
<1>3. ASSUME NEW e \in Entry, FoldStep(e) PROVE Advances
  BY <1>3, FoldStepIs
<1>4. ASSUME NEW tx \in Tx, Push(tx) PROVE Advances
  BY <1>4, PushIs
<1>5. CASE ExecuteBatch
  BY <1>5, ExecuteBatchIs
<1>6. CASE ForkEpoch
  BY <1>6, ForkEpochIs
<1>7. CASE Reopen
  BY <1>7, ReopenIs
<1>8. CASE UNCHANGED vars
  <2>1. Bounded'
    BY <1>8 DEF vars, Inv, Bounded, Spent
  <2> QED BY <1>8, <2>1, RestIs DEF vars
<1> QED BY <1>1, <1>2, <1>3, <1>4, <1>5, <1>6, <1>7, <1>8 DEF Next

---------------------------------------------------------------------------
(* The theorems.                                                           *)

LEMMA InvHolds == Spec => []Inv
<1>1. Init => Inv
  BY InitInv
<1>2. Inv /\ [Next]_vars => Inv'
  BY StepAdvances DEF Advances
<1> QED BY <1>1, <1>2, PTL DEF Spec

\* Every variable keeps its type; the working root is nothing or a mapped
\* slot, through every write, commit and restart, and every account it leads
\* to stays within its representation.
THEOREM LedgerTypes == Spec => []TypeOK
<1>1. ASSUME Inv PROVE TypeOK
  <2>1. /\ v.tail \in Nat /\ v.nseg \in Nat /\ Sound(v, v.tail, root)
        /\ Book(v, root) \in [Key -> Slot]
    BY <1>1 DEF Inv, Rooted, VaultOK
  <2>2. root = NoHandle \/ <<root[2], root[3]>> \in DOMAIN v.mem
    <3>1. PICK k \in Key : TRUE
      BY LedgerAssumption
    <3>2. Depth \in 0 .. Depth
      BY SmtAssumption
    <3>3. Descent(v, root, k)[Depth] = root
      BY DescentIs
    <3>4. NodeOK(v, v.tail, k, Depth, root)
      BY <2>1, <3>2, <3>3 DEF Sound
    <3> QED BY <3>4 DEF NodeOK, Live
  <2>3. \A k \in Key : accounts[k] \in State
    <3>1. accounts \in [Key -> Slot]
      BY <2>1 DEF accounts, Tree, Book
    <3> QED BY <3>1, NoAccountIs
  <2>4. acc.pc \in {"EXEC", "CLOSE"} /\ acc.count \in Nat /\ queue \in Seq(Tx)
    BY <1>1 DEF Inv, Bounded
  <2> QED BY <2>1, <2>2, <2>3, <2>4 DEF TypeOK
<1> QED BY <1>1, InvHolds, PTL

\* Money is conserved, whatever is folded, batched, committed or lost in a
\* restart: balances behind the working root and what the operations behind
\* it took always add up to the genesis supply.
THEOREM ConservedThm == Spec => []Conserved
<1>1. ASSUME Inv PROVE Conserved
  <2>1. Supply(Book(v, root)) + Costs(log) = SumFunction(Minted)
    BY <1>1 DEF Inv, Balanced, Accounted
  <2>2. accounts = Book(v, root)
    BY DEF accounts, Tree, Book
  <2> QED BY <2>1, <2>2 DEF Conserved, Minted
<1> QED BY <1>1, InvHolds, PTL

\* No transaction is settled twice in the history behind the working root,
\* by fold or batch, before or after a restart, as long as a behaviour is
\* too short for a 64-bit nonce to come round.
THEOREM ReplayOnceThm ==
    ASSUME NoncesSuffice
    PROVE  Spec => []ReplayOnce
<1>1. Init => Ordered
  BY InitInv
<1>2. Inv /\ Ordered /\ [Next]_vars => Ordered'
  BY StepAdvances DEF Advances
<1>3. ASSUME Inv, Ordered PROVE ReplayOnce
  <2> SUFFICES ASSUME NEW i \in DOMAIN log, NEW j \in DOMAIN log,
                      log[i].who = log[j].who, log[i].nonce = log[j].nonce,
                      log[i].kind # "skip", log[j].kind # "skip", i # j
               PROVE  FALSE
    BY DEF ReplayOnce
  <2>1. log \in Seq(LogItem)
    BY <1>3 DEF Inv, Balanced, Accounted
  <2>2. i \in Nat /\ j \in Nat /\ log[i] \in LogItem /\ log[j] \in LogItem
    BY <2>1, LenProperties
  <2>3. log[i].nonce \in Nat
    BY <2>2 DEF LogItem
  <2>4. /\ i < j => log[i].nonce < log[j].nonce
        /\ j < i => log[j].nonce < log[i].nonce
    BY <1>3 DEF Ordered, Nonces
  <2>5. i < j \/ j < i
    BY <2>2
  <2> QED BY <2>3, <2>4, <2>5
<1> QED BY <1>1, <1>2, <1>3, InvHolds, PTL DEF Spec

\* An opening against the working root is accepted for the account the tree
\* holds and for no other, in every reachable state.
THEOREM OpeningsDecideThm == Spec => []OpeningsDecide
<1>1. ASSUME Inv PROVE OpeningsDecide
  <2>1. Sound(v, v.tail, root)
    BY <1>1 DEF Inv, Rooted, VaultOK
  <2>2. ASSUME NEW k \in Key, NEW st
        PROVE  verify_opening(entry_hash(v, root, Depth), k, st, open(v, root, k))
                   <=> (~accounts[k].absent /\ st = accounts[k])
    <3>1. accounts[k] = lookup_account(v, root, k)
      BY DEF accounts, Tree
    <3> QED BY <2>1, <3>1, OpeningsOfSoundTree
  <2> QED BY <2>2 DEF OpeningsDecide
<1> QED BY <1>1, InvHolds, PTL

\* A root on disk keeps meaning the accounts it meant, whatever is written
\* after it, also by a process that reopened the vault and reuses slots.
THEOREM CommittedImmutableThm == Spec => CommittedImmutable
<1>1. ASSUME Inv, [Next]_vars
      PROVE  [\A r \in Range(disk.roots) \cap Range(disk'.roots) : Tree(r)' = Tree(r)]_vars
  <2>1. ASSUME NEW r \in Range(disk.roots) PROVE Tree(r)' = Tree(r)
    <3>1. disk.tail \in Nat /\ disk.tail <= disk.tail /\ Sound(v, disk.tail, r)
      BY <1>1 DEF Inv, Rooted
    <3>2. Keeps(v, v', disk.tail)
      BY <1>1, StepAdvances DEF Advances
    <3>3. Book(v', r) = Book(v, r)
      BY <3>1, <3>2, BookFrame
    <3> QED BY <3>3 DEF Tree, Book
  <2> QED BY <2>1
<1> QED BY <1>1, InvHolds, PTL DEF Spec, CommittedImmutable

\* The vault implements the abstract account map: writes, saves and restarts
\* of the map are all that the slots, trees and control sectors ever do.
THEOREM VaultIsMapThm == Spec => VaultIsMap
<1>1. Init => Map!Init
  BY InitInv
<1>2. ASSUME Inv, [Next]_vars
      PROVE  [Map!Next]_<<accounts, Tree(latest_root(disk))>>
  BY <1>2, StepAdvances DEF Advances
<1> QED BY <1>1, <1>2, InvHolds, PTL DEF Spec, VaultIsMap, Map!Spec
=============================================================================
