----------------------------- MODULE SmtProofs ------------------------------
(***************************************************************************)
(* The sparse Merkle tree over append-only slots is a map, for every depth *)
(* and every set of keys: what set_account writes lookup_account finds,    *)
(* every other key and every older root keep what they had, and openings   *)
(* decide what the tree holds.                                             *)
(***************************************************************************)
EXTENDS Smt, FiniteSums

---------------------------------------------------------------------------
(* The recursive definitions.                                              *)

\* A descent exists and obeys its equations.
LEMMA DescentIs ==
    ASSUME NEW V, NEW root, NEW k
    PROVE  LET at == Descent(V, root, k)
           IN  /\ at[Depth] = root
               /\ \A l \in 0 .. Depth : l # Depth => at[l] = Child(V, k, l, at[l + 1])
<1> DEFINE Eq(g, n) == g = [l \in Depth - n .. Depth |-> IF l = Depth THEN root ELSE Child(V, k, l, g[l + 1])]
           P == {n \in Nat : n <= Depth => \E g : Eq(g, n)}
<1>0. Depth \in Nat
  BY SmtAssumption
<1>1. 0 \in P
  <2> DEFINE g == [l \in Depth - 0 .. Depth |-> root]
  <2>1. Eq(g, 0)
    BY <1>0
  <2> QED BY <2>1
<1>2. ASSUME NEW n \in Nat, n \in P PROVE n + 1 \in P
  <2> SUFFICES ASSUME n + 1 <= Depth PROVE \E g : Eq(g, n + 1)
    OBVIOUS
  <2>1. PICK g : Eq(g, n)
    BY <1>0, <1>2
  <2> DEFINE D == Depth - (n + 1) .. Depth
             h == [l \in D |-> IF l = Depth THEN root ELSE Child(V, k, l, g[l + 1])]
  <2>2. \A l \in D : l # Depth => l + 1 \in Depth - n .. Depth
    BY <1>0
  <2>3. \A l \in Depth - n .. Depth : l \in D /\ h[l] = g[l]
    <3>1. \A l \in Depth - n .. Depth : g[l] = IF l = Depth THEN root ELSE Child(V, k, l, g[l + 1])
      BY <2>1
    <3>2. \A l \in Depth - n .. Depth : l \in D
      BY <1>0
    <3> HIDE DEF D
    <3> QED BY <3>1, <3>2
  <2>4. \A l \in D : h[l] = IF l = Depth THEN root ELSE Child(V, k, l, h[l + 1])
    <3>1. \A l \in D : h[l] = IF l = Depth THEN root ELSE Child(V, k, l, g[l + 1])
      OBVIOUS
    <3> HIDE DEF h, D
    <3> QED BY <2>2, <2>3, <3>1
  <2>5. h = [l \in D |-> h[l]]
    OBVIOUS
  <2> HIDE DEF h
  <2>6. Eq(h, n + 1)
    BY <2>4, <2>5
  <2> QED BY <2>6
<1>3. \A n \in Nat : n \in P
  <2> HIDE DEF P
  <2> QED BY <1>1, <1>2, SetInduction
<1>4. \E g : Eq(g, Depth)
  BY <1>0, <1>3
<1>5. Depth - Depth = 0
  BY <1>0
<1> DEFINE F(g) == g = [l \in 0 .. Depth |-> IF l = Depth THEN root ELSE Child(V, k, l, g[l + 1])]
<1>6. \E g : F(g)
  BY <1>4, <1>5
<1>7. Descent(V, root, k) = CHOOSE g : F(g)
  BY DEF Descent
<1>8. F(Descent(V, root, k))
  <2> HIDE DEF F
  <2> QED BY <1>6, <1>7
<1> QED BY <1>0, <1>8

\* A new path exists and obeys its equations.
LEMMA NewPathIs ==
    ASSUME NEW V, NEW k, NEW st, NEW at
    PROVE  LET up == NewPath(V, k, st, at)
           IN  /\ up[0] = NewLeaf(V, k, st)
               /\ \A l \in 1 .. Depth : up[l] = Copied(V, k, at, l - 1, up[l - 1])
<1> DEFINE Eq(g, n) == g = [l \in 0 .. n |-> IF l = 0 THEN NewLeaf(V, k, st) ELSE Copied(V, k, at, l - 1, g[l - 1])]
           P == {n \in Nat : \E g : Eq(g, n)}
<1>0. Depth \in Nat
  BY SmtAssumption
<1>1. 0 \in P
  <2> DEFINE g == [l \in 0 .. 0 |-> NewLeaf(V, k, st)]
  <2>1. Eq(g, 0)
    OBVIOUS
  <2> QED BY <2>1
<1>2. ASSUME NEW n \in Nat, n \in P PROVE n + 1 \in P
  <2>1. PICK g : Eq(g, n)
    BY <1>2
  <2> DEFINE h == [l \in 0 .. n + 1 |-> IF l = 0 THEN NewLeaf(V, k, st) ELSE Copied(V, k, at, l - 1, g[l - 1])]
  <2>2. \A l \in 0 .. n + 1 : l # 0 => l - 1 \in 0 .. n
    OBVIOUS
  <2>3. \A l \in 0 .. n : h[l] = g[l]
    <3>1. \A l \in 0 .. n : g[l] = IF l = 0 THEN NewLeaf(V, k, st) ELSE Copied(V, k, at, l - 1, g[l - 1])
      BY <2>1
    <3>2. \A l \in 0 .. n : l \in 0 .. n + 1
      OBVIOUS
    <3> QED BY <3>1, <3>2
  <2>4. \A l \in 0 .. n + 1 : h[l] = IF l = 0 THEN NewLeaf(V, k, st) ELSE Copied(V, k, at, l - 1, h[l - 1])
    <3>1. \A l \in 0 .. n + 1 : h[l] = IF l = 0 THEN NewLeaf(V, k, st) ELSE Copied(V, k, at, l - 1, g[l - 1])
      OBVIOUS
    <3> HIDE DEF h
    <3> QED BY <2>2, <2>3, <3>1
  <2>5. h = [l \in 0 .. n + 1 |-> h[l]]
    OBVIOUS
  <2> HIDE DEF h
  <2>6. Eq(h, n + 1)
    BY <2>4, <2>5
  <2> QED BY <2>6
<1>3. \A n \in Nat : n \in P
  <2> HIDE DEF P
  <2> QED BY <1>1, <1>2, SetInduction
<1>4. \E g : Eq(g, Depth)
  BY <1>0, <1>3
<1>5. NewPath(V, k, st, at) = CHOOSE g : Eq(g, Depth)
  BY DEF NewPath
<1>6. Eq(NewPath(V, k, st, at), Depth)
  <2> HIDE DEF Eq
  <2> QED BY <1>4, <1>5
<1> QED BY <1>0, <1>6

\* The hashes an opening gives exist and obey their equations.
LEMMA ClimbIs ==
    ASSUME NEW k, NEW leaf, NEW sib
    PROVE  LET up == Climb(k, leaf, sib)
           IN  /\ up[0] = leaf
               /\ \A l \in 1 .. Depth : up[l] = IF Bit(k, l - 1) = 1 THEN NodeHash(sib[l - 1], up[l - 1])
                                                ELSE NodeHash(up[l - 1], sib[l - 1])
<1> DEFINE Over(l, x) == IF Bit(k, l - 1) = 1 THEN NodeHash(sib[l - 1], x) ELSE NodeHash(x, sib[l - 1])
<1>a. Climb(k, leaf, sib) = CHOOSE g : g = [l \in 0 .. Depth |-> IF l = 0 THEN leaf ELSE Over(l, g[l - 1])]
  BY DEF Climb
<1> HIDE DEF Over
<1> DEFINE Eq(g, n) == g = [l \in 0 .. n |-> IF l = 0 THEN leaf ELSE Over(l, g[l - 1])]
           P == {n \in Nat : \E g : Eq(g, n)}
<1>0. Depth \in Nat
  BY SmtAssumption
<1>1. 0 \in P
  <2> DEFINE g == [l \in 0 .. 0 |-> leaf]
  <2>1. Eq(g, 0)
    OBVIOUS
  <2> QED BY <2>1
<1>2. ASSUME NEW n \in Nat, n \in P PROVE n + 1 \in P
  <2>1. PICK g : Eq(g, n)
    BY <1>2
  <2> DEFINE h == [l \in 0 .. n + 1 |-> IF l = 0 THEN leaf ELSE Over(l, g[l - 1])]
  <2>2. \A l \in 0 .. n + 1 : l # 0 => l - 1 \in 0 .. n
    OBVIOUS
  <2>3. \A l \in 0 .. n : h[l] = g[l]
    <3>1. \A l \in 0 .. n : g[l] = IF l = 0 THEN leaf ELSE Over(l, g[l - 1])
      BY <2>1
    <3>2. \A l \in 0 .. n : l \in 0 .. n + 1
      OBVIOUS
    <3> QED BY <3>1, <3>2
  <2>4. \A l \in 0 .. n + 1 : h[l] = IF l = 0 THEN leaf ELSE Over(l, h[l - 1])
    <3>1. \A l \in 0 .. n + 1 : h[l] = IF l = 0 THEN leaf ELSE Over(l, g[l - 1])
      OBVIOUS
    <3> HIDE DEF h
    <3> QED BY <2>2, <2>3, <3>1
  <2>5. h = [l \in 0 .. n + 1 |-> h[l]]
    OBVIOUS
  <2> HIDE DEF h
  <2>6. Eq(h, n + 1)
    BY <2>4, <2>5
  <2> QED BY <2>6
<1>3. \A n \in Nat : n \in P
  <2> HIDE DEF P
  <2> QED BY <1>1, <1>2, SetInduction
<1>4. \E g : Eq(g, Depth)
  BY <1>0, <1>3
<1>5. Eq(Climb(k, leaf, sib), Depth)
  <2>1. Climb(k, leaf, sib) = CHOOSE g : Eq(g, Depth)
    BY <1>a
  <2> HIDE DEF Eq
  <2> QED BY <1>4, <2>1
<1> QED BY <1>0, <1>5 DEF Over

\* The hashes of empty subtrees exist and obey their equations.
LEMMA EmptyTableIs ==
    /\ empty_table[0] = <<"leaf", 0, 0>>
    /\ \A l \in 1 .. Depth : empty_table[l] = NodeHash(empty_table[l - 1], empty_table[l - 1])
<1> DEFINE Over(l, x) == NodeHash(x, x)
           leaf == <<"leaf", 0, 0>>
<1>a. empty_table = CHOOSE g : g = [l \in 0 .. Depth |-> IF l = 0 THEN leaf ELSE Over(l, g[l - 1])]
  BY DEF empty_table
<1> HIDE DEF Over, leaf
<1> DEFINE Eq(g, n) == g = [l \in 0 .. n |-> IF l = 0 THEN leaf ELSE Over(l, g[l - 1])]
           P == {n \in Nat : \E g : Eq(g, n)}
<1>0. Depth \in Nat
  BY SmtAssumption
<1>1. 0 \in P
  <2> DEFINE g == [l \in 0 .. 0 |-> leaf]
  <2>1. Eq(g, 0)
    OBVIOUS
  <2> QED BY <2>1
<1>2. ASSUME NEW n \in Nat, n \in P PROVE n + 1 \in P
  <2>1. PICK g : Eq(g, n)
    BY <1>2
  <2> DEFINE h == [l \in 0 .. n + 1 |-> IF l = 0 THEN leaf ELSE Over(l, g[l - 1])]
  <2>2. \A l \in 0 .. n + 1 : l # 0 => l - 1 \in 0 .. n
    OBVIOUS
  <2>3. \A l \in 0 .. n : h[l] = g[l]
    <3>1. \A l \in 0 .. n : g[l] = IF l = 0 THEN leaf ELSE Over(l, g[l - 1])
      BY <2>1
    <3>2. \A l \in 0 .. n : l \in 0 .. n + 1
      OBVIOUS
    <3> QED BY <3>1, <3>2
  <2>4. \A l \in 0 .. n + 1 : h[l] = IF l = 0 THEN leaf ELSE Over(l, h[l - 1])
    <3>1. \A l \in 0 .. n + 1 : h[l] = IF l = 0 THEN leaf ELSE Over(l, g[l - 1])
      OBVIOUS
    <3> HIDE DEF h
    <3> QED BY <2>2, <2>3, <3>1
  <2>5. h = [l \in 0 .. n + 1 |-> h[l]]
    OBVIOUS
  <2> HIDE DEF h
  <2>6. Eq(h, n + 1)
    BY <2>4, <2>5
  <2> QED BY <2>6
<1>3. \A n \in Nat : n \in P
  <2> HIDE DEF P
  <2> QED BY <1>1, <1>2, SetInduction
<1>4. \E g : Eq(g, Depth)
  BY <1>0, <1>3
<1>5. Eq(empty_table, Depth)
  <2>1. empty_table = CHOOSE g : Eq(g, Depth)
    BY <1>a
  <2> HIDE DEF Eq
  <2> QED BY <1>4, <2>1
<1> QED BY <1>0, <1>5 DEF Over, leaf

---------------------------------------------------------------------------
(* Slots.                                                                  *)

\* A handle to a mapped slot below T.
Live(V, T, h) == h # NoHandle /\ <<h[2], h[3]>> \in DOMAIN V.mem /\ h[3] \in Nat /\ h[3] < T

\* U holds whatever V holds below slot T.
Keeps(V, U, T) == \A h : Live(V, T, h) => Live(U, T, h) /\ deref(U, h) = deref(V, h)

LEMMA LiveGrows ==
    ASSUME NEW V, NEW h, NEW T \in Nat, NEW S \in Nat, T <= S, Live(V, T, h)
    PROVE  Live(V, S, h)
BY DEF Live

LEMMA KeepsChain ==
    ASSUME NEW V, NEW U, NEW W, NEW T \in Nat, NEW S \in Nat, T <= S,
           Keeps(V, U, T), Keeps(U, W, S)
    PROVE  Keeps(V, W, T)
<1> SUFFICES ASSUME NEW h, Live(V, T, h)
             PROVE  Live(W, T, h) /\ deref(W, h) = deref(V, h)
  BY DEF Keeps
<1>1. Live(U, T, h) /\ deref(U, h) = deref(V, h)
  BY DEF Keeps
<1>2. Live(U, S, h)
  BY <1>1, LiveGrows
<1>3. Live(W, S, h) /\ deref(W, h) = deref(U, h)
  BY <1>2 DEF Keeps
<1> QED BY <1>1, <1>3 DEF Live

LEMMA KeepsBelow ==
    ASSUME NEW V, NEW U, NEW T \in Nat, NEW S \in Nat, T <= S, Keeps(V, U, S)
    PROVE  Keeps(V, U, T)
<1> SUFFICES ASSUME NEW h, Live(V, T, h)
             PROVE  Live(U, T, h) /\ deref(U, h) = deref(V, h)
  BY DEF Keeps
<1>1. Live(V, S, h)
  BY LiveGrows
<1>2. Live(U, S, h) /\ deref(U, h) = deref(V, h)
  BY <1>1 DEF Keeps
<1> QED BY <1>2 DEF Live

\* alloc writes one new slot, at the tail, whatever the segment.
LEMMA AllocIs ==
    ASSUME NEW V, V.tail \in Nat, NEW e
    PROVE  LET r == alloc(V, e)
           IN  /\ r.v.tail = V.tail + 1
               /\ Keeps(V, r.v, V.tail)
               /\ Live(r.v, V.tail + 1, r.h)
               /\ deref(r.v, r.h) = e
<1> DEFINE n == IF V.nseg = 0 \/ V.tail >= SegSlots THEN V.nseg + 1 ELSE V.nseg
           s == n - 1
           t == V.tail
           mem == [x \in DOMAIN V.mem \cup {<<s, t>>} |-> IF x = <<s, t>> THEN e ELSE V.mem[x]]
           r == alloc(V, e)
<1>1. r = [v |-> [mem |-> mem, tail |-> t + 1, nseg |-> n], h |-> <<e.tag, s, t>>]
  BY DEF alloc
<1>2. r.v.tail = t + 1 /\ r.v.mem = mem /\ r.h = <<e.tag, s, t>>
  BY <1>1
<1> HIDE DEF r, s, n
<1>3. r.h[2] = s /\ r.h[3] = t /\ r.h # NoHandle
  BY <1>2 DEF NoHandle
<1>4. DOMAIN mem = DOMAIN V.mem \cup {<<s, t>>} /\ mem[<<s, t>>] = e
  OBVIOUS
<1>5. \A a, b : b # t /\ <<a, b>> \in DOMAIN V.mem => mem[<<a, b>>] = V.mem[<<a, b>>]
  OBVIOUS
<1> HIDE DEF mem
<1>6. Live(r.v, t + 1, r.h) /\ deref(r.v, r.h) = e
  BY <1>2, <1>3, <1>4 DEF Live, deref
<1>7. Keeps(V, r.v, t)
  <2> SUFFICES ASSUME NEW h, Live(V, t, h)
               PROVE  Live(r.v, t, h) /\ deref(r.v, h) = deref(V, h)
    BY DEF Keeps
  <2>1. h # NoHandle /\ h[3] \in Nat /\ h[3] < t /\ <<h[2], h[3]>> \in DOMAIN V.mem
    BY DEF Live
  <2>2. h[3] # t
    BY <2>1
  <2>3. <<h[2], h[3]>> \in DOMAIN mem /\ mem[<<h[2], h[3]>>] = V.mem[<<h[2], h[3]>>]
    BY <1>4, <1>5, <2>1, <2>2
  <2> QED BY <1>2, <2>1, <2>3 DEF Live, deref
<1> QED BY <1>2, <1>6, <1>7 DEF r, t

---------------------------------------------------------------------------
(* Sound trees.                                                            *)

\* A child: nothing, or a mapped slot.
Sub(V, T, h) == h = NoHandle \/ Live(V, T, h)

\* The two keys agree on every turn above height l.
Together(k, j, l) == \A i \in l .. Depth - 1 : Bit(k, i) = 1 <=> Bit(j, i) = 1

\* A leaf at the position of k: its record is mapped, is of a key of that
\* position, holds an account the encoding admits, and is what the leaf's
\* hash is of.
LeafOK(V, T, k, h) ==
    LET e == deref(V, h)
        r == deref(V, e.rec)
    IN  /\ e.tag = "TLEAF" /\ Live(V, T, e.rec)
        /\ r.key \in Key /\ Together(k, r.key, 0)
        /\ encodable(r.st) /\ ~r.st.absent
        /\ e.hash = LeafHash(r.key, r.st)

\* An inner node of height l: its children are mapped and its hash is of
\* theirs.
MidOK(V, T, l, h) ==
    LET e == deref(V, h)
    IN  /\ e.tag = "MID" /\ Sub(V, T, e.left) /\ Sub(V, T, e.right)
        /\ e.hash = NodeHash(entry_hash(V, e.left, l - 1), entry_hash(V, e.right, l - 1))

NodeOK(V, T, k, l, h) ==
    h = NoHandle \/ (Live(V, T, h) /\ IF l = 0 THEN LeafOK(V, T, k, h) ELSE MidOK(V, T, l, h))

\* The tree behind a root lies below slot T and is well formed on the way
\* to every key.
Sound(V, T, root) ==
    \A k \in Key, l \in 0 .. Depth : NodeOK(V, T, k, l, Descent(V, root, k)[l])

LEMMA SubFrame ==
    ASSUME NEW V, NEW U, NEW T \in Nat, NEW S \in Nat, T <= S, Keeps(V, U, T), NEW h, Sub(V, T, h)
    PROVE  Sub(U, S, h) /\ \A l : entry_hash(U, h, l) = entry_hash(V, h, l)
<1>1. CASE h = NoHandle
  BY <1>1 DEF Sub, entry_hash
<1>2. CASE h # NoHandle
  <2>1. Live(U, T, h) /\ deref(U, h) = deref(V, h)
    BY <1>2 DEF Sub, Keeps
  <2>2. Live(U, S, h)
    BY <2>1, LiveGrows
  <2> QED BY <2>1, <2>2 DEF Sub, entry_hash
<1> QED BY <1>1, <1>2

LEMMA NodeFrame ==
    ASSUME NEW V, NEW U, NEW T \in Nat, NEW S \in Nat, T <= S, Keeps(V, U, T), NEW k, NEW l, NEW h, NodeOK(V, T, k, l, h)
    PROVE  NodeOK(U, S, k, l, h)
<1> SUFFICES ASSUME h # NoHandle
             PROVE  Live(U, S, h) /\ IF l = 0 THEN LeafOK(U, S, k, h) ELSE MidOK(U, S, l, h)
  BY DEF NodeOK
<1>1. Live(V, T, h) /\ IF l = 0 THEN LeafOK(V, T, k, h) ELSE MidOK(V, T, l, h)
  BY DEF NodeOK
<1>2. Live(U, T, h) /\ deref(U, h) = deref(V, h)
  BY <1>1 DEF Keeps
<1>3. Live(U, S, h)
  BY <1>2, LiveGrows
<1> DEFINE e == deref(V, h)
<1>4. ASSUME l = 0 PROVE LeafOK(U, S, k, h)
  <2>1. LeafOK(V, T, k, h)
    BY <1>1, <1>4
  <2>2. Live(V, T, e.rec)
    BY <2>1 DEF LeafOK
  <2>3. Live(U, T, e.rec) /\ deref(U, e.rec) = deref(V, e.rec)
    BY <2>2 DEF Keeps
  <2>4. Live(U, S, e.rec)
    BY <2>3, LiveGrows
  <2> QED BY <1>2, <2>1, <2>3, <2>4 DEF LeafOK
<1>5. ASSUME l # 0 PROVE MidOK(U, S, l, h)
  <2>1. MidOK(V, T, l, h)
    BY <1>1, <1>5
  <2>2. Sub(V, T, e.left) /\ Sub(V, T, e.right)
    BY <2>1 DEF MidOK
  <2>3. Sub(U, S, e.left) /\ entry_hash(U, e.left, l - 1) = entry_hash(V, e.left, l - 1)
    BY <2>2, SubFrame
  <2>4. Sub(U, S, e.right) /\ entry_hash(U, e.right, l - 1) = entry_hash(V, e.right, l - 1)
    BY <2>2, SubFrame
  <2> QED BY <1>2, <2>1, <2>3, <2>4 DEF MidOK
<1> QED BY <1>3, <1>4, <1>5

\* What a vault keeps, a sound tree keeps: its descents, its accounts and
\* its soundness.
LEMMA TreeFrame ==
    ASSUME NEW V, NEW U, NEW T \in Nat, NEW S \in Nat, T <= S, Keeps(V, U, T),
           NEW root, Sound(V, T, root)
    PROVE  /\ \A k \in Key, l \in 0 .. Depth : Descent(U, root, k)[l] = Descent(V, root, k)[l]
           /\ Sound(U, S, root)
           /\ \A k \in Key : lookup_account(U, root, k) = lookup_account(V, root, k)
<1>0. Depth \in Nat
  BY SmtAssumption
<1>1. ASSUME NEW k \in Key
      PROVE  \A l \in 0 .. Depth : Descent(U, root, k)[l] = Descent(V, root, k)[l]
  <2> DEFINE a == Descent(V, root, k)
             b == Descent(U, root, k)
             P == {n \in Nat : n <= Depth => b[Depth - n] = a[Depth - n]}
  <2>0. /\ a[Depth] = root /\ b[Depth] = root
        /\ \A l \in 0 .. Depth : l # Depth => a[l] = Child(V, k, l, a[l + 1])
        /\ \A l \in 0 .. Depth : l # Depth => b[l] = Child(U, k, l, b[l + 1])
    BY DescentIs
  <2>s. \A l \in 0 .. Depth : NodeOK(V, T, k, l, a[l])
    BY <1>1 DEF Sound
  <2> HIDE DEF a, b
  <2>1. 0 \in P
    BY <1>0, <2>0
  <2>2. ASSUME NEW n \in Nat, n \in P PROVE n + 1 \in P
    <3> SUFFICES ASSUME n + 1 <= Depth PROVE b[Depth - (n + 1)] = a[Depth - (n + 1)]
      OBVIOUS
    <3> DEFINE l == Depth - (n + 1)
    <3>1. l \in 0 .. Depth /\ l # Depth /\ l + 1 = Depth - n /\ l + 1 \in 0 .. Depth /\ n <= Depth
      BY <1>0
    <3>2. b[l + 1] = a[l + 1]
      BY <2>2, <3>1
    <3> HIDE DEF l
    <3>3. a[l] = Child(V, k, l, a[l + 1]) /\ b[l] = Child(U, k, l, a[l + 1])
      BY <2>0, <3>1, <3>2
    <3>4. a[l + 1] # NoHandle => Live(V, T, a[l + 1])
      BY <2>s, <3>1 DEF NodeOK
    <3>5. a[l + 1] # NoHandle => deref(U, a[l + 1]) = deref(V, a[l + 1])
      BY <3>4 DEF Keeps
    <3>6. b[l] = a[l]
      BY <3>3, <3>5 DEF Child
    <3> QED BY <3>6 DEF l
  <2>3. \A n \in Nat : n \in P
    <3> HIDE DEF P
    <3> QED BY <2>1, <2>2, SetInduction
  <2>4. ASSUME NEW l \in 0 .. Depth PROVE b[l] = a[l]
    <3>1. Depth - l \in Nat /\ Depth - l <= Depth /\ Depth - (Depth - l) = l
      BY <1>0
    <3> QED BY <2>3, <3>1
  <2> QED BY <2>4 DEF a, b
<1>2. Sound(U, S, root)
  <2> SUFFICES ASSUME NEW k \in Key, NEW l \in 0 .. Depth
               PROVE  NodeOK(U, S, k, l, Descent(U, root, k)[l])
    BY DEF Sound
  <2>1. NodeOK(V, T, k, l, Descent(V, root, k)[l])
    BY DEF Sound
  <2>2. NodeOK(U, S, k, l, Descent(V, root, k)[l])
    BY <2>1, NodeFrame
  <2> QED BY <1>1, <2>2
<1>3. ASSUME NEW k \in Key
      PROVE  lookup_account(U, root, k) = lookup_account(V, root, k)
  <2> DEFINE h == Descent(V, root, k)[0]
  <2>1. Descent(U, root, k)[0] = h
    BY <1>0, <1>1
  <2>2. CASE h = NoHandle
    BY <2>1, <2>2 DEF lookup_account
  <2>3. CASE h # NoHandle
    <3>1. Live(V, T, h) /\ LeafOK(V, T, k, h)
      BY <1>0, <2>3 DEF Sound, NodeOK
    <3>2. Live(V, T, deref(V, h).rec)
      BY <3>1 DEF LeafOK
    <3>3. deref(U, h) = deref(V, h) /\ deref(U, deref(V, h).rec) = deref(V, deref(V, h).rec)
      BY <3>1, <3>2 DEF Keeps
    <3> HIDE DEF h
    <3>4. lookup_account(V, root, k) = LET r == deref(V, deref(V, h).rec) IN IF r.key = k THEN r.st ELSE NoAccount
      BY <2>3 DEF lookup_account, h
    <3>5. lookup_account(U, root, k) = LET r == deref(U, deref(U, h).rec) IN IF r.key = k THEN r.st ELSE NoAccount
      BY <2>1, <2>3 DEF lookup_account
    <3> QED BY <3>3, <3>4, <3>5
  <2> QED BY <2>2, <2>3
<1> QED BY <1>1, <1>2, <1>3

---------------------------------------------------------------------------
(* A new path.                                                             *)

\* The two slots of a new leaf: the record and the leaf over it.
LEMMA NewLeafIs ==
    ASSUME NEW V, V.tail \in Nat, NEW k, NEW st
    PROVE  LET c == NewLeaf(V, k, st)
               r == deref(c.v, c.h).rec
           IN  /\ c.v.tail = V.tail + 2
               /\ Keeps(V, c.v, V.tail)
               /\ Live(c.v, c.v.tail, c.h)
               /\ deref(c.v, c.h).tag = "TLEAF" /\ deref(c.v, c.h).hash = LeafHash(k, st)
               /\ Live(c.v, c.v.tail, r)
               /\ deref(c.v, r).key = k /\ deref(c.v, r).st = st
<1> DEFINE e == [tag |-> "REC", key |-> k, st |-> st]
           r == alloc(V, e)
           f == [tag |-> "TLEAF", rec |-> r.h, hash |-> LeafHash(k, st)]
           c == alloc(r.v, f)
<1>1. NewLeaf(V, k, st) = c
  BY DEF NewLeaf
<1>2. /\ r.v.tail = V.tail + 1
      /\ Keeps(V, r.v, V.tail) /\ Live(r.v, V.tail + 1, r.h) /\ deref(r.v, r.h) = e
  BY AllocIs
<1>3. r.v.tail \in Nat
  BY <1>2
<1>4. /\ c.v.tail = r.v.tail + 1
      /\ Keeps(r.v, c.v, r.v.tail) /\ Live(c.v, r.v.tail + 1, c.h) /\ deref(c.v, c.h) = f
  BY <1>3, AllocIs
<1>5. Live(c.v, r.v.tail, r.h) /\ deref(c.v, r.h) = e
  BY <1>2, <1>4 DEF Keeps
<1>e. e.key = k /\ e.st = st
  OBVIOUS
<1> HIDE DEF c, e, r
<1>f. f.tag = "TLEAF" /\ f.rec = r.h /\ f.hash = LeafHash(k, st)
  OBVIOUS
<1> HIDE DEF f
<1>6. Keeps(V, c.v, V.tail)
  BY <1>2, <1>3, <1>4, KeepsChain
<1>7. c.v.tail = V.tail + 2 /\ c.v.tail \in Nat
  BY <1>2, <1>4
<1>8. Live(c.v, c.v.tail, r.h)
  BY <1>3, <1>4, <1>5, <1>7, LiveGrows
<1>9. Live(c.v, c.v.tail, c.h)
  BY <1>4
<1>10. deref(c.v, c.h) = f
  BY <1>4
<1> QED BY <1>1, <1>5, <1>6, <1>7, <1>8, <1>9, <1>10, <1>e, <1>f

\* A copied node: one slot more, over the copied child.
LEMMA CopiedIs ==
    ASSUME NEW V, NEW k, NEW at, NEW l, NEW c, c.v.tail \in Nat
    PROVE  LET d  == Copied(V, k, at, l, c)
               s  == Sibling(V, k, at, l)
               hs == entry_hash(V, s, l)
               hc == deref(c.v, c.h).hash
           IN  /\ d.v.tail = c.v.tail + 1
               /\ Keeps(c.v, d.v, c.v.tail)
               /\ Live(d.v, d.v.tail, d.h)
               /\ deref(d.v, d.h).tag = "MID"
               /\ Bit(k, l) = 1 => /\ deref(d.v, d.h).left = s /\ deref(d.v, d.h).right = c.h
                                   /\ deref(d.v, d.h).hash = NodeHash(hs, hc)
               /\ Bit(k, l) # 1 => /\ deref(d.v, d.h).left = c.h /\ deref(d.v, d.h).right = s
                                   /\ deref(d.v, d.h).hash = NodeHash(hc, hs)
<1> DEFINE d  == Copied(V, k, at, l, c)
           s  == Sibling(V, k, at, l)
           hs == entry_hash(V, s, l)
           hc == deref(c.v, c.h).hash
           right == Bit(k, l) = 1
           e == [tag   |-> "MID",
                 left  |-> IF right THEN s ELSE c.h,
                 right |-> IF right THEN c.h ELSE s,
                 hash  |-> IF right THEN NodeHash(hs, hc) ELSE NodeHash(hc, hs)]
<1>1. d = alloc(c.v, e)
  BY DEF Copied
<1> HIDE DEF d, hs, hc, s
<1>2. /\ e.tag = "MID"
      /\ right => e.left = s /\ e.right = c.h /\ e.hash = NodeHash(hs, hc)
      /\ ~right => e.left = c.h /\ e.right = s /\ e.hash = NodeHash(hc, hs)
  OBVIOUS
<1> HIDE DEF e, right
<1>3. /\ d.v.tail = c.v.tail + 1
      /\ Keeps(c.v, d.v, c.v.tail) /\ Live(d.v, c.v.tail + 1, d.h) /\ deref(d.v, d.h) = e
  BY <1>1, AllocIs
<1> QED BY <1>2, <1>3 DEF d, s, hs, hc, right

\* The whole path: every slot of it is new, and the last vault holds what
\* each step wrote.
LEMMA NewPathHolds ==
    ASSUME NEW V, V.tail \in Nat, NEW k, NEW st, NEW at
    PROVE  LET up == NewPath(V, k, st, at)
               U  == up[Depth].v
           IN  /\ U.tail = V.tail + 2 + Depth
               /\ Keeps(V, U, V.tail)
               /\ \A l \in 0 .. Depth :
                    /\ up[l].v.tail \in Nat
                    /\ V.tail <= up[l].v.tail /\ up[l].v.tail <= U.tail
                    /\ Keeps(V, up[l].v, V.tail)
                    /\ Live(up[l].v, up[l].v.tail, up[l].h)
                    /\ Keeps(up[l].v, U, up[l].v.tail)
<1> DEFINE up == NewPath(V, k, st, at)
           U  == up[Depth].v
           P  == {n \in Nat : n <= Depth => /\ up[n].v.tail = V.tail + 2 + n
                                            /\ Keeps(V, up[n].v, V.tail)
                                            /\ Live(up[n].v, up[n].v.tail, up[n].h)}
           Q  == {n \in Nat : n <= Depth => Keeps(up[Depth - n].v, U, up[Depth - n].v.tail)}
<1>0. Depth \in Nat
  BY SmtAssumption
<1>a. up[0] = NewLeaf(V, k, st) /\ \A l \in 1 .. Depth : up[l] = Copied(V, k, at, l - 1, up[l - 1])
  BY NewPathIs
<1> HIDE DEF up
<1>1. 0 \in P
  <2> DEFINE c == NewLeaf(V, k, st)
  <2>1. c.v.tail = V.tail + 2 /\ Keeps(V, c.v, V.tail) /\ Live(c.v, c.v.tail, c.h)
    BY NewLeafIs
  <2>2. up[0] = c
    BY <1>a
  <2> HIDE DEF c
  <2> QED BY <2>1, <2>2
<1>2. ASSUME NEW n \in Nat, n \in P PROVE n + 1 \in P
  <2> SUFFICES ASSUME n + 1 <= Depth
               PROVE  /\ up[n + 1].v.tail = V.tail + 2 + (n + 1)
                      /\ Keeps(V, up[n + 1].v, V.tail)
                      /\ Live(up[n + 1].v, up[n + 1].v.tail, up[n + 1].h)
    OBVIOUS
  <2>1. /\ up[n].v.tail = V.tail + 2 + n
        /\ Keeps(V, up[n].v, V.tail)
    BY <1>0, <1>2
  <2>2. n + 1 \in 1 .. Depth /\ (n + 1) - 1 = n
    BY <1>0
  <2>3. up[n + 1] = Copied(V, k, at, n, up[n])
    BY <1>a, <2>2
  <2>4. up[n].v.tail \in Nat
    BY <2>1
  <2>5. /\ up[n + 1].v.tail = up[n].v.tail + 1
        /\ Keeps(up[n].v, up[n + 1].v, up[n].v.tail)
        /\ Live(up[n + 1].v, up[n + 1].v.tail, up[n + 1].h)
    BY <2>3, <2>4, CopiedIs
  <2>6. V.tail <= up[n].v.tail
    BY <2>1
  <2>7. Keeps(V, up[n + 1].v, V.tail)
    BY <2>1, <2>4, <2>5, <2>6, KeepsChain
  <2> QED BY <2>1, <2>5, <2>7
<1>3. \A n \in Nat : n \in P
  <2> HIDE DEF P
  <2> QED BY <1>1, <1>2, SetInduction
<1>4. \A l \in 0 .. Depth : /\ up[l].v.tail = V.tail + 2 + l
                            /\ Keeps(V, up[l].v, V.tail)
                            /\ Live(up[l].v, up[l].v.tail, up[l].h)
  BY <1>0, <1>3
<1>5. 0 \in Q
  BY <1>0 DEF Keeps
<1>6. ASSUME NEW n \in Nat, n \in Q PROVE n + 1 \in Q
  <2> SUFFICES ASSUME n + 1 <= Depth
               PROVE  Keeps(up[Depth - (n + 1)].v, U, up[Depth - (n + 1)].v.tail)
    OBVIOUS
  <2> DEFINE l == Depth - (n + 1)
  <2>1. l \in 0 .. Depth /\ l + 1 \in 1 .. Depth /\ l + 1 \in 0 .. Depth /\ (l + 1) - 1 = l /\ l + 1 = Depth - n /\ n <= Depth
    BY <1>0
  <2>2. Keeps(up[l + 1].v, U, up[l + 1].v.tail)
    BY <1>6, <2>1
  <2> HIDE DEF l, U
  <2>3. up[l + 1] = Copied(V, k, at, l, up[l])
    BY <1>a, <2>1
  <2>4. up[l].v.tail \in Nat /\ up[l + 1].v.tail \in Nat /\ up[l].v.tail <= up[l + 1].v.tail
    BY <1>4, <2>1
  <2>5. Keeps(up[l].v, up[l + 1].v, up[l].v.tail)
    BY <2>3, <2>4, CopiedIs
  <2>6. Keeps(up[l].v, U, up[l].v.tail)
    BY <2>2, <2>4, <2>5, KeepsChain
  <2> QED BY <2>6 DEF l
<1>7. \A n \in Nat : n \in Q
  <2> HIDE DEF Q
  <2> QED BY <1>5, <1>6, SetInduction
<1>8. ASSUME NEW l \in 0 .. Depth PROVE Keeps(up[l].v, U, up[l].v.tail)
  <2>1. Depth - l \in Nat /\ Depth - l <= Depth /\ Depth - (Depth - l) = l
    BY <1>0
  <2> QED BY <1>7, <2>1
<1>9. Depth \in 0 .. Depth
  BY <1>0
<1>10. U.tail = V.tail + 2 + Depth /\ Keeps(V, U, V.tail)
  BY <1>4, <1>9
<1>11. \A l \in 0 .. Depth : up[l].v.tail \in Nat /\ V.tail <= up[l].v.tail /\ up[l].v.tail <= U.tail
  <2> HIDE DEF U
  <2> QED BY <1>0, <1>4, <1>10
<1> HIDE DEF U
<1>12. /\ U.tail = V.tail + 2 + Depth
       /\ Keeps(V, U, V.tail)
       /\ \A l \in 0 .. Depth :
            /\ up[l].v.tail \in Nat
            /\ V.tail <= up[l].v.tail /\ up[l].v.tail <= U.tail
            /\ Keeps(V, up[l].v, V.tail)
            /\ Live(up[l].v, up[l].v.tail, up[l].h)
            /\ Keeps(up[l].v, U, up[l].v.tail)
  BY <1>4, <1>8, <1>10, <1>11
<1> QED BY <1>12 DEF U, up

\* The nodes of a new path, as the last vault holds them.
LEMMA PathNodes ==
    ASSUME NEW V, V.tail \in Nat, NEW root, NEW k \in Key, NEW st, Sound(V, V.tail, root)
    PROVE  LET at == Descent(V, root, k)
               up == NewPath(V, k, st, at)
               U  == up[Depth].v
           IN  \A l \in 1 .. Depth :
                 LET e == deref(U, up[l].h)
                     s == Sibling(V, k, at, l - 1)
                 IN  /\ Live(U, U.tail, up[l].h)
                     /\ Sub(V, V.tail, s)
                     /\ e.tag = "MID"
                     /\ Bit(k, l - 1) = 1 => /\ e.left = s /\ e.right = up[l - 1].h
                                             /\ e.hash = NodeHash(entry_hash(V, s, l - 1), deref(U, up[l - 1].h).hash)
                     /\ Bit(k, l - 1) # 1 => /\ e.left = up[l - 1].h /\ e.right = s
                                             /\ e.hash = NodeHash(deref(U, up[l - 1].h).hash, entry_hash(V, s, l - 1))
<1> DEFINE at == Descent(V, root, k)
           up == NewPath(V, k, st, at)
           U  == up[Depth].v
<1>0. Depth \in Nat
  BY SmtAssumption
<1>1. \A l \in 1 .. Depth : up[l] = Copied(V, k, at, l - 1, up[l - 1])
  BY NewPathIs
<1>2. /\ U.tail = V.tail + 2 + Depth
      /\ \A l \in 0 .. Depth :
           /\ up[l].v.tail \in Nat /\ up[l].v.tail <= U.tail
           /\ Live(up[l].v, up[l].v.tail, up[l].h)
           /\ Keeps(up[l].v, U, up[l].v.tail)
  BY NewPathHolds
<1>3. \A l \in 0 .. Depth : NodeOK(V, V.tail, k, l, at[l])
  BY DEF Sound
<1> HIDE DEF at, up, U
<1>4. U.tail \in Nat
  BY <1>0, <1>2
<1>5. ASSUME NEW l \in 0 .. Depth
      PROVE  Live(U, U.tail, up[l].h) /\ deref(U, up[l].h) = deref(up[l].v, up[l].h)
  <2>1. Live(U, up[l].v.tail, up[l].h) /\ deref(U, up[l].h) = deref(up[l].v, up[l].h)
    BY <1>2 DEF Keeps
  <2> QED BY <1>2, <1>4, <2>1, LiveGrows
<1>6. ASSUME NEW l \in 1 .. Depth
      PROVE  LET e == deref(U, up[l].h)
                 s == Sibling(V, k, at, l - 1)
             IN  /\ Live(U, U.tail, up[l].h)
                 /\ Sub(V, V.tail, s)
                 /\ e.tag = "MID"
                 /\ Bit(k, l - 1) = 1 => /\ e.left = s /\ e.right = up[l - 1].h
                                         /\ e.hash = NodeHash(entry_hash(V, s, l - 1), deref(U, up[l - 1].h).hash)
                 /\ Bit(k, l - 1) # 1 => /\ e.left = up[l - 1].h /\ e.right = s
                                         /\ e.hash = NodeHash(deref(U, up[l - 1].h).hash, entry_hash(V, s, l - 1))
  <2> DEFINE m == l - 1
             c == up[m]
             d == up[l]
             s == Sibling(V, k, at, m)
             e == deref(d.v, d.h)
  <2>1. l \in 0 .. Depth /\ m \in 0 .. Depth /\ m + 1 = l /\ l # 0
    BY <1>0
  <2>2. d = Copied(V, k, at, m, c) /\ c.v.tail \in Nat
    BY <1>1, <1>2, <2>1
  <2>3. deref(U, d.h) = e /\ Live(U, U.tail, d.h)
    BY <1>5, <2>1
  <2>4. deref(U, c.h) = deref(c.v, c.h)
    BY <1>5, <2>1
  <2>5. Sub(V, V.tail, s)
    <3>1. NodeOK(V, V.tail, k, l, at[m + 1])
      BY <1>3, <2>1
    <3>2. CASE at[m + 1] = NoHandle
      <4>1. s = NoHandle
        BY <3>2 DEF Sibling
      <4> QED BY <4>1 DEF Sub
    <3>3. CASE at[m + 1] # NoHandle
      <4>1. MidOK(V, V.tail, l, at[m + 1])
        BY <2>1, <3>1, <3>3 DEF NodeOK
      <4> QED BY <3>3, <4>1 DEF MidOK, Sibling
    <3> QED BY <3>2, <3>3
  <2> HIDE DEF c, m, s, e
  <2>6. /\ e.tag = "MID"
        /\ Bit(k, m) = 1 => /\ e.left = s /\ e.right = c.h
                            /\ e.hash = NodeHash(entry_hash(V, s, m), deref(c.v, c.h).hash)
        /\ Bit(k, m) # 1 => /\ e.left = c.h /\ e.right = s
                            /\ e.hash = NodeHash(deref(c.v, c.h).hash, entry_hash(V, s, m))
    BY <2>2, CopiedIs DEF e, s
  <2> HIDE DEF d
  <2>7. LET f == deref(U, d.h)
        IN  /\ Live(U, U.tail, d.h)
            /\ Sub(V, V.tail, s)
            /\ f.tag = "MID"
            /\ Bit(k, m) = 1 => /\ f.left = s /\ f.right = c.h
                                /\ f.hash = NodeHash(entry_hash(V, s, m), deref(U, c.h).hash)
            /\ Bit(k, m) # 1 => /\ f.left = c.h /\ f.right = s
                                /\ f.hash = NodeHash(deref(U, c.h).hash, entry_hash(V, s, m))
    BY <2>3, <2>4, <2>5, <2>6
  <2> QED BY <2>7 DEF c, m, s, d
<1> QED BY <1>6 DEF at, up, U

\* The descent of any key in the updated tree: the new path as long as the
\* keys are together, the old nodes from where they part.
LEMMA NewDescent ==
    ASSUME NEW V, V.tail \in Nat, NEW root, NEW k \in Key, NEW j \in Key, NEW st, Sound(V, V.tail, root)
    PROVE  LET at == Descent(V, root, k)
               up == NewPath(V, k, st, at)
               a  == Descent(V, root, j)
               b  == Descent(up[Depth].v, up[Depth].h, j)
           IN  \A l \in 0 .. Depth :
                 /\ Together(k, j, l)  => a[l] = at[l] /\ b[l] = up[l].h
                 /\ ~Together(k, j, l) => b[l] = a[l]
<1> DEFINE at == Descent(V, root, k)
           up == NewPath(V, k, st, at)
           U  == up[Depth].v
           a  == Descent(V, root, j)
           b  == Descent(U, up[Depth].h, j)
           Here(l) == /\ Together(k, j, l)  => a[l] = at[l] /\ b[l] = up[l].h
                      /\ ~Together(k, j, l) => b[l] = a[l]
           P  == {n \in Nat : n <= Depth => Here(Depth - n)}
<1>0. Depth \in Nat
  BY SmtAssumption
<1>1. /\ at[Depth] = root
      /\ \A l \in 0 .. Depth : l # Depth => at[l] = Child(V, k, l, at[l + 1])
  BY DescentIs
<1>2. /\ a[Depth] = root
      /\ \A l \in 0 .. Depth : l # Depth => a[l] = Child(V, j, l, a[l + 1])
  BY DescentIs
<1>3. /\ b[Depth] = up[Depth].h
      /\ \A l \in 0 .. Depth : l # Depth => b[l] = Child(U, j, l, b[l + 1])
  BY DescentIs
<1>4. Keeps(V, U, V.tail)
  BY NewPathHolds
<1>5. \A l \in 1 .. Depth :
        LET e == deref(U, up[l].h)
            s == Sibling(V, k, at, l - 1)
        IN  /\ Live(U, U.tail, up[l].h)
            /\ e.tag = "MID"
            /\ Bit(k, l - 1) = 1 => e.left = s /\ e.right = up[l - 1].h
            /\ Bit(k, l - 1) # 1 => e.left = up[l - 1].h /\ e.right = s
  BY PathNodes
<1>6. \A l \in 0 .. Depth : NodeOK(V, V.tail, j, l, a[l])
  BY DEF Sound
<1> HIDE DEF at, up, U, a, b
<1>7. 0 \in P
  <2>1. Together(k, j, Depth) /\ Depth - 0 = Depth
    BY <1>0 DEF Together
  <2> QED BY <1>1, <1>2, <1>3, <2>1
<1>8. ASSUME NEW n \in Nat, n \in P PROVE n + 1 \in P
  <2> SUFFICES ASSUME n + 1 <= Depth PROVE Here(Depth - (n + 1))
    OBVIOUS
  <2> DEFINE l == Depth - (n + 1)
             m == l + 1
  <2>1. /\ l \in 0 .. Depth /\ l # Depth /\ m \in 1 .. Depth /\ m \in 0 .. Depth /\ m # 0
        /\ m - 1 = l /\ m = Depth - n /\ n <= Depth
    BY <1>0
  <2>2. Here(m)
    BY <1>8, <2>1
  <2>3. Together(k, j, l) <=> (Together(k, j, m) /\ (Bit(k, l) = 1 <=> Bit(j, l) = 1))
    <3>1. l .. Depth - 1 = {l} \cup (m .. Depth - 1)
      BY <1>0
    <3> HIDE DEF l, m
    <3> QED BY <3>1 DEF Together
  <2>4. /\ at[l] = Child(V, k, l, at[m]) /\ a[l] = Child(V, j, l, a[m])
        /\ b[l] = Child(U, j, l, b[m])
    BY <1>1, <1>2, <1>3, <2>1
  <2>5. NodeOK(V, V.tail, j, m, a[m])
    BY <1>6, <2>1
  <2>6. a[m] # NoHandle => Live(V, V.tail, a[m]) /\ deref(V, a[m]).tag = "MID"
    BY <2>1, <2>5 DEF NodeOK, MidOK
  <2>7. LET e == deref(U, up[m].h)
            s == Sibling(V, k, at, l)
        IN  /\ up[m].h # NoHandle
            /\ e.tag = "MID"
            /\ Bit(k, l) = 1 => e.left = s /\ e.right = up[l].h
            /\ Bit(k, l) # 1 => e.left = up[l].h /\ e.right = s
    BY <1>5, <2>1 DEF Live
  <2>s. Sibling(V, k, at, l) = LET h == at[m] IN IF h = NoHandle THEN NoHandle
                               ELSE IF Bit(k, l) = 1 THEN deref(V, h).left ELSE deref(V, h).right
    BY DEF Sibling
  <2> HIDE DEF l, m
  <2>8. CASE ~Together(k, j, m)
    <3>1. b[m] = a[m] /\ ~Together(k, j, l)
      BY <2>2, <2>3, <2>8
    <3>2. a[m] # NoHandle => deref(U, a[m]) = deref(V, a[m])
      BY <1>4, <2>6 DEF Keeps
    <3>3. b[l] = a[l]
      BY <2>4, <3>1, <3>2 DEF Child
    <3> QED BY <3>1, <3>3 DEF l
  <2>9. CASE Together(k, j, m)
    <3>1. a[m] = at[m] /\ b[m] = up[m].h
      BY <2>2, <2>9
    <3>2. b[l] = IF Bit(j, l) = 1 THEN deref(U, up[m].h).right ELSE deref(U, up[m].h).left
      BY <2>4, <2>7, <3>1 DEF Child
    <3>3. CASE Bit(k, l) = 1 <=> Bit(j, l) = 1
      <4>1. b[l] = up[l].h
        BY <2>7, <3>2, <3>3
      <4>2. a[l] = at[l]
        BY <2>4, <3>1, <3>3 DEF Child
      <4>3. Together(k, j, l)
        BY <2>3, <2>9, <3>3
      <4> QED BY <4>1, <4>2, <4>3 DEF l
    <3>4. CASE ~(Bit(k, l) = 1 <=> Bit(j, l) = 1)
      <4>1. b[l] = Sibling(V, k, at, l)
        BY <2>7, <3>2, <3>4
      <4>2. a[l] = Sibling(V, k, at, l)
        BY <2>4, <2>6, <2>s, <3>1, <3>4 DEF Child
      <4>3. ~Together(k, j, l)
        BY <2>3, <3>4
      <4> QED BY <4>1, <4>2, <4>3 DEF l
    <3> QED BY <3>3, <3>4
  <2> QED BY <2>8, <2>9
<1>9. \A n \in Nat : n \in P
  <2> HIDE DEF P
  <2> QED BY <1>7, <1>8, SetInduction
<1>10. ASSUME NEW l \in 0 .. Depth PROVE Here(l)
  <2>1. Depth - l \in Nat /\ Depth - l <= Depth /\ Depth - (Depth - l) = l
    BY <1>0
  <2> HIDE DEF Here
  <2> QED BY <1>9, <2>1
<1> QED BY <1>10 DEF at, up, U, a, b

---------------------------------------------------------------------------
(* What the tree does.                                                     *)

\* Keys of one position have one leaf.
LEMMA TogetherDescent ==
    ASSUME NEW V, NEW root, NEW k, NEW j, Together(k, j, 0)
    PROVE  Descent(V, root, k)[0] = Descent(V, root, j)[0]
<1> DEFINE a == Descent(V, root, k)
           b == Descent(V, root, j)
           P == {n \in Nat : n <= Depth => a[Depth - n] = b[Depth - n]}
<1>0. Depth \in Nat
  BY SmtAssumption
<1>1. /\ a[Depth] = root /\ b[Depth] = root
      /\ \A l \in 0 .. Depth : l # Depth => a[l] = Child(V, k, l, a[l + 1])
      /\ \A l \in 0 .. Depth : l # Depth => b[l] = Child(V, j, l, b[l + 1])
  BY DescentIs
<1> HIDE DEF a, b
<1>2. 0 \in P
  BY <1>0, <1>1
<1>3. ASSUME NEW n \in Nat, n \in P PROVE n + 1 \in P
  <2> SUFFICES ASSUME n + 1 <= Depth PROVE a[Depth - (n + 1)] = b[Depth - (n + 1)]
    OBVIOUS
  <2> DEFINE l == Depth - (n + 1)
  <2>1. l \in 0 .. Depth /\ l # Depth /\ l \in 0 .. Depth - 1 /\ l + 1 = Depth - n /\ n <= Depth
    BY <1>0
  <2>2. a[l + 1] = b[l + 1]
    BY <1>3, <2>1
  <2> HIDE DEF l
  <2>3. a[l] = Child(V, k, l, a[l + 1]) /\ b[l] = Child(V, j, l, a[l + 1])
    BY <1>1, <2>1, <2>2
  <2>4. Bit(k, l) = 1 <=> Bit(j, l) = 1
    BY <2>1 DEF Together
  <2>5. a[l] = b[l]
    BY <2>3, <2>4 DEF Child
  <2> QED BY <2>5 DEF l
<1>4. \A n \in Nat : n \in P
  <2> HIDE DEF P
  <2> QED BY <1>2, <1>3, SetInduction
<1>5. Depth - Depth = 0
  BY <1>0
<1> QED BY <1>0, <1>4, <1>5 DEF a, b

\* The lookup of a key, given its leaf.
LEMMA LookupIs ==
    ASSUME NEW V, NEW root, NEW k, NEW h, Descent(V, root, k)[0] = h
    PROVE  /\ h = NoHandle => lookup_account(V, root, k) = NoAccount
           /\ h # NoHandle => LET r == deref(V, deref(V, h).rec)
                              IN  lookup_account(V, root, k) = IF r.key = k THEN r.st ELSE NoAccount
BY DEF lookup_account

\* Copying a path keeps the tree sound and changes one key.
LEMMA NewPathWrites ==
    ASSUME NEW V, V.tail \in Nat, NEW root, NEW k \in Key, NEW st, Sound(V, V.tail, root),
           encodable(st), ~st.absent,
           LET h == Descent(V, root, k)[0] IN h # NoHandle => deref(V, deref(V, h).rec).key = k
    PROVE  LET top == NewPath(V, k, st, Descent(V, root, k))[Depth]
           IN  /\ Sound(top.v, top.v.tail, top.h)
               /\ \A j \in Key : lookup_account(top.v, top.h, j) =
                                     IF j = k THEN st ELSE lookup_account(V, root, j)
<1> DEFINE at == Descent(V, root, k)
           up == NewPath(V, k, st, at)
           U  == up[Depth].v
           T  == V.tail
<1>0. Depth \in Nat /\ 0 \in 0 .. Depth
  BY SmtAssumption
<1>1. /\ U.tail = T + 2 + Depth
      /\ Keeps(V, U, T)
      /\ \A l \in 0 .. Depth :
           /\ up[l].v.tail \in Nat /\ up[l].v.tail <= U.tail
           /\ Live(up[l].v, up[l].v.tail, up[l].h)
           /\ Keeps(up[l].v, U, up[l].v.tail)
  BY NewPathHolds
<1>2. \A l \in 1 .. Depth :
        LET e == deref(U, up[l].h)
            s == Sibling(V, k, at, l - 1)
        IN  /\ Live(U, U.tail, up[l].h)
            /\ Sub(V, T, s)
            /\ e.tag = "MID"
            /\ Bit(k, l - 1) = 1 => /\ e.left = s /\ e.right = up[l - 1].h
                                    /\ e.hash = NodeHash(entry_hash(V, s, l - 1), deref(U, up[l - 1].h).hash)
            /\ Bit(k, l - 1) # 1 => /\ e.left = up[l - 1].h /\ e.right = s
                                    /\ e.hash = NodeHash(deref(U, up[l - 1].h).hash, entry_hash(V, s, l - 1))
  BY PathNodes
<1>3. up[0] = NewLeaf(V, k, st)
  BY NewPathIs
<1>4. U.tail \in Nat /\ T <= U.tail
  <2> HIDE DEF U, up, at
  <2> QED BY <1>0, <1>1
<1> DEFINE Desc(j) == LET a == Descent(V, root, j)
                          b == Descent(U, up[Depth].h, j)
                      IN  \A l \in 0 .. Depth :
                            /\ Together(k, j, l)  => a[l] = at[l] /\ b[l] = up[l].h
                            /\ ~Together(k, j, l) => b[l] = a[l]
<1>5. ASSUME NEW j \in Key PROVE Desc(j)
  BY NewDescent
<1>6. LET e == deref(U, up[0].h)
      IN  /\ e.tag = "TLEAF" /\ e.hash = LeafHash(k, st) /\ Live(U, U.tail, e.rec)
          /\ deref(U, e.rec).key = k /\ deref(U, e.rec).st = st
  <2> DEFINE c == up[0]
             e == deref(c.v, c.h)
  <2>1. /\ e.tag = "TLEAF" /\ e.hash = LeafHash(k, st) /\ Live(c.v, c.v.tail, e.rec)
        /\ deref(c.v, e.rec).key = k /\ deref(c.v, e.rec).st = st
    BY <1>3, NewLeafIs
  <2>2. c.v.tail \in Nat /\ c.v.tail <= U.tail /\ Live(c.v, c.v.tail, c.h) /\ Keeps(c.v, U, c.v.tail)
    BY <1>0, <1>1
  <2> HIDE DEF c, U
  <2>3. deref(U, c.h) = e /\ deref(U, e.rec) = deref(c.v, e.rec) /\ Live(U, c.v.tail, e.rec)
    BY <2>1, <2>2 DEF Keeps
  <2>4. Live(U, U.tail, e.rec)
    BY <1>4, <2>2, <2>3, LiveGrows
  <2> HIDE DEF e
  <2> QED BY <2>1, <2>3, <2>4 DEF c
<1>7. ASSUME NEW l \in 0 .. Depth PROVE Live(U, U.tail, up[l].h)
  <2>1. Live(U, up[l].v.tail, up[l].h)
    BY <1>1 DEF Keeps
  <2> QED BY <1>1, <1>4, <2>1, LiveGrows
<1>h. at[0] # NoHandle => deref(V, deref(V, at[0]).rec).key = k
  OBVIOUS
<1>i. \A j \in Key, l \in 0 .. Depth : NodeOK(V, T, j, l, Descent(V, root, j)[l])
  BY DEF Sound
<1>v. T \in Nat
  OBVIOUS
<1> DEFINE R == up[Depth].h
<1> HIDE DEF at, up, U, T, R, Desc
<1>8. ASSUME NEW j \in Key, NEW l \in 0 .. Depth, Together(k, j, l) PROVE NodeOK(U, U.tail, j, l, up[l].h)
  <2>1. up[l].h # NoHandle /\ Live(U, U.tail, up[l].h)
    BY <1>7 DEF Live
  <2>2. CASE l = 0
    <3>3. LeafOK(U, U.tail, j, up[0].h)
      <4>1. Together(j, k, 0)
        BY <1>8, <2>2 DEF Together
      <4> QED BY <1>6, <4>1 DEF LeafOK
    <3> QED BY <2>1, <2>2, <3>3 DEF NodeOK
  <2>3. CASE l # 0
    <3> DEFINE m == l - 1
               e == deref(U, up[l].h)
               s == Sibling(V, k, at, m)
    <3>1. l \in 1 .. Depth /\ m \in 0 .. Depth
      BY <1>0, <2>3
    <3>2. /\ Sub(V, T, s) /\ e.tag = "MID"
          /\ Bit(k, m) = 1 => /\ e.left = s /\ e.right = up[m].h
                              /\ e.hash = NodeHash(entry_hash(V, s, m), deref(U, up[m].h).hash)
          /\ Bit(k, m) # 1 => /\ e.left = up[m].h /\ e.right = s
                              /\ e.hash = NodeHash(deref(U, up[m].h).hash, entry_hash(V, s, m))
      BY <1>2, <3>1
    <3>3. Live(U, U.tail, up[m].h)
      BY <1>7, <3>1
    <3> HIDE DEF s, e, m
    <3>4. Sub(U, U.tail, s) /\ entry_hash(U, s, m) = entry_hash(V, s, m)
      BY <1>1, <1>4, <1>v, <3>2, SubFrame
    <3>5. entry_hash(U, up[m].h, m) = deref(U, up[m].h).hash /\ Sub(U, U.tail, up[m].h)
      BY <3>3 DEF entry_hash, Live, Sub
    <3>6. /\ e.tag = "MID" /\ Sub(U, U.tail, e.left) /\ Sub(U, U.tail, e.right)
          /\ e.hash = NodeHash(entry_hash(U, e.left, m), entry_hash(U, e.right, m))
      <4>1. CASE Bit(k, m) = 1
        BY <3>2, <3>4, <3>5, <4>1
      <4>2. CASE Bit(k, m) # 1
        BY <3>2, <3>4, <3>5, <4>2
      <4> QED BY <4>1, <4>2
    <3>7. MidOK(U, U.tail, l, up[l].h)
      BY <3>6 DEF MidOK, e, m
    <3> QED BY <2>1, <2>3, <3>7 DEF NodeOK
  <2> QED BY <2>2, <2>3
<1>9. Sound(U, U.tail, R)
  <2> SUFFICES ASSUME NEW j \in Key, NEW l \in 0 .. Depth
               PROVE  NodeOK(U, U.tail, j, l, Descent(U, R, j)[l])
    BY DEF Sound
  <2>1. CASE Together(k, j, l)
    BY <1>5, <1>8, <2>1 DEF Desc, R
  <2>2. CASE ~Together(k, j, l)
    <3>1. Descent(U, R, j)[l] = Descent(V, root, j)[l]
      BY <1>5, <2>2 DEF Desc, R
    <3>2. NodeOK(V, T, j, l, Descent(V, root, j)[l])
      BY <1>i
    <3>3. NodeOK(U, U.tail, j, l, Descent(V, root, j)[l])
      BY <1>1, <1>4, <1>v, <3>2, NodeFrame
    <3> QED BY <3>1, <3>3
  <2> QED BY <2>1, <2>2
<1>10. ASSUME NEW j \in Key
       PROVE  lookup_account(U, R, j) = IF j = k THEN st ELSE lookup_account(V, root, j)
  <2> DEFINE x == Descent(V, root, j)[0]
             y == Descent(U, R, j)[0]
  <2>a. /\ x = NoHandle => lookup_account(V, root, j) = NoAccount
        /\ x # NoHandle => LET r == deref(V, deref(V, x).rec)
                           IN  lookup_account(V, root, j) = IF r.key = j THEN r.st ELSE NoAccount
    BY LookupIs
  <2>b. /\ y = NoHandle => lookup_account(U, R, j) = NoAccount
        /\ y # NoHandle => LET r == deref(U, deref(U, y).rec)
                           IN  lookup_account(U, R, j) = IF r.key = j THEN r.st ELSE NoAccount
    BY LookupIs
  <2>c. /\ Together(k, j, 0)  => x = at[0] /\ y = up[0].h
        /\ ~Together(k, j, 0) => y = x
    BY <1>0, <1>5 DEF Desc, R
  <2>d. NodeOK(V, T, j, 0, x)
    BY <1>0, <1>i
  <2> HIDE DEF x, y
  <2>1. CASE Together(k, j, 0)
    <3>3. y = up[0].h /\ y # NoHandle /\ x = at[0]
      BY <1>0, <1>7, <2>1, <2>c DEF Live
    <3>4. lookup_account(U, R, j) = IF k = j THEN st ELSE NoAccount
      BY <1>6, <2>b, <3>3
    <3>5. j # k => lookup_account(V, root, j) = NoAccount
      BY <1>h, <2>a, <3>3
    <3> QED BY <3>4, <3>5
  <2>2. CASE ~Together(k, j, 0)
    <3>1. j # k
      BY <2>2 DEF Together
    <3>2. y = x
      BY <2>2, <2>c
    <3>3. CASE x = NoHandle
      BY <2>a, <2>b, <3>1, <3>2, <3>3
    <3>4. CASE x # NoHandle
      <4>1. Live(V, T, x) /\ Live(V, T, deref(V, x).rec)
        BY <2>d, <3>4 DEF NodeOK, LeafOK
      <4>2. deref(U, x) = deref(V, x) /\ deref(U, deref(V, x).rec) = deref(V, deref(V, x).rec)
        BY <1>1, <4>1 DEF Keeps
      <4> QED BY <2>a, <2>b, <3>1, <3>2, <3>4, <4>2
    <3> QED BY <3>3, <3>4
  <2> QED BY <2>1, <2>2
<1> QED BY <1>9, <1>10 DEF R, U, up, at

\* The number of segments stays one.
LEMMA PathSegments ==
    ASSUME NEW V, V.nseg \in Nat, NEW k, NEW st, NEW at
    PROVE  NewPath(V, k, st, at)[Depth].v.nseg \in Nat
<1> DEFINE up == NewPath(V, k, st, at)
           P  == {n \in Nat : n <= Depth => up[n].v.nseg \in Nat}
<1>0. Depth \in Nat
  BY SmtAssumption
<1>1. \A W, e : W.nseg \in Nat => alloc(W, e).v.nseg \in Nat
  BY DEF alloc
<1>2. up[0] = NewLeaf(V, k, st) /\ \A l \in 1 .. Depth : up[l] = Copied(V, k, at, l - 1, up[l - 1])
  BY NewPathIs
<1> HIDE DEF up
<1>3. 0 \in P
  BY <1>1, <1>2 DEF NewLeaf
<1>4. ASSUME NEW n \in Nat, n \in P PROVE n + 1 \in P
  <2> SUFFICES ASSUME n + 1 <= Depth PROVE up[n + 1].v.nseg \in Nat
    OBVIOUS
  <2>1. up[n].v.nseg \in Nat
    BY <1>0, <1>4
  <2>2. n + 1 \in 1 .. Depth /\ (n + 1) - 1 = n
    BY <1>0
  <2>3. up[n + 1] = Copied(V, k, at, n, up[n])
    BY <1>2, <2>2
  <2> QED BY <1>1, <2>1, <2>3 DEF Copied
<1>5. \A n \in Nat : n \in P
  <2> HIDE DEF P
  <2> QED BY <1>3, <1>4, SetInduction
<1> QED BY <1>0, <1>5 DEF up

\* set_account writes the map: it leaves every slot below the old tail as
\* it was, so every older root keeps its meaning; it either writes exactly
\* the key asked for, or finds the key's position taken by another account,
\* changes nothing, and the key had none.
THEOREM SetAccountWrites ==
    ASSUME NEW V, V.tail \in Nat, V.nseg \in Nat, NEW root, Sound(V, V.tail, root),
           NEW k \in Key, NEW st, encodable(st), ~st.absent
    PROVE  LET x == set_account(V, root, k, st)
           IN  /\ x.v.tail \in Nat /\ V.tail <= x.v.tail /\ x.v.nseg \in Nat
               /\ Keeps(V, x.v, V.tail)
               /\ Sound(x.v, x.v.tail, x.root)
               /\ x.res = "fault" => /\ x.v = V /\ x.root = root
                                     /\ lookup_account(V, root, k) = NoAccount
               /\ x.res # "fault" => \A j \in Key : lookup_account(x.v, x.root, j) =
                                                       IF j = k THEN st ELSE lookup_account(V, root, j)
<1> DEFINE x    == set_account(V, root, k, st)
           at   == Descent(V, root, k)
           leaf == at[0]
           held == deref(V, deref(V, leaf).rec)
           top  == NewPath(V, k, st, at)[Depth]
<1>1. x = IF leaf # NoHandle /\ held.key # k THEN [v |-> V, root |-> root, res |-> "fault"]
          ELSE IF leaf # NoHandle /\ held.st = st THEN [v |-> V, root |-> root, res |-> "noop"]
          ELSE [v |-> top.v, root |-> top.h, res |-> "set"]
  BY DEF set_account
<1>2. /\ leaf = NoHandle => lookup_account(V, root, k) = NoAccount
      /\ leaf # NoHandle => lookup_account(V, root, k) = IF held.key = k THEN held.st ELSE NoAccount
  BY LookupIs
<1>3. Keeps(V, V, V.tail)
  BY DEF Keeps
<1>4. ASSUME leaf = NoHandle \/ held.key = k
      PROVE  /\ top.v.tail \in Nat /\ V.tail <= top.v.tail /\ top.v.nseg \in Nat
             /\ Keeps(V, top.v, V.tail)
             /\ Sound(top.v, top.v.tail, top.h)
             /\ \A j \in Key : lookup_account(top.v, top.h, j) =
                                   IF j = k THEN st ELSE lookup_account(V, root, j)
  <2>1. top.v.tail = V.tail + 2 + Depth /\ Keeps(V, top.v, V.tail)
    BY NewPathHolds
  <2>2. top.v.nseg \in Nat
    BY PathSegments
  <2>3. /\ Sound(top.v, top.v.tail, top.h)
        /\ \A j \in Key : lookup_account(top.v, top.h, j) =
                              IF j = k THEN st ELSE lookup_account(V, root, j)
    BY <1>4, NewPathWrites
  <2> HIDE DEF top
  <2>4. top.v.tail \in Nat /\ V.tail <= top.v.tail
    BY <2>1, SmtAssumption
  <2> QED BY <2>1, <2>2, <2>3, <2>4
<1> HIDE DEF x, leaf, held, top
<1>5. CASE leaf # NoHandle /\ held.key # k
  <2>1. x.v = V /\ x.root = root /\ x.res = "fault"
    BY <1>1, <1>5
  <2> QED BY <1>2, <1>3, <1>5, <2>1 DEF x
<1>6. CASE ~(leaf # NoHandle /\ held.key # k) /\ leaf # NoHandle /\ held.st = st
  <2>1. x.v = V /\ x.root = root /\ x.res = "noop"
    BY <1>1, <1>6
  <2>2. lookup_account(V, root, k) = st
    BY <1>2, <1>6
  <2> QED BY <1>3, <2>1, <2>2 DEF x
<1>7. CASE ~(leaf # NoHandle /\ held.key # k) /\ ~(leaf # NoHandle /\ held.st = st)
  <2>1. x = [v |-> top.v, root |-> top.h, res |-> "set"]
    BY <1>1, <1>7
  <2>2. x.v = top.v /\ x.root = top.h /\ x.res = "set"
    BY <2>1
  <2> QED BY <1>4, <1>7, <2>2 DEF x
<1> QED BY <1>5, <1>6, <1>7

\* set_account faults only where another key of the same leaf position has
\* an account.
LEMMA FaultIsCollision ==
    ASSUME NEW V, NEW T, NEW root, Sound(V, T, root), NEW k \in Key, NEW st, encodable(st),
           set_account(V, root, k, st).res = "fault"
    PROVE  \E j \in Key \ {k} : Together(k, j, 0) /\ ~lookup_account(V, root, j).absent
<1> DEFINE at   == Descent(V, root, k)
           leaf == at[0]
           held == deref(V, deref(V, leaf).rec)
           j    == held.key
<1>1. leaf # NoHandle /\ held.key # k
  BY DEF set_account
<1> HIDE DEF leaf, held
<1>2. j \in Key /\ Together(k, j, 0) /\ ~held.st.absent
  <2>1. 0 \in 0 .. Depth
    BY SmtAssumption
  <2>2. LeafOK(V, T, k, leaf)
    BY <1>1, <2>1 DEF Sound, NodeOK, leaf
  <2> QED BY <2>2 DEF LeafOK, held
<1>3. Descent(V, root, j)[0] = leaf
  BY <1>2, TogetherDescent DEF leaf
<1>4. lookup_account(V, root, j) = held.st
  BY <1>1, <1>3, LookupIs DEF held
<1> QED BY <1>1, <1>2, <1>4

\* Openings decide: the opening of a key against the hash of a sound tree's
\* root verifies for the account the tree holds, for no other account and no
\* key the tree does not hold; a claim of absence (NoAccount) never verifies,
\* since the opening of an empty position carries no leaf hash.
THEOREM OpeningsOfSoundTree ==
    ASSUME NEW V, NEW T, NEW root, Sound(V, T, root), NEW k \in Key, NEW st
    PROVE  LET a == lookup_account(V, root, k)
           IN  verify_opening(entry_hash(V, root, Depth), k, st, open(V, root, k))
                   <=> (~a.absent /\ st = a)
<1> DEFINE at  == Descent(V, root, k)
           h   == at[0]
           pr  == open(V, root, k)
           a   == lookup_account(V, root, k)
           e   == deref(V, h)
           r   == deref(V, e.rec)
           sib == [l \in 0 .. Depth - 1 |-> entry_hash(V, Sibling(V, k, at, l), l)]
           leaf == IF h = NoHandle THEN NoHash ELSE e.hash
           up  == Climb(k, leaf, sib)
           Sees == verify_opening(entry_hash(V, root, Depth), k, st, pr)
<1>0. Depth \in Nat /\ 0 \in 0 .. Depth
  BY SmtAssumption
<1>1. pr = [occupied |-> h # NoHandle, leaf_hash |-> leaf, sib |-> sib]
  BY DEF open
<1>2. pr.occupied = (h # NoHandle) /\ pr.leaf_hash = leaf /\ pr.sib = sib
  BY <1>1
<1>3. Sees <=> /\ pr.occupied = (st # NoAccount)
               /\ st # NoAccount => encodable(st) /\ pr.leaf_hash = LeafHash(k, st)
               /\ Climb(k, pr.leaf_hash, pr.sib)[Depth] = entry_hash(V, root, Depth)
  BY DEF verify_opening
<1>4. /\ h = NoHandle => a = NoAccount
      /\ h # NoHandle => a = IF r.key = k THEN r.st ELSE NoAccount
  BY LookupIs
<1>5. h # NoHandle => encodable(r.st) /\ ~r.st.absent /\ e.hash = LeafHash(r.key, r.st)
  BY <1>0 DEF Sound, NodeOK, LeafOK
<1>6. \A l \in 0 .. Depth : NodeOK(V, T, k, l, at[l])
  BY DEF Sound
<1>7. /\ at[Depth] = root
      /\ \A l \in 0 .. Depth : l # Depth => at[l] = Child(V, k, l, at[l + 1])
  BY DescentIs
<1>8. \A l \in 1 .. Depth : sib[l - 1] = entry_hash(V, Sibling(V, k, at, l - 1), l - 1)
  BY <1>0
<1> HIDE DEF sib
<1> HIDE DEF leaf
<1>9. /\ up[0] = leaf
      /\ \A l \in 1 .. Depth : up[l] = IF Bit(k, l - 1) = 1 THEN NodeHash(sib[l - 1], up[l - 1])
                                       ELSE NodeHash(up[l - 1], sib[l - 1])
  BY ClimbIs
<1>n. NoAccount.absent
  BY DEF NoAccount
<1>u. Climb(k, pr.leaf_hash, pr.sib) = up
  BY <1>2
<1> HIDE DEF at, sib, up, pr, a, e, r, Sees
<1>10. ASSUME h # NoHandle
       PROVE  up[Depth] = entry_hash(V, root, Depth)
  <2> DEFINE P == {n \in Nat : n <= Depth => at[n] # NoHandle /\ up[n] = deref(V, at[n]).hash}
  <2>1. 0 \in P
    BY <1>9, <1>10 DEF e, leaf
  <2>2. ASSUME NEW n \in Nat, n \in P PROVE n + 1 \in P
    <3> SUFFICES ASSUME n + 1 <= Depth
                 PROVE  at[n + 1] # NoHandle /\ up[n + 1] = deref(V, at[n + 1]).hash
      OBVIOUS
    <3>1. at[n] # NoHandle /\ up[n] = deref(V, at[n]).hash
      BY <1>0, <2>2
    <3> DEFINE g == at[n + 1]
               f == deref(V, g)
               s == Sibling(V, k, at, n)
    <3>2. /\ n \in 0 .. Depth /\ n # Depth /\ n + 1 \in 1 .. Depth /\ n + 1 \in 0 .. Depth
          /\ n + 1 # 0 /\ (n + 1) - 1 = n
      BY <1>0
    <3>3. at[n] = Child(V, k, n, g)
      BY <1>7, <3>2
    <3>4. up[n + 1] = IF Bit(k, n) = 1 THEN NodeHash(sib[n], up[n]) ELSE NodeHash(up[n], sib[n])
      BY <1>9, <3>2
    <3>5. sib[n] = entry_hash(V, s, n)
      BY <1>8, <3>2
    <3>6. NodeOK(V, T, k, n + 1, g)
      BY <1>6, <3>2
    <3>7. g # NoHandle
      BY <3>1, <3>3 DEF Child
    <3>8. s = IF Bit(k, n) = 1 THEN f.left ELSE f.right
      BY <3>7 DEF Sibling
    <3>9. MidOK(V, T, n + 1, g)
      BY <3>2, <3>6, <3>7 DEF NodeOK
    <3>10. f.tag = "MID" /\ f.hash = NodeHash(entry_hash(V, f.left, n), entry_hash(V, f.right, n))
      BY <3>2, <3>9 DEF MidOK
    <3>11. at[n] = IF Bit(k, n) = 1 THEN f.right ELSE f.left
      BY <3>3, <3>7, <3>10 DEF Child
    <3>12. up[n] = entry_hash(V, at[n], n)
      BY <3>1 DEF entry_hash
    <3> HIDE DEF f, s
    <3>13. up[n + 1] = f.hash
      BY <3>4, <3>5, <3>8, <3>10, <3>11, <3>12
    <3> QED BY <3>7, <3>13 DEF f
  <2>3. \A n \in Nat : n \in P
    <3> HIDE DEF P
    <3> QED BY <2>1, <2>2, SetInduction
  <2>4. at[Depth] # NoHandle /\ up[Depth] = deref(V, at[Depth]).hash
    BY <1>0, <2>3
  <2> QED BY <1>7, <2>4 DEF entry_hash
<1>11. \A j, t : LeafHash(j, t) = LeafHash(k, st) => j = k /\ t = st
  BY DEF LeafHash
<1>12. ASSUME h = NoHandle PROVE up[Depth] # entry_hash(V, root, Depth)
  <2> DEFINE P == {n \in Nat : n <= Depth => up[n] # entry_hash(V, at[n], n)}
  <2>0. \A x, y, z, w : NodeHash(x, y) = NodeHash(z, w) => x = z /\ y = w
    BY DEF NodeHash
  <2>1. 0 \in P
    <3>1. NoHash # <<"leaf", 0, 0>>
      BY DEF NoHash
    <3> QED BY <1>9, <1>12, <3>1, EmptyTableIs DEF leaf, entry_hash
  <2>2. ASSUME NEW n \in Nat, n \in P PROVE n + 1 \in P
    <3> SUFFICES ASSUME n + 1 <= Depth PROVE up[n + 1] # entry_hash(V, at[n + 1], n + 1)
      OBVIOUS
    <3>1. up[n] # entry_hash(V, at[n], n)
      BY <1>0, <2>2
    <3> DEFINE g == at[n + 1]
               f == deref(V, g)
               s == Sibling(V, k, at, n)
    <3>2. /\ n \in 0 .. Depth /\ n # Depth /\ n + 1 \in 1 .. Depth /\ n + 1 \in 0 .. Depth
          /\ n + 1 # 0 /\ (n + 1) - 1 = n
      BY <1>0
    <3>3. at[n] = Child(V, k, n, g)
      BY <1>7, <3>2
    <3>4. up[n + 1] = IF Bit(k, n) = 1 THEN NodeHash(sib[n], up[n]) ELSE NodeHash(up[n], sib[n])
      BY <1>9, <3>2
    <3>5. CASE g = NoHandle
      <4>1. at[n] = NoHandle
        BY <3>3, <3>5 DEF Child
      <4>2. entry_hash(V, g, n + 1) = NodeHash(empty_table[n], empty_table[n])
        BY <3>2, <3>5, EmptyTableIs DEF entry_hash
      <4>3. up[n] # empty_table[n]
        BY <3>1, <4>1 DEF entry_hash
      <4> QED BY <2>0, <3>4, <4>2, <4>3
    <3>6. CASE g # NoHandle
      <4>1. MidOK(V, T, n + 1, g)
        BY <1>6, <3>2, <3>6 DEF NodeOK
      <4>2. f.tag = "MID" /\ f.hash = NodeHash(entry_hash(V, f.left, n), entry_hash(V, f.right, n))
        BY <3>2, <4>1 DEF MidOK
      <4>3. at[n] = IF Bit(k, n) = 1 THEN f.right ELSE f.left
        BY <3>3, <3>6, <4>2 DEF Child
      <4>4. entry_hash(V, g, n + 1) = f.hash
        BY <3>6 DEF entry_hash
      <4> HIDE DEF f
      <4> QED BY <2>0, <3>1, <3>4, <4>2, <4>3, <4>4
    <3> QED BY <3>5, <3>6
  <2>3. \A n \in Nat : n \in P
    <3> HIDE DEF P
    <3> QED BY <2>1, <2>2, SetInduction
  <2>4. up[Depth] # entry_hash(V, at[Depth], Depth)
    BY <1>0, <2>3
  <2> QED BY <1>7, <2>4
<1>13. CASE st = NoAccount
  <2>1. ~Sees
    BY <1>2, <1>3, <1>12, <1>13, <1>u
  <2> QED BY <1>13, <1>n, <2>1 DEF Sees, a, pr
<1>14. CASE st # NoAccount /\ h = NoHandle
  <2>1. ~Sees
    BY <1>2, <1>3, <1>14
  <2>2. a.absent
    BY <1>4, <1>14, <1>n
  <2> QED BY <2>1, <2>2 DEF Sees, a, pr
<1>15. CASE st # NoAccount /\ h # NoHandle
  <2>1. Sees <=> encodable(st) /\ e.hash = LeafHash(k, st) /\ up[Depth] = entry_hash(V, root, Depth)
    BY <1>2, <1>3, <1>15, <1>u DEF leaf
  <2>2. CASE e.hash = LeafHash(k, st)
    <3>1. r.key = k /\ r.st = st
      BY <1>5, <1>11, <1>15, <2>2
    <3>2. a = st /\ ~a.absent /\ encodable(st)
      BY <1>4, <1>5, <1>15, <3>1
    <3>3. Sees
      BY <1>10, <1>15, <2>1, <2>2, <3>2
    <3> QED BY <3>2, <3>3 DEF Sees, a, pr
  <2>3. CASE e.hash # LeafHash(k, st)
    <3>1. ~Sees
      BY <2>1, <2>3
    <3>2. ~(~a.absent /\ st = a)
      BY <1>4, <1>5, <1>15, <1>n, <2>3
    <3> QED BY <3>1, <3>2 DEF Sees, a, pr
  <2> QED BY <2>2, <2>3
<1> QED BY <1>13, <1>14, <1>15

\* Behind the empty handle there is no account.
LEMMA EmptyTree ==
    ASSUME NEW V, NEW T
    PROVE  /\ Sound(V, T, NoHandle)
           /\ \A k \in Key : lookup_account(V, NoHandle, k) = NoAccount
<1>0. Depth \in Nat /\ 0 \in 0 .. Depth
  BY SmtAssumption
<1>1. ASSUME NEW k PROVE \A l \in 0 .. Depth : Descent(V, NoHandle, k)[l] = NoHandle
  <2> DEFINE a == Descent(V, NoHandle, k)
             P == {n \in Nat : n <= Depth => a[Depth - n] = NoHandle}
  <2>0. /\ a[Depth] = NoHandle
        /\ \A l \in 0 .. Depth : l # Depth => a[l] = Child(V, k, l, a[l + 1])
    BY DescentIs
  <2> HIDE DEF a
  <2>1. 0 \in P
    BY <1>0, <2>0
  <2>2. ASSUME NEW n \in Nat, n \in P PROVE n + 1 \in P
    <3> SUFFICES ASSUME n + 1 <= Depth PROVE a[Depth - (n + 1)] = NoHandle
      OBVIOUS
    <3> DEFINE l == Depth - (n + 1)
    <3>1. l \in 0 .. Depth /\ l # Depth /\ l + 1 = Depth - n /\ n <= Depth
      BY <1>0
    <3>2. a[l + 1] = NoHandle
      BY <2>2, <3>1
    <3> HIDE DEF l
    <3>3. a[l] = NoHandle
      BY <2>0, <3>1, <3>2 DEF Child
    <3> QED BY <3>3 DEF l
  <2>3. \A n \in Nat : n \in P
    <3> HIDE DEF P
    <3> QED BY <2>1, <2>2, SetInduction
  <2>4. ASSUME NEW l \in 0 .. Depth PROVE a[l] = NoHandle
    <3>1. Depth - l \in Nat /\ Depth - l <= Depth /\ Depth - (Depth - l) = l
      BY <1>0
    <3> QED BY <2>3, <3>1
  <2> QED BY <2>4 DEF a
<1>2. Sound(V, T, NoHandle)
  BY <1>1 DEF Sound, NodeOK
<1>3. \A k \in Key : lookup_account(V, NoHandle, k) = NoAccount
  BY <1>0, <1>1, LookupIs
<1> QED BY <1>2, <1>3
=============================================================================
